-------------------------- MODULE Optimizer_proofs --------------------------
(***************************************************************************)
(* The optimized program does what the source does.                        *)
(*                                                                         *)
(* The walk of Rewrites is followed next to a stack of scopes, which says  *)
(* what declaration each name means; what the walk knows of a name is what *)
(* its variable holds.                                                     *)
(***************************************************************************)
EXTENDS Lowering_proofs, Rewrites

\* The recursive operators of Optimizer, of which only the equations that define
\* them are used.
CONSTANTS
    EvalConst(_, _), OptExpr(_, _), Assigned(_),
    OptStmts(_, _), OptStmt(_, _), Unrolled(_, _, _)

-----------------------------------------------------------------------------
(***************************************************************************)
(* Stacks of frames.                                                       *)
(***************************************************************************)
Held(env, i, n) == env[i][n]
Depth(env)      == Len(env)
Stack(env, S)   == env \in Seq([Names -> S])
Has(env, i, n) == Held(env, i, n) # Absent

LEMMA StackParts ==
    ASSUME NEW S, NEW env, Stack(env, S)
    PROVE  /\ Depth(env) \in Nat /\ DOMAIN env = 1 .. Depth(env)
           /\ \A i \in 1 .. Depth(env) : env[i] \in [Names -> S]
           /\ \A i \in 1 .. Depth(env), n \in Names : Held(env, i, n) \in S
<1>1. env \in Seq([Names -> S]) /\ Depth(env) = Len(env)
  BY DEF Stack, Depth
<1>2. Depth(env) \in Nat /\ DOMAIN env = 1 .. Depth(env)
  BY <1>1
<1>3. \A i \in 1 .. Depth(env) : env[i] \in [Names -> S]
  BY <1>1
<1> QED
  BY <1>2, <1>3 DEF Held

LEMMA GreatestNumber ==
    ASSUME NEW d \in Nat, NEW H \in SUBSET (0 .. d), H # {}
    PROVE  Max(H) \in H /\ \A i \in H : i <= Max(H)
<1>1. PICK L : L = {d - i : i \in H}
  OBVIOUS
<1>2. L \subseteq Nat /\ L # {}
  <2>1. \A i \in H : d - i \in Nat
    OBVIOUS
  <2>2. PICK h : h \in H
    OBVIOUS
  <2>3. d - h \in L
    BY <1>1, <2>2
  <2> QED
    BY <1>1, <2>1, <2>3
<1>3. PICK x \in L : \A y \in L : x <= y
  BY <1>2, LeastNumber
<1>4. PICK m \in H : x = d - m
  BY <1>1, <1>3
<1>5. \A i \in H : m >= i
  <2> SUFFICES ASSUME NEW i \in H PROVE m >= i
    OBVIOUS
  <2>1. d - i \in L
    BY <1>1
  <2>2. d - m <= d - i
    BY <1>3, <1>4, <2>1
  <2> QED
    BY <2>2
<1>6. Max(H) \in H /\ \A i \in H : Max(H) >= i
  BY <1>5 DEF Max
<1> QED
  BY <1>6

\* Frame finds the innermost frame that holds a name.
LEMMA InnerFrame ==
    ASSUME NEW S, NEW env, Stack(env, S), NEW n \in Names
    PROVE  /\ Frame(env, n) \in 0 .. Depth(env)
           /\ Frame(env, n) = 0 => \A i \in 1 .. Depth(env) : ~Has(env, i, n)
           /\ Frame(env, n) # 0 =>
                 /\ Frame(env, n) \in 1 .. Depth(env)
                 /\ Has(env, Frame(env, n), n)
                 /\ \A j \in 1 .. Depth(env) : j > Frame(env, n) => ~Has(env, j, n)
           /\ Lookup(env, n) = IF Frame(env, n) = 0 THEN Unknown ELSE Held(env, Frame(env, n), n)
<1>1. Depth(env) \in Nat /\ DOMAIN env = 1 .. Depth(env)
  BY StackParts
<1>2. PICK H : H = {i \in DOMAIN env : env[i][n] # Absent}
  OBVIOUS
<1>3. Frame(env, n) = IF H = {} THEN 0 ELSE Max(H)
  BY <1>2 DEF Frame
<1>4. \A i \in 1 .. Depth(env) : i \in H <=> Has(env, i, n)
  BY <1>1, <1>2 DEF Has, Held
<1>5. H \in SUBSET (1 .. Depth(env)) /\ H \in SUBSET (0 .. Depth(env))
  BY <1>1, <1>2
<1>6. Lookup(env, n) = IF Frame(env, n) = 0 THEN Unknown ELSE Held(env, Frame(env, n), n)
  BY DEF Lookup, Held
<1>7. CASE H = {}
  BY <1>1, <1>3, <1>4, <1>6, <1>7
<1>8. CASE H # {}
  <2>1. Max(H) \in H /\ \A i \in H : i <= Max(H)
    BY <1>1, <1>5, <1>8, GreatestNumber
  <2>2. PICK f : f = Frame(env, n)
    OBVIOUS
  <2>3. f = Max(H)
    BY <1>3, <1>8, <2>2
  <2>4. f \in H /\ f \in 1 .. Depth(env) /\ f # 0 /\ Has(env, f, n)
    <3>1. f \in H
      BY <2>1, <2>3
    <3>2. f \in 1 .. Depth(env)
      BY <1>5, <3>1
    <3> QED
      BY <1>1, <1>4, <3>1, <3>2
  <2>5. \A j \in 1 .. Depth(env) : j > f => ~Has(env, j, n)
    BY <1>1, <1>4, <2>1, <2>3, <2>4
  <2>6. f \in 0 .. Depth(env)
    BY <1>1, <2>4
  <2> QED
    BY <1>6, <2>2, <2>4, <2>5, <2>6
<1> QED
  BY <1>7, <1>8

LEMMA FrameIs ==
    ASSUME NEW S, NEW env, Stack(env, S), NEW n \in Names,
           NEW i \in 1 .. Depth(env), Has(env, i, n),
           \A j \in 1 .. Depth(env) : j > i => ~Has(env, j, n)
    PROVE  Frame(env, n) = i
<1>1. PICK f : f = Frame(env, n)
  OBVIOUS
<1>2. f # 0
  BY <1>1, InnerFrame
<1>3. f \in 1 .. Depth(env) /\ Has(env, f, n) /\ \A j \in 1 .. Depth(env) : j > f => ~Has(env, j, n)
  BY <1>1, <1>2, InnerFrame
<1>4. Depth(env) \in Nat
  BY StackParts
<1>5. ~(f > i) /\ ~(i > f)
  BY <1>3
<1> QED
  BY <1>1, <1>3, <1>4, <1>5

LEMMA EnterParts ==
    ASSUME NEW S, NEW env, Stack(env, S), Absent \in S
    PROVE  /\ Stack(Enter(env), S) /\ Depth(Enter(env)) = Depth(env) + 1
           /\ \A i \in 1 .. Depth(env), n \in Names : Held(Enter(env), i, n) = Held(env, i, n)
           /\ \A n \in Names : Held(Enter(env), Depth(env) + 1, n) = Absent
<1>1. env \in Seq([Names -> S]) /\ NoNames \in [Names -> S] /\ Depth(env) \in Nat
  BY StackParts DEF Stack, NoNames
<1>2. PICK r : r = Append(env, NoNames)
  OBVIOUS
<1>3. /\ r \in Seq([Names -> S]) /\ Len(r) = Len(env) + 1
      /\ \A i \in 1 .. Len(env) : r[i] = env[i]
      /\ r[Len(env) + 1] = NoNames
  BY <1>1, <1>2
<1> QED
  BY <1>2, <1>3 DEF Enter, Held, Depth, Stack, NoNames

LEMMA LeaveParts ==
    ASSUME NEW S, NEW env, Stack(env, S), Depth(env) > 0
    PROVE  /\ Stack(Leave(env), S) /\ Depth(Leave(env)) = Depth(env) - 1
           /\ \A i \in 1 .. Depth(env) - 1, n \in Names : Held(Leave(env), i, n) = Held(env, i, n)
<1>1. env \in Seq([Names -> S]) /\ Len(env) \in Nat /\ Len(env) > 0
  BY StackParts DEF Stack, Depth
<1>2. PICK r : r = SubSeq(env, 1, Len(env) - 1)
  OBVIOUS
<1>3. PICK d \in Nat : d = Len(env) - 1
  BY <1>1
<1>4. r \in Seq([Names -> S]) /\ Len(r) = Len(env) - 1
      /\ \A i \in 1 .. Len(env) - 1 : r[i] = env[i]
  BY <1>1, <1>2, <1>3
<1> QED
  BY <1>2, <1>4 DEF Leave, Front, Held, Depth, Stack

\* The stack with c in frame i for n.
SetIn(env, i, n, c) == [env EXCEPT ![i][n] = c]

LEMMA SetParts ==
    ASSUME NEW S, NEW env, Stack(env, S), NEW i \in 1 .. Depth(env), NEW n \in Names, NEW c \in S
    PROVE  /\ Stack(SetIn(env, i, n, c), S) /\ Depth(SetIn(env, i, n, c)) = Depth(env)
           /\ \A j \in 1 .. Depth(env), m \in Names :
                 Held(SetIn(env, i, n, c), j, m) = IF j = i /\ m = n THEN c ELSE Held(env, j, m)
<1>1. env \in Seq([Names -> S]) /\ Len(env) \in Nat /\ DOMAIN env = 1 .. Len(env)
      /\ \A j \in 1 .. Len(env) : env[j] \in [Names -> S]
  BY StackParts DEF Stack, Depth
<1>2. PICK g : g = [env[i] EXCEPT ![n] = c]
  OBVIOUS
<1>3. PICK r : r = [env EXCEPT ![i] = g]
  OBVIOUS
<1>4. r = SetIn(env, i, n, c)
  BY <1>2, <1>3 DEF SetIn
<1>5. i \in 1 .. Len(env) /\ g \in [Names -> S]
  BY <1>1, <1>2 DEF Depth
<1>6. r \in Seq([Names -> S]) /\ Len(r) = Len(env)
  BY <1>1, <1>3, <1>5
<1>7. r[i] = g /\ \A j \in 1 .. Len(env) : j # i => r[j] = env[j]
  BY <1>1, <1>3, <1>5
<1>8. \A m \in Names : g[m] = IF m = n THEN c ELSE env[i][m]
  BY <1>1, <1>2, <1>5
<1>9. \A j \in 1 .. Len(env), m \in Names : r[j][m] = IF j = i /\ m = n THEN c ELSE env[j][m]
  BY <1>7, <1>8
<1> QED
  BY <1>4, <1>6, <1>9 DEF Held, Depth, Stack

-----------------------------------------------------------------------------
(***************************************************************************)
(* What the walk knows.                                                    *)
(***************************************************************************)
Kinds   == {"int", "bool", "string"}
Consts  == [kind : Kinds \cup {"unknown"}, v : Nat]
Entries == Consts \cup {Absent}
IsEnv(env) == Stack(env, Entries)

\* A frame of scopes holds a name if it declares it, with the declaration's id.
Meaning(id)  == Const("scope", id)
Bindings     == {Meaning(id) : id \in Nat} \cup {Absent}
IsScopes(sc) == Stack(sc, Bindings)
Key(sc, i, n) == << n, Held(sc, i, n).v >>

\* No declaration is in two frames.
Apart(sc) ==
    \A i, j \in 1 .. Depth(sc), n \in Names :
        Has(sc, i, n) /\ Has(sc, j, n) /\ i # j => Key(sc, i, n) # Key(sc, j, n)
\* A declaration is not in any frame, and no other of its name is in the innermost.
Anew(sc, n, id) ==
    /\ ~Has(sc, Depth(sc), n)
    /\ \A i \in 1 .. Depth(sc) : Has(sc, i, n) => Key(sc, i, n) # << n, id >>

\* What env knows of the variables in sc is what they hold: their kinds, or their
\* values.  A name that no scope declares is in env only as one of those assigned
\* in a body; nothing is known of it.
Aspect(part, c) == IF part = "kind" THEN c.kind ELSE c.v
KnowsOf(part, env, sc, store) ==
    /\ Depth(env) = Depth(sc)
    /\ \A i \in 1 .. Depth(sc), n \in Names : Has(sc, i, n) =>
          /\ Has(env, i, n)
          /\ IsKnown(Held(env, i, n)) => Aspect(part, Held(env, i, n)) = Val(store, Key(sc, i, n))
    /\ \A i \in 1 .. Depth(sc), n \in Names : Has(env, i, n) /\ ~Has(sc, i, n) =>
          /\ Held(env, i, n) = Unknown
          /\ \A j \in 1 .. Depth(sc) : j < i => ~Has(sc, j, n)
Knows(env, sc, store) == KnowsOf("value", env, sc, store)

LEMMA ValueAspect == \A c : Aspect("value", c) = c.v /\ Aspect("kind", c) = c.kind
  BY DEF Aspect

LEMMA EntryKinds ==
    /\ Unknown \in Consts /\ ~IsKnown(Unknown) /\ Absent \notin Consts /\ Unknown # Absent
    /\ \A c \in Consts : c \in Entries /\ c.v \in Nat /\ c = Const(c.kind, c.v)
                         /\ (IsKnown(c) => c.kind \in Kinds)
    /\ \A kind \in Kinds, v \in Nat : Const(kind, v) \in Consts /\ IsKnown(Const(kind, v))
    /\ \A kind, v : Const(kind, v).kind = kind /\ Const(kind, v).v = v
    /\ Absent \in Entries /\ Absent \in Bindings
    /\ \A id \in Nat : Meaning(id) \in Bindings
    /\ \A id : Meaning(id) # Absent /\ Meaning(id) # Unknown /\ Meaning(id).v = id
<1>1. Unknown \in Consts /\ ~IsKnown(Unknown)
  BY DEF Unknown, Consts, IsKnown
<1>2. Unknown.kind = "unknown" /\ Absent.kind = "absent"
  BY DEF Unknown, Absent
<1>3. \A c \in Consts : c.kind \in Kinds \cup {"unknown"} /\ c.v \in Nat /\ c = Const(c.kind, c.v)
  BY DEF Consts, Const
<1>4. "absent" \notin Kinds \cup {"unknown"} /\ "unknown" \notin Kinds
  BY DEF Kinds
<1>5. Absent \notin Consts /\ Unknown # Absent
  BY <1>2, <1>3, <1>4
<1>6. \A c \in Consts : c \in Entries /\ (IsKnown(c) => c.kind \in Kinds)
  BY <1>3 DEF Entries, IsKnown
<1>7. \A kind, v : Const(kind, v).kind = kind /\ Const(kind, v).v = v
  BY DEF Const
<1>8. \A kind \in Kinds, v \in Nat : Const(kind, v) \in Consts /\ IsKnown(Const(kind, v))
  BY DEF Const, Consts, IsKnown, Kinds
<1>9. Absent \in Entries /\ Absent \in Bindings /\ \A id \in Nat : Meaning(id) \in Bindings
  BY DEF Entries, Bindings
<1>10. \A id : Meaning(id).kind = "scope" /\ Meaning(id).v = id
  BY DEF Meaning, Const
<1>11. \A id : Meaning(id) # Absent /\ Meaning(id) # Unknown
  BY <1>2, <1>10
<1> QED
  BY <1>1, <1>3, <1>5, <1>6, <1>7, <1>8, <1>9, <1>10, <1>11

\* A name that is declared has its innermost declaration's frame in env, too.
LEMMA FrameOf ==
    ASSUME NEW part, NEW env, IsEnv(env), NEW sc, IsScopes(sc), NEW store, KnowsOf(part, env, sc, store),
           NEW n \in Names, Frame(sc, n) # 0
    PROVE  Frame(env, n) = Frame(sc, n)
<1>1. PICK f : f = Frame(sc, n)
  OBVIOUS
<1>2. f \in 1 .. Depth(sc) /\ Has(sc, f, n)
  BY <1>1, InnerFrame DEF IsScopes
<1>3. Depth(env) = Depth(sc) /\ Has(env, f, n)
  BY <1>2 DEF KnowsOf
<1>4. ASSUME NEW j \in 1 .. Depth(env), j > f, Has(env, j, n) PROVE FALSE
  <2>1. j \in 1 .. Depth(sc) /\ f < j /\ ~Has(sc, j, n)
    BY <1>1, <1>2, <1>3, <1>4, InnerFrame DEF IsScopes
  <2> QED
    BY <1>2, <1>4, <2>1 DEF KnowsOf
<1> QED
  BY <1>1, <1>2, <1>3, <1>4, FrameIs DEF IsEnv

LEMMA SameFrame ==
    ASSUME NEW env, IsEnv(env), NEW sc, IsScopes(sc), NEW store, Knows(env, sc, store),
           NEW n \in Names, Frame(sc, n) # 0
    PROVE  Frame(env, n) = Frame(sc, n)
  BY FrameOf, ValueAspect DEF Knows

LEMMA EnteredOf ==
    ASSUME NEW part, NEW env, IsEnv(env), NEW sc, IsScopes(sc), NEW store, KnowsOf(part, env, sc, store)
    PROVE  /\ IsEnv(Enter(env)) /\ IsScopes(Enter(sc)) /\ Depth(Enter(env)) = Depth(env) + 1
           /\ KnowsOf(part, Enter(env), Enter(sc), store)
<1>1. PICK a : a = Enter(env)
  OBVIOUS
<1>2. PICK b : b = Enter(sc)
  OBVIOUS
<1>3. PICK d \in Nat : d = Depth(env) /\ d = Depth(sc)
  BY StackParts DEF KnowsOf, IsEnv
<1>4. /\ IsEnv(a) /\ Depth(a) = d + 1 /\ \A n \in Names : Held(a, d + 1, n) = Absent
      /\ \A i \in 1 .. d, n \in Names : Held(a, i, n) = Held(env, i, n)
  BY <1>1, <1>3, EntryKinds, EnterParts DEF IsEnv
<1>5. /\ IsScopes(b) /\ Depth(b) = d + 1 /\ \A n \in Names : Held(b, d + 1, n) = Absent
      /\ \A i \in 1 .. d, n \in Names : Held(b, i, n) = Held(sc, i, n)
  BY <1>2, <1>3, EntryKinds, EnterParts DEF IsScopes
<1>6. \A i \in 1 .. d + 1 : i \in 1 .. d \/ i = d + 1
  BY <1>3
<1>7. \A n \in Names : ~Has(a, d + 1, n) /\ ~Has(b, d + 1, n)
  BY <1>4, <1>5 DEF Has
<1>8. \A i \in 1 .. d, n \in Names :
         /\ Has(a, i, n) = Has(env, i, n) /\ Has(b, i, n) = Has(sc, i, n)
         /\ Key(b, i, n) = Key(sc, i, n)
  BY <1>4, <1>5 DEF Has, Key
<1>9. ASSUME NEW i \in 1 .. d + 1, NEW n \in Names, Has(b, i, n)
      PROVE  /\ Has(a, i, n)
             /\ IsKnown(Held(a, i, n)) => Aspect(part, Held(a, i, n)) = Val(store, Key(b, i, n))
  <2>1. i \in 1 .. d
    BY <1>6, <1>7, <1>9
  <2> QED
    BY <1>3, <1>4, <1>8, <1>9, <2>1 DEF KnowsOf
<1>10. ASSUME NEW i \in 1 .. d + 1, NEW n \in Names, Has(a, i, n), ~Has(b, i, n)
       PROVE  Held(a, i, n) = Unknown /\ \A j \in 1 .. d + 1 : j < i => ~Has(b, j, n)
  <2>1. i \in 1 .. d
    BY <1>6, <1>7, <1>10
  <2>2. Held(env, i, n) = Unknown /\ \A j \in 1 .. d : j < i => ~Has(sc, j, n)
    BY <1>3, <1>8, <1>10, <2>1 DEF KnowsOf
  <2> QED
    BY <1>4, <1>6, <1>7, <1>8, <2>1, <2>2
<1> QED
  BY <1>1, <1>2, <1>3, <1>4, <1>5, <1>9, <1>10 DEF KnowsOf

LEMMA KnowsEntered ==
    ASSUME NEW env, IsEnv(env), NEW sc, IsScopes(sc), NEW store, Knows(env, sc, store)
    PROVE  /\ IsEnv(Enter(env)) /\ IsScopes(Enter(sc)) /\ Depth(Enter(env)) = Depth(env) + 1
           /\ Knows(Enter(env), Enter(sc), store)
  BY EnteredOf, ValueAspect DEF Knows

LEMMA LeftOf ==
    ASSUME NEW part, NEW env, IsEnv(env), NEW sc, IsScopes(sc), NEW store, KnowsOf(part, env, sc, store), Depth(env) > 0
    PROVE  /\ IsEnv(Leave(env)) /\ IsScopes(Leave(sc)) /\ Depth(Leave(env)) = Depth(env) - 1
           /\ KnowsOf(part, Leave(env), Leave(sc), store)
<1>1. PICK a : a = Leave(env)
  OBVIOUS
<1>2. PICK b : b = Leave(sc)
  OBVIOUS
<1>3. PICK d \in Nat : d = Depth(env) /\ d = Depth(sc) /\ d > 0
  BY StackParts DEF KnowsOf, IsEnv
<1>4. /\ IsEnv(a) /\ Depth(a) = d - 1
      /\ \A i \in 1 .. d - 1, n \in Names : Held(a, i, n) = Held(env, i, n)
  BY <1>1, <1>3, LeaveParts DEF IsEnv
<1>5. /\ IsScopes(b) /\ Depth(b) = d - 1
      /\ \A i \in 1 .. d - 1, n \in Names : Held(b, i, n) = Held(sc, i, n)
  BY <1>2, <1>3, LeaveParts DEF IsScopes
<1>6. \A i \in 1 .. d - 1 : i \in 1 .. d
  BY <1>3
<1>7. \A i \in 1 .. d - 1, n \in Names :
         /\ Has(a, i, n) = Has(env, i, n) /\ Has(b, i, n) = Has(sc, i, n)
         /\ Key(b, i, n) = Key(sc, i, n)
  BY <1>4, <1>5 DEF Has, Key
<1>8. ASSUME NEW i \in 1 .. d - 1, NEW n \in Names, Has(b, i, n)
      PROVE  /\ Has(a, i, n)
             /\ IsKnown(Held(a, i, n)) => Aspect(part, Held(a, i, n)) = Val(store, Key(b, i, n))
  BY <1>3, <1>4, <1>6, <1>7, <1>8 DEF KnowsOf
<1>9. ASSUME NEW i \in 1 .. d - 1, NEW n \in Names, Has(a, i, n), ~Has(b, i, n)
      PROVE  Held(a, i, n) = Unknown /\ \A j \in 1 .. d - 1 : j < i => ~Has(b, j, n)
  <2>1. Held(env, i, n) = Unknown /\ \A j \in 1 .. d : j < i => ~Has(sc, j, n)
    BY <1>3, <1>6, <1>7, <1>9 DEF KnowsOf
  <2> QED
    BY <1>4, <1>6, <1>7, <2>1
<1> QED
  BY <1>1, <1>2, <1>3, <1>4, <1>5, <1>8, <1>9 DEF KnowsOf

LEMMA KnowsLeft ==
    ASSUME NEW env, IsEnv(env), NEW sc, IsScopes(sc), NEW store, Knows(env, sc, store), Depth(env) > 0
    PROVE  /\ IsEnv(Leave(env)) /\ IsScopes(Leave(sc)) /\ Depth(Leave(env)) = Depth(env) - 1
           /\ Knows(Leave(env), Leave(sc), store)
  BY LeftOf, ValueAspect DEF Knows

\* A declaration.
Declared(sc, n, id) == SetIn(sc, Depth(sc), n, Meaning(id))

LEMMA DeclaredOf ==
    ASSUME NEW part, NEW env, IsEnv(env), NEW sc, IsScopes(sc), NEW store, KnowsOf(part, env, sc, store), Depth(env) > 0,
           NEW n \in Names, NEW id \in Nat
    PROVE  /\ IsEnv(DeclareVar(env, n)) /\ Depth(DeclareVar(env, n)) = Depth(env)
           /\ IsScopes(Declared(sc, n, id)) /\ Depth(Declared(sc, n, id)) = Depth(sc)
           /\ KnowsOf(part, DeclareVar(env, n), Declared(sc, n, id), store)
<1>1. PICK a : a = DeclareVar(env, n)
  OBVIOUS
<1>2. PICK b : b = Declared(sc, n, id)
  OBVIOUS
<1>3. PICK d \in Nat : d = Depth(env) /\ d = Depth(sc) /\ d > 0 /\ d \in 1 .. d
  BY StackParts DEF KnowsOf, IsEnv
<1>4. a = SetIn(env, d, n, Unknown)
  BY <1>1, <1>3 DEF DeclareVar, SetIn, Depth
<1>5. /\ IsEnv(a) /\ Depth(a) = d
      /\ \A i \in 1 .. d, m \in Names : Held(a, i, m) = IF i = d /\ m = n THEN Unknown ELSE Held(env, i, m)
  <2>1. Stack(env, Entries) /\ Unknown \in Entries /\ d \in 1 .. Depth(env) /\ n \in Names
    BY <1>3, EntryKinds DEF IsEnv
  <2>2. /\ Stack(SetIn(env, d, n, Unknown), Entries) /\ Depth(SetIn(env, d, n, Unknown)) = Depth(env)
        /\ \A j \in 1 .. Depth(env), m \in Names :
              Held(SetIn(env, d, n, Unknown), j, m) = IF j = d /\ m = n THEN Unknown ELSE Held(env, j, m)
    BY <2>1, SetParts
  <2> QED
    BY <1>3, <1>4, <2>2 DEF IsEnv
<1>6. /\ IsScopes(b) /\ Depth(b) = d
      /\ \A i \in 1 .. d, m \in Names : Held(b, i, m) = IF i = d /\ m = n THEN Meaning(id) ELSE Held(sc, i, m)
  BY <1>2, <1>3, EntryKinds, SetParts DEF IsScopes, Declared
<1>7. Has(a, d, n) /\ Has(b, d, n) /\ ~IsKnown(Held(a, d, n))
  BY <1>3, <1>5, <1>6, EntryKinds DEF Has
<1>8. \A i \in 1 .. d, m \in Names : i # d \/ m # n =>
         /\ Held(a, i, m) = Held(env, i, m)
         /\ Has(a, i, m) = Has(env, i, m) /\ Has(b, i, m) = Has(sc, i, m)
         /\ Key(b, i, m) = Key(sc, i, m)
  BY <1>5, <1>6 DEF Has, Key
<1>9. ASSUME NEW i \in 1 .. d, NEW m \in Names, Has(b, i, m)
      PROVE  /\ Has(a, i, m)
             /\ IsKnown(Held(a, i, m)) => Aspect(part, Held(a, i, m)) = Val(store, Key(b, i, m))
  <2>1. CASE i = d /\ m = n
    BY <1>7, <2>1
  <2>2. CASE i # d \/ m # n
    BY <1>3, <1>8, <1>9, <2>2 DEF KnowsOf
  <2> QED
    BY <2>1, <2>2
<1>10. ASSUME NEW i \in 1 .. d, NEW m \in Names, Has(a, i, m), ~Has(b, i, m)
       PROVE  Held(a, i, m) = Unknown /\ \A j \in 1 .. d : j < i => ~Has(b, j, m)
  <2>1. i # d \/ m # n
    BY <1>7, <1>10
  <2>2. Held(env, i, m) = Unknown /\ \A j \in 1 .. d : j < i => ~Has(sc, j, m)
    BY <1>3, <1>8, <1>10, <2>1 DEF KnowsOf
  <2>3. \A j \in 1 .. d : j < i => j # d
    BY <1>3
  <2> QED
    BY <1>8, <2>1, <2>2, <2>3
<1> QED
  BY <1>1, <1>2, <1>3, <1>5, <1>6, <1>9, <1>10 DEF KnowsOf

LEMMA KnowsDeclared ==
    ASSUME NEW env, IsEnv(env), NEW sc, IsScopes(sc), NEW store, Knows(env, sc, store), Depth(env) > 0,
           NEW n \in Names, NEW id \in Nat
    PROVE  /\ IsEnv(DeclareVar(env, n)) /\ Depth(DeclareVar(env, n)) = Depth(env)
           /\ IsScopes(Declared(sc, n, id)) /\ Depth(Declared(sc, n, id)) = Depth(sc)
           /\ Knows(DeclareVar(env, n), Declared(sc, n, id), store)
  BY DeclaredOf, ValueAspect DEF Knows

LEMMA ApartDeclared ==
    ASSUME NEW sc, IsScopes(sc), Depth(sc) > 0, Apart(sc), NEW n \in Names, NEW id \in Nat,
           \A i \in 1 .. Depth(sc) : Has(sc, i, n) => Key(sc, i, n) # << n, id >>
    PROVE  Apart(Declared(sc, n, id))
<1>1. PICK b : b = Declared(sc, n, id)
  OBVIOUS
<1>2. PICK d \in Nat : d = Depth(sc) /\ d > 0 /\ d \in 1 .. d
  BY StackParts DEF IsScopes
<1>3. /\ Depth(b) = d
      /\ \A i \in 1 .. d, m \in Names : Held(b, i, m) = IF i = d /\ m = n THEN Meaning(id) ELSE Held(sc, i, m)
  BY <1>1, <1>2, EntryKinds, SetParts DEF IsScopes, Declared
<1>4. Key(b, d, n) = << n, id >>
  BY <1>2, <1>3, EntryKinds DEF Key
<1>5. \A i \in 1 .. d, m \in Names : i # d \/ m # n =>
         Has(b, i, m) = Has(sc, i, m) /\ Key(b, i, m) = Key(sc, i, m)
  BY <1>3 DEF Has, Key
<1>6. ASSUME NEW i \in 1 .. d, NEW j \in 1 .. d, NEW m \in Names,
             Has(b, i, m), Has(b, j, m), i # j
      PROVE  Key(b, i, m) # Key(b, j, m)
  <2>1. CASE i = d /\ m = n
    BY <1>2, <1>4, <1>5, <1>6, <2>1
  <2>2. CASE j = d /\ m = n
    BY <1>2, <1>4, <1>5, <1>6, <2>2
  <2>3. CASE ~(i = d /\ m = n) /\ ~(j = d /\ m = n)
    BY <1>2, <1>5, <1>6, <2>3 DEF Apart
  <2> QED
    BY <2>1, <2>2, <2>3
<1> QED
  BY <1>1, <1>3, <1>6 DEF Apart

LEMMA ApartEntered ==
    ASSUME NEW sc, IsScopes(sc), Apart(sc)
    PROVE  Apart(Enter(sc))
<1>1. PICK b : b = Enter(sc)
  OBVIOUS
<1>2. PICK d \in Nat : d = Depth(sc)
  BY StackParts DEF IsScopes
<1>3. /\ Depth(b) = d + 1 /\ \A n \in Names : Held(b, d + 1, n) = Absent
      /\ \A i \in 1 .. d, n \in Names : Held(b, i, n) = Held(sc, i, n)
  BY <1>1, <1>2, EntryKinds, EnterParts DEF IsScopes
<1>4. \A i \in 1 .. d + 1 : i \in 1 .. d \/ i = d + 1
  BY <1>2
<1>5. \A i \in 1 .. d + 1, n \in Names : Has(b, i, n) =>
         i \in 1 .. d /\ Has(sc, i, n) /\ Key(b, i, n) = Key(sc, i, n)
  BY <1>3, <1>4 DEF Has, Key
<1> QED
  BY <1>1, <1>2, <1>3, <1>5 DEF Apart

\* An assignment to the variable n means.
LEMMA StoredOf ==
    ASSUME NEW part, NEW env, IsEnv(env), NEW sc, IsScopes(sc), NEW store, KnowsOf(part, env, sc, store),
           NEW n \in Names, NEW id, Frame(sc, n) # 0, Lookup(sc, n) = Meaning(id),
           NEW c \in Consts, NEW v, IsKnown(c) => Aspect(part, c) = v,
           Apart(sc) \/ v = Val(store, << n, id >>)
    PROVE  /\ IsEnv(AssignVar(env, n, c)) /\ Depth(AssignVar(env, n, c)) = Depth(env)
           /\ KnowsOf(part, AssignVar(env, n, c), sc, Put(store, << n, id >>, v))
<1>1. PICK a : a = AssignVar(env, n, c)
  OBVIOUS
<1>2. PICK f : f = Frame(sc, n)
  OBVIOUS
<1>3. PICK st : st = Put(store, << n, id >>, v)
  OBVIOUS
<1>4. PICK d \in Nat : d = Depth(env) /\ d = Depth(sc)
  BY StackParts DEF KnowsOf, IsEnv
<1>5. /\ f \in 1 .. d /\ Has(sc, f, n) /\ Key(sc, f, n) = << n, id >>
  BY <1>2, <1>4, InnerFrame, EntryKinds DEF IsScopes, Key
<1>6. Frame(env, n) = f /\ f # 0
  BY <1>2, FrameOf
<1>7. a = SetIn(env, f, n, c)
  BY <1>1, <1>6 DEF AssignVar, SetIn
<1>8. /\ IsEnv(a) /\ Depth(a) = d
      /\ \A i \in 1 .. d, m \in Names : Held(a, i, m) = IF i = f /\ m = n THEN c ELSE Held(env, i, m)
  <2>1. Stack(env, Entries) /\ c \in Entries /\ f \in 1 .. Depth(env) /\ n \in Names
    BY <1>4, <1>5, EntryKinds DEF IsEnv
  <2>2. /\ Stack(SetIn(env, f, n, c), Entries) /\ Depth(SetIn(env, f, n, c)) = Depth(env)
        /\ \A j \in 1 .. Depth(env), m \in Names :
              Held(SetIn(env, f, n, c), j, m) = IF j = f /\ m = n THEN c ELSE Held(env, j, m)
    BY <2>1, SetParts
  <2> QED
    BY <1>4, <1>7, <2>2 DEF IsEnv
<1>9. Has(a, f, n) /\ Held(a, f, n) = c
  BY <1>5, <1>8, EntryKinds DEF Has
<1>10. \A i \in 1 .. d, m \in Names : i # f \/ m # n =>
         Held(a, i, m) = Held(env, i, m) /\ Has(a, i, m) = Has(env, i, m)
  BY <1>8 DEF Has
<1>11. \A k : Val(st, k) = IF k = << n, id >> THEN v ELSE Val(store, k)
  BY <1>3, ValPut
<1>12. ASSUME NEW i \in 1 .. d, NEW m \in Names, Has(sc, i, m)
       PROVE  /\ Has(a, i, m)
              /\ IsKnown(Held(a, i, m)) => Aspect(part, Held(a, i, m)) = Val(st, Key(sc, i, m))
  <2>1. CASE i = f /\ m = n
    BY <1>5, <1>9, <1>11, <2>1
  <2>2. CASE i # f \/ m # n
    <3>1. ASSUME Apart(sc) PROVE Key(sc, i, m) # << n, id >>
      <4>1. CASE m # n
        BY <4>1 DEF Key
      <4>2. CASE m = n /\ i # f
        BY <1>4, <1>5, <1>12, <3>1, <4>2 DEF Apart
      <4> QED
        BY <2>2, <4>1, <4>2
    <3>2. Val(st, Key(sc, i, m)) = Val(store, Key(sc, i, m))
      BY <1>11, <3>1
    <3>3. /\ Has(env, i, m)
          /\ IsKnown(Held(env, i, m)) => Aspect(part, Held(env, i, m)) = Val(store, Key(sc, i, m))
      BY <1>4, <1>12 DEF KnowsOf
    <3> QED
      BY <1>10, <2>2, <3>2, <3>3
  <2> QED
    BY <2>1, <2>2
<1>13. ASSUME NEW i \in 1 .. d, NEW m \in Names, Has(a, i, m), ~Has(sc, i, m)
       PROVE  Held(a, i, m) = Unknown /\ \A j \in 1 .. d : j < i => ~Has(sc, j, m)
  <2>1. i # f \/ m # n
    BY <1>5, <1>13
  <2> QED
    BY <1>4, <1>10, <1>13, <2>1 DEF KnowsOf
<1> QED
  BY <1>1, <1>3, <1>4, <1>8, <1>12, <1>13 DEF KnowsOf

LEMMA KnowsAssigned ==
    ASSUME NEW env, IsEnv(env), NEW sc, IsScopes(sc), NEW store, Knows(env, sc, store), Apart(sc),
           NEW n \in Names, NEW id, Frame(sc, n) # 0, Lookup(sc, n) = Meaning(id),
           NEW c \in Consts, NEW v, IsKnown(c) => c.v = v
    PROVE  /\ IsEnv(AssignVar(env, n, c)) /\ Depth(AssignVar(env, n, c)) = Depth(env)
           /\ Knows(AssignVar(env, n, c), sc, Put(store, << n, id >>, v))
  BY StoredOf, ValueAspect DEF Knows

(***************************************************************************)
(* What a body may change.                                                 *)
(***************************************************************************)
\* Of the variables in sc only those that the names mean there have changed.
Untouched(sc, names, before, after) ==
    \A i \in 1 .. Depth(sc), n \in Names : Has(sc, i, n) /\ (n \notin names \/ i # Frame(sc, n)) =>
        Val(after, Key(sc, i, n)) = Val(before, Key(sc, i, n))

LEMMA UntouchedSame == \A sc, names, store : Untouched(sc, names, store, store)
  BY DEF Untouched

LEMMA UntouchedMore ==
    ASSUME NEW sc, NEW names, NEW more, names \subseteq more, NEW before, NEW after,
           Untouched(sc, names, before, after)
    PROVE  Untouched(sc, more, before, after)
  BY DEF Untouched

LEMMA UntouchedTwice ==
    ASSUME NEW sc, NEW names, NEW before, NEW between, NEW after,
           Untouched(sc, names, before, between), Untouched(sc, names, between, after)
    PROVE  Untouched(sc, names, before, after)
  BY DEF Untouched

\* In scopes with more declarations.
Extends(inner, sc) ==
    /\ Depth(sc) <= Depth(inner)
    /\ \A i \in 1 .. Depth(sc), n \in Names : Has(sc, i, n) => Held(inner, i, n) = Held(sc, i, n)

LEMMA UntouchedOutside ==
    ASSUME NEW sc, IsScopes(sc), NEW inner, IsScopes(inner), Extends(inner, sc),
           NEW names, NEW before, NEW after, Untouched(inner, names, before, after)
    PROVE  Untouched(sc, names, before, after)
<1>1. Depth(sc) \in Nat /\ Depth(inner) \in Nat /\ Depth(sc) <= Depth(inner)
  BY StackParts DEF IsScopes, Extends
<1>2. \A i \in 1 .. Depth(sc) : i \in 1 .. Depth(inner)
  BY <1>1
<1>3. \A i \in 1 .. Depth(sc), n \in Names : Has(sc, i, n) =>
         Has(inner, i, n) /\ Key(inner, i, n) = Key(sc, i, n)
  BY DEF Extends, Has, Key
<1>4. ASSUME NEW i \in 1 .. Depth(sc), NEW n \in Names, Has(sc, i, n),
             n \notin names \/ i # Frame(sc, n)
      PROVE  Val(after, Key(sc, i, n)) = Val(before, Key(sc, i, n))
  <2>1. CASE n \notin names
    BY <1>2, <1>3, <1>4, <2>1 DEF Untouched
  <2>2. CASE i # Frame(sc, n)
    <3>1. PICK j \in 1 .. Depth(sc) : j > i /\ Has(sc, j, n)
      BY <1>4, <2>2, FrameIs DEF IsScopes
    <3>2. PICK f : f = Frame(inner, n)
      OBVIOUS
    <3>3. f # i
      <4>1. ASSUME f = i PROVE FALSE
        <5>1. i # 0 /\ j \in 1 .. Depth(inner) /\ Has(inner, j, n)
          BY <1>1, <1>2, <1>3, <3>1
        <5> QED
          BY <3>1, <3>2, <4>1, <5>1, InnerFrame DEF IsScopes
      <4> QED
        BY <4>1
    <3> QED
      BY <1>2, <1>3, <1>4, <3>2, <3>3 DEF Untouched
  <2> QED
    BY <1>4, <2>1, <2>2
<1> QED
  BY <1>4 DEF Untouched

LEMMA EnteredExtends ==
    ASSUME NEW sc, IsScopes(sc)
    PROVE  IsScopes(Enter(sc)) /\ Extends(Enter(sc), sc)
<1>1. Depth(sc) \in Nat
  BY StackParts DEF IsScopes
<1>2. PICK e : e = Enter(sc)
  OBVIOUS
<1>3. /\ Stack(e, Bindings) /\ Depth(e) = Depth(sc) + 1
      /\ \A i \in 1 .. Depth(sc), n \in Names : Held(e, i, n) = Held(sc, i, n)
  BY <1>2, EntryKinds, EnterParts DEF IsScopes
<1>4. Depth(sc) <= Depth(e)
  BY <1>1, <1>3
<1>5. IsScopes(e) /\ Extends(e, sc)
  BY <1>3, <1>4 DEF IsScopes, Extends
<1> QED
  BY <1>2, <1>5

LEMMA DeclaredExtends ==
    ASSUME NEW sc, IsScopes(sc), Depth(sc) > 0, NEW n \in Names, NEW id \in Nat, ~Has(sc, Depth(sc), n)
    PROVE  IsScopes(Declared(sc, n, id)) /\ Extends(Declared(sc, n, id), sc)
<1>1. PICK b : b = Declared(sc, n, id)
  OBVIOUS
<1>2. PICK d \in Nat : d = Depth(sc) /\ d > 0 /\ d \in 1 .. d
  BY StackParts DEF IsScopes
<1>3. /\ IsScopes(b) /\ Depth(b) = d
      /\ \A i \in 1 .. d, m \in Names : Held(b, i, m) = IF i = d /\ m = n THEN Meaning(id) ELSE Held(sc, i, m)
  BY <1>1, <1>2, EntryKinds, SetParts DEF IsScopes, Declared
<1>4. \A i \in 1 .. d, m \in Names : Has(sc, i, m) => ~(i = d /\ m = n)
  BY <1>2
<1> QED
  BY <1>1, <1>2, <1>3, <1>4 DEF Extends

\* An assignment touches only what its name means.
LEMMA AssignmentTouches ==
    ASSUME NEW sc, IsScopes(sc), Apart(sc), NEW n \in Names, NEW id,
           Frame(sc, n) # 0, Lookup(sc, n) = Meaning(id), NEW store, NEW v
    PROVE  Untouched(sc, {n}, store, Put(store, << n, id >>, v))
<1>1. PICK f : f = Frame(sc, n)
  OBVIOUS
<1>2. f \in 1 .. Depth(sc) /\ Has(sc, f, n) /\ Key(sc, f, n) = << n, id >>
  BY <1>1, InnerFrame, EntryKinds DEF IsScopes, Key
<1>3. ASSUME NEW i \in 1 .. Depth(sc), NEW m \in Names, Has(sc, i, m), m # n \/ i # f
      PROVE  Key(sc, i, m) # << n, id >>
  <2>1. CASE m # n
    BY <2>1 DEF Key
  <2>2. CASE m = n /\ i # f
    BY <1>2, <1>3, <2>2 DEF Apart
  <2> QED
    BY <1>3, <2>1, <2>2
<1>4. \A k : k # << n, id >> => Val(Put(store, << n, id >>, v), k) = Val(store, k)
  BY ValPut
<1> QED
  BY <1>1, <1>3, <1>4 DEF Untouched

\* What is known after a body that may or may not have run.
Aimed(env, n) == IF Frame(env, n) = 0 THEN Depth(env) ELSE Frame(env, n)

LEMMA InvalidParts ==
    ASSUME NEW env, NEW names, IsEnv(env), Depth(env) > 0
    PROVE  /\ IsEnv(Invalidate(env, names)) /\ Depth(Invalidate(env, names)) = Depth(env)
           /\ \A i \in 1 .. Depth(env), n \in Names :
                 Held(Invalidate(env, names), i, n) =
                    IF n \in names /\ i = Aimed(env, n) THEN Unknown ELSE Held(env, i, n)
<1>1. PICK a : a = Invalidate(env, names)
  OBVIOUS
<1>2. PICK d \in Nat : d = Depth(env) /\ DOMAIN env = 1 .. d
      /\ \A i \in 1 .. d, n \in Names : Held(env, i, n) \in Entries
  BY StackParts DEF IsEnv
<1>3. a = [i \in 1 .. d |-> [n \in Names |->
              IF n \in names /\ i = Aimed(env, n) THEN Unknown ELSE Held(env, i, n)]]
  BY <1>1, <1>2 DEF Invalidate, Held, Depth, Aimed
<1>4. Unknown \in Entries
  BY EntryKinds
<1>5. \A i \in 1 .. d : a[i] \in [Names -> Entries]
  BY <1>2, <1>3, <1>4
<1>6. a \in Seq([Names -> Entries]) /\ Len(a) = d
  BY <1>2, <1>3, <1>5
<1>7. \A i \in 1 .. d, n \in Names : a[i][n] =
         IF n \in names /\ i = Aimed(env, n) THEN Unknown ELSE Held(env, i, n)
  BY <1>3
<1>8. IsEnv(a) /\ Depth(a) = d
  BY <1>6 DEF IsEnv, Stack, Depth
<1>9. \A i \in 1 .. d, n \in Names : Held(a, i, n) =
         IF n \in names /\ i = Aimed(env, n) THEN Unknown ELSE Held(env, i, n)
  BY <1>7 DEF Held
<1> QED
  BY <1>1, <1>2, <1>8, <1>9

LEMMA AfterBodyOf ==
    ASSUME NEW part, NEW env, IsEnv(env), Depth(env) > 0, NEW sc, IsScopes(sc), NEW before, KnowsOf(part, env, sc, before),
           NEW names, NEW after, Untouched(sc, names, before, after)
    PROVE  KnowsOf(part, AfterBody(env, names), sc, after)
<1>1. PICK a : a = Invalidate(env, names)
  OBVIOUS
<1>2. PICK d \in Nat : d = Depth(env) /\ d = Depth(sc) /\ d > 0
  BY StackParts DEF KnowsOf, IsEnv
<1>3. /\ IsEnv(a) /\ Depth(a) = d
      /\ \A i \in 1 .. d, n \in Names : Held(a, i, n) =
            IF n \in names /\ i = Aimed(env, n) THEN Unknown ELSE Held(env, i, n)
  <2>1. IsEnv(env) /\ Depth(env) > 0
    BY <1>2
  <2>2. IsEnv(a) /\ Depth(a) = Depth(env)
    BY <1>1, <2>1, InvalidParts
  <2>3. \A i \in 1 .. Depth(env), n \in Names :
           Held(a, i, n) = IF n \in names /\ i = Aimed(env, n) THEN Unknown ELSE Held(env, i, n)
    BY <1>1, <2>1, InvalidParts
  <2> QED
    BY <1>2, <2>2, <2>3
<1>4. ASSUME NEW i \in 1 .. d, NEW n \in Names, Has(sc, i, n)
      PROVE  /\ Has(a, i, n)
             /\ IsKnown(Held(a, i, n)) => Aspect(part, Held(a, i, n)) = Val(after, Key(sc, i, n))
  <2>1. /\ Has(env, i, n)
        /\ IsKnown(Held(env, i, n)) => Aspect(part, Held(env, i, n)) = Val(before, Key(sc, i, n))
    BY <1>2, <1>4 DEF KnowsOf
  <2>2. Frame(sc, n) # 0
    BY <1>2, <1>4, InnerFrame DEF IsScopes
  <2>3. Frame(env, n) = Frame(sc, n) /\ Frame(env, n) # 0
    BY <2>2, FrameOf
  <2>4. CASE n \in names /\ i = Frame(sc, n)
    <3>1. Held(a, i, n) = Unknown
      BY <1>3, <2>3, <2>4 DEF Aimed
    <3> QED
      BY <3>1, EntryKinds DEF Has
  <2>5. CASE n \notin names \/ i # Frame(sc, n)
    <3>1. Held(a, i, n) = Held(env, i, n)
      BY <1>3, <2>3, <2>5 DEF Aimed
    <3>2. Val(after, Key(sc, i, n)) = Val(before, Key(sc, i, n))
      BY <1>2, <1>4, <2>5 DEF Untouched
    <3> QED
      BY <2>1, <3>1, <3>2 DEF Has
  <2> QED
    BY <2>4, <2>5
<1>5. ASSUME NEW i \in 1 .. d, NEW n \in Names, Has(a, i, n), ~Has(sc, i, n)
      PROVE  Held(a, i, n) = Unknown /\ \A j \in 1 .. d : j < i => ~Has(sc, j, n)
  <2>1. CASE Held(a, i, n) = Held(env, i, n)
    BY <1>2, <1>5, <2>1 DEF KnowsOf, Has
  <2>2. CASE Held(a, i, n) # Held(env, i, n)
    <3>1. n \in names /\ Held(a, i, n) = Unknown /\ i = (IF Frame(env, n) = 0 THEN d ELSE Frame(env, n))
      BY <1>2, <1>3, <2>2 DEF Aimed
    <3>2. CASE Frame(env, n) = 0
      <4>1. \A j \in 1 .. d : ~Has(env, j, n)
        BY <1>2, <3>2, InnerFrame DEF IsEnv
      <4>2. \A j \in 1 .. d : ~Has(sc, j, n)
        BY <1>2, <4>1 DEF KnowsOf
      <4> QED
        BY <3>1, <4>2
    <3>3. CASE Frame(env, n) # 0
      <4>1. Has(env, i, n)
        BY <1>2, <3>1, <3>3, InnerFrame DEF IsEnv
      <4> QED
        BY <1>2, <1>5, <3>1, <4>1 DEF KnowsOf
    <3> QED
      BY <3>2, <3>3
  <2> QED
    BY <2>1, <2>2
<1>6. KnowsOf(part, a, sc, after)
  BY <1>2, <1>3, <1>4, <1>5 DEF KnowsOf
<1> QED
  BY <1>1, <1>6 DEF AfterBody

LEMMA KnowsAfterBody ==
    ASSUME NEW env, IsEnv(env), Depth(env) > 0, NEW sc, IsScopes(sc), NEW before, Knows(env, sc, before),
           NEW names, NEW after, Untouched(sc, names, before, after)
    PROVE  Knows(AfterBody(env, names), sc, after)
  BY AfterBodyOf, ValueAspect DEF Knows

-----------------------------------------------------------------------------
(***************************************************************************)
(* Expressions.                                                            *)
(***************************************************************************)
NodeConst(e, env) == EvalConstOf(EvalConst(e.l, env), EvalConst(e.r, env), e, env)
NodeExpr(e, env)  == OptExprOf(EvalConst(e, env), OptExpr(e.l, env), OptExpr(e.r, env), e)

LEMMA ConstForm ==
    ASSUME NEW env
    PROVE  /\ \A kind, v : NodeConst(Lit(kind, v), env) = Const(kind, v)
           /\ \A n, id : NodeConst(Var(n, id), env) = Lookup(env, n)
           /\ \A l, r : NodeConst(Add(l, r), env) =
                 LET a == EvalConst(l, env)
                     b == EvalConst(r, env)
                 IN IF a.kind = "int" /\ b.kind = "int" THEN Const("int", a.v + b.v) ELSE Unknown
           /\ \A op, l, r : NodeConst(Compare(op, l, r), env) =
                 LET a == EvalConst(l, env)
                     b == EvalConst(r, env)
                 IN IF Same(a, b) THEN Const("bool", IF Compared(op, a, b) THEN 1 ELSE 0) ELSE Unknown
<1>1. \A kind, v : NodeConst(Lit(kind, v), env) = Const(kind, v)
  BY KindsApart DEF NodeConst, EvalConstOf
<1>2. \A n, id : NodeConst(Var(n, id), env) = Lookup(env, n)
  BY KindsApart DEF NodeConst, EvalConstOf
<1>3. ASSUME NEW l, NEW r
      PROVE  NodeConst(Add(l, r), env) =
                LET a == EvalConst(l, env)
                    b == EvalConst(r, env)
                IN IF a.kind = "int" /\ b.kind = "int" THEN Const("int", a.v + b.v) ELSE Unknown
  <2>1. PICK e : e = Add(l, r)
    OBVIOUS
  <2>2. e.k = "add" /\ e.l = l /\ e.r = r
    BY <2>1, KindsApart
  <2> QED
    BY <2>1, <2>2 DEF NodeConst, EvalConstOf
<1>4. ASSUME NEW op, NEW l, NEW r
      PROVE  NodeConst(Compare(op, l, r), env) =
                LET a == EvalConst(l, env)
                    b == EvalConst(r, env)
                IN IF Same(a, b) THEN Const("bool", IF Compared(op, a, b) THEN 1 ELSE 0) ELSE Unknown
  <2>1. PICK e : e = Compare(op, l, r)
    OBVIOUS
  <2>2. e.k = "cmp" /\ e.op = op /\ e.l = l /\ e.r = r
    BY <2>1, KindsApart
  <2> QED
    BY <2>1, <2>2 DEF NodeConst, EvalConstOf
<1> QED
  BY <1>1, <1>2, <1>3, <1>4

LEMMA ExprForm ==
    ASSUME NEW env
    PROVE  /\ \A e : IsKnown(EvalConst(e, env)) =>
                 NodeExpr(e, env) = Lit(EvalConst(e, env).kind, EvalConst(e, env).v)
           /\ \A n, id, e : e = Var(n, id) /\ ~IsKnown(EvalConst(e, env)) => NodeExpr(e, env) = e
           /\ \A l, r, e : e = Add(l, r) /\ ~IsKnown(EvalConst(e, env)) =>
                 NodeExpr(e, env) = Add(OptExpr(l, env), OptExpr(r, env))
           /\ \A op, l, r, e : e = Compare(op, l, r) /\ ~IsKnown(EvalConst(e, env)) =>
                 NodeExpr(e, env) = Compare(op, OptExpr(l, env), OptExpr(r, env))
<1>1. ASSUME NEW e, IsKnown(EvalConst(e, env))
      PROVE  NodeExpr(e, env) = Lit(EvalConst(e, env).kind, EvalConst(e, env).v)
  BY <1>1 DEF NodeExpr, OptExprOf, Literal
<1>2. ASSUME NEW n, NEW id, NEW e, e = Var(n, id), ~IsKnown(EvalConst(e, env)) PROVE NodeExpr(e, env) = e
  <2>1. e.k = "var"
    BY <1>2, KindsApart
  <2> QED
    BY <1>2, <2>1 DEF NodeExpr, OptExprOf
<1>3. ASSUME NEW l, NEW r, NEW e, e = Add(l, r), ~IsKnown(EvalConst(e, env))
      PROVE  NodeExpr(e, env) = Add(OptExpr(l, env), OptExpr(r, env))
  <2>1. e.k = "add" /\ e.l = l /\ e.r = r
    BY <1>3, KindsApart
  <2> QED
    BY <1>3, <2>1 DEF NodeExpr, OptExprOf
<1>4. ASSUME NEW op, NEW l, NEW r, NEW e, e = Compare(op, l, r), ~IsKnown(EvalConst(e, env))
      PROVE  NodeExpr(e, env) = Compare(op, OptExpr(l, env), OptExpr(r, env))
  <2>1. e.k = "cmp" /\ e.op = op /\ e.l = l /\ e.r = r
    BY <1>4, KindsApart
  <2> QED
    BY <1>4, <2>1 DEF NodeExpr, OptExprOf
<1> QED
  BY <1>1, <1>2, <1>3, <1>4

\* T is the set of all expressions.  Rank falls from a node to its parts; Inside
\* are all the nodes in an expression.
Built(T, Rank, e) ==
    \/ \E kind \in Kinds, v \in Nat : e = Lit(kind, v)
    \/ \E n \in Names, id \in Nat : e = Var(n, id)
    \/ \E l, r \in T :
          /\ Rank[l] < Rank[e] /\ Rank[r] < Rank[e]
          /\ e = Add(l, r) \/ \E op \in {"==", "!="} : e = Compare(op, l, r)

AllExpressions(T, Rank, Inside) ==
    /\ Rank \in [T -> Nat] /\ Inside \in [T -> SUBSET T]
    /\ \A kind \in Kinds, v \in Nat : Lit(kind, v) \in T
    /\ \A l, r \in T : Add(l, r) \in T /\ \A op \in {"==", "!="} : Compare(op, l, r) \in T
    /\ \A e \in T :
          /\ Built(T, Rank, e)
          /\ Inside[e] = {e} \cup IF e.k \in {"add", "cmp"} THEN Inside[e.l] \cup Inside[e.r] ELSE {}

\* What becomes of an expression, and what it means, follow from its parts.
Folded(e) == \A env : IsEnv(env) => EvalConst(e, env) = NodeConst(e, env) /\ OptExpr(e, env) = NodeExpr(e, env)
Evaluated(e) == \A store : Meant(e, store)

\* Every identifier has the scope id of the declaration it means.
Resolved(sc, n, id) == n \in Names /\ Frame(sc, n) # 0 /\ Lookup(sc, n) = Meaning(id)
InScope(Inside, e, sc) == \A d \in Inside[e] : d.k = "var" => Resolved(sc, d.name, d.scope)

\* No sum that is folded is too large for an int.
Fitting(Inside, e, env) ==
    \A d \in Inside[e] : EvalConst(d, env).kind = "int" => EvalConst(d, env).v < IntMod

\* In expression e of T.
FoldsWell(T, e) ==
    \A env : IsEnv(env) =>
        /\ EvalConst(e, env) \in Consts
        /\ OptExpr(e, env) \in T
        /\ EvalConst(OptExpr(e, env), env) = EvalConst(e, env)
FoldsRight(Inside, e) ==
    \A env, sc, store :
        IsEnv(env) /\ IsScopes(sc) /\ Knows(env, sc, store) /\ InScope(Inside, e, sc) /\ Fitting(Inside, e, env) =>
            /\ IsKnown(EvalConst(e, env)) => EvalConst(e, env).v = Eval(e, store)
            /\ Eval(OptExpr(e, env), store) = Eval(e, store)

LEMMA LookupOf ==
    ASSUME NEW part, NEW env, IsEnv(env), NEW n \in Names
    PROVE  /\ Lookup(env, n) \in Consts
           /\ \A sc, store, id : IsScopes(sc) /\ KnowsOf(part, env, sc, store) /\ Resolved(sc, n, id) =>
                 (IsKnown(Lookup(env, n)) => Aspect(part, Lookup(env, n)) = Val(store, << n, id >>))
<1>1. PICK f : f = Frame(env, n)
  OBVIOUS
<1>2. f = 0 => Lookup(env, n) = Unknown
  BY <1>1, InnerFrame DEF IsEnv
<1>3. f # 0 => f \in 1 .. Depth(env) /\ Has(env, f, n) /\ Lookup(env, n) = Held(env, f, n)
  BY <1>1, InnerFrame DEF IsEnv
<1>4. f # 0 => Held(env, f, n) \in Entries
  BY <1>3, StackParts DEF IsEnv
<1>5. Lookup(env, n) \in Consts
  BY <1>2, <1>3, <1>4, EntryKinds DEF Has, Entries
<1>6. ASSUME NEW sc, NEW store, NEW id, IsScopes(sc), KnowsOf(part, env, sc, store), Resolved(sc, n, id),
             IsKnown(Lookup(env, n))
      PROVE  Aspect(part, Lookup(env, n)) = Val(store, << n, id >>)
  <2>1. Frame(sc, n) = f /\ f # 0
    BY <1>1, <1>6, FrameOf DEF Resolved
  <2>2. f \in 1 .. Depth(sc) /\ Has(sc, f, n) /\ Held(sc, f, n) = Meaning(id)
    BY <1>6, <2>1, InnerFrame DEF IsScopes, Resolved
  <2>3. Key(sc, f, n) = << n, id >>
    BY <2>2, EntryKinds DEF Key
  <2> QED
    BY <1>3, <1>6, <2>1, <2>2, <2>3 DEF KnowsOf
<1> QED
  BY <1>5, <1>6

LEMMA LookupKnows ==
    ASSUME NEW env, IsEnv(env), NEW n \in Names
    PROVE  /\ Lookup(env, n) \in Consts
           /\ \A sc, store, id : IsScopes(sc) /\ Knows(env, sc, store) /\ Resolved(sc, n, id) =>
                 (IsKnown(Lookup(env, n)) => Lookup(env, n).v = Val(store, << n, id >>))
  BY LookupOf, ValueAspect DEF Knows

LEMMA KnownFolds ==
    ASSUME NEW T, NEW Rank, NEW Inside, AllExpressions(T, Rank, Inside),
           \A e \in T : Folded(e) /\ Evaluated(e),
           NEW e \in T, NEW env, IsEnv(env), NEW c \in Consts, c = EvalConst(e, env), IsKnown(c)
    PROVE  /\ OptExpr(e, env) \in T
           /\ EvalConst(OptExpr(e, env), env) = c
           /\ \A store : Eval(OptExpr(e, env), store) = c.v
<1>1. PICK d : d = Lit(c.kind, c.v)
  OBVIOUS
<1>2. c.kind \in Kinds /\ c.v \in Nat /\ c = Const(c.kind, c.v)
  BY EntryKinds
<1>3. d \in T
  BY <1>1, <1>2 DEF AllExpressions
<1>4. OptExpr(e, env) = d
  <2>1. NodeExpr(e, env) = d
    BY <1>1, ExprForm
  <2> QED
    BY <2>1 DEF Folded
<1>5. EvalConst(d, env) = c
  <2>1. NodeConst(d, env) = c
    BY <1>1, <1>2, ConstForm
  <2> QED
    BY <1>3, <2>1 DEF Folded
<1>6. ASSUME NEW store PROVE Eval(d, store) = c.v
  <2>1. NodeValue(d, store) = c.v
    BY <1>1, EvalForm
  <2> QED
    BY <1>3, <2>1 DEF Evaluated, Meant
<1> QED
  BY <1>3, <1>4, <1>5, <1>6

LEMMA WellNode ==
    ASSUME NEW T, NEW Rank, NEW Inside, AllExpressions(T, Rank, Inside),
           \A e \in T : Folded(e) /\ Evaluated(e),
           NEW e \in T, \A d \in T : Rank[d] < Rank[e] => FoldsWell(T, d)
    PROVE  FoldsWell(T, e)
<1> SUFFICES ASSUME NEW env, IsEnv(env)
             PROVE  /\ EvalConst(e, env) \in Consts
                    /\ OptExpr(e, env) \in T
                    /\ EvalConst(OptExpr(e, env), env) = EvalConst(e, env)
  BY DEF FoldsWell
<1>1. PICK c : c = EvalConst(e, env)
  OBVIOUS
<1>2. PICK x : x = OptExpr(e, env)
  OBVIOUS
<1>3. c = NodeConst(e, env) /\ x = NodeExpr(e, env)
  BY <1>1, <1>2 DEF Folded
<1>4. ASSUME c \in Consts, IsKnown(c) PROVE x \in T /\ EvalConst(x, env) = c
  BY <1>1, <1>2, <1>4, KnownFolds
<1>5. CASE \E kind \in Kinds, v \in Nat : e = Lit(kind, v)
  <2>1. PICK kind \in Kinds, v \in Nat : e = Lit(kind, v)
    BY <1>5
  <2>2. c = Const(kind, v)
    BY <1>3, <2>1, ConstForm
  <2>3. c \in Consts /\ IsKnown(c)
    BY <2>2, EntryKinds
  <2> QED
    BY <1>1, <1>2, <1>4, <2>3
<1>6. CASE \E n \in Names, id \in Nat : e = Var(n, id)
  <2>1. PICK n \in Names, id \in Nat : e = Var(n, id)
    BY <1>6
  <2>2. c = Lookup(env, n)
    BY <1>3, <2>1, ConstForm
  <2>3. c \in Consts
    BY <2>2, LookupKnows
  <2>4. CASE ~IsKnown(c)
    <3>1. x = e
      BY <1>1, <1>3, <2>1, <2>4, ExprForm
    <3> QED
      BY <1>1, <1>2, <2>3, <3>1
  <2> QED
    BY <1>1, <1>2, <1>4, <2>3, <2>4
<1>7. ASSUME NEW l \in T, NEW r \in T, Rank[l] < Rank[e], Rank[r] < Rank[e],
             e = Add(l, r) \/ \E op \in {"==", "!="} : e = Compare(op, l, r)
      PROVE  c \in Consts /\ x \in T /\ EvalConst(x, env) = c
  <2>1. PICK a : a = EvalConst(l, env)
    OBVIOUS
  <2>2. PICK b : b = EvalConst(r, env)
    OBVIOUS
  <2>3. PICK y : y = OptExpr(l, env)
    OBVIOUS
  <2>4. PICK z : z = OptExpr(r, env)
    OBVIOUS
  <2>5. a \in Consts /\ b \in Consts /\ y \in T /\ z \in T /\ EvalConst(y, env) = a /\ EvalConst(z, env) = b
    BY <1>7, <2>1, <2>2, <2>3, <2>4 DEF FoldsWell
  <2>6. a.v + b.v \in Nat
    BY <2>5, EntryKinds
  <2>7. CASE e = Add(l, r)
    <3>1. c = IF a.kind = "int" /\ b.kind = "int" THEN Const("int", a.v + b.v) ELSE Unknown
      BY <1>3, <2>1, <2>2, <2>7, ConstForm
    <3>2. c \in Consts
      <4>1. "int" \in Kinds
        BY DEF Kinds
      <4> QED
        BY <2>6, <3>1, <4>1, EntryKinds
    <3>3. CASE ~IsKnown(c)
      <4>1. x = Add(y, z)
        BY <1>1, <1>3, <2>3, <2>4, <2>7, <3>3, ExprForm
      <4>2. x \in T
        BY <2>5, <4>1 DEF AllExpressions
      <4>3. NodeConst(x, env) = IF a.kind = "int" /\ b.kind = "int" THEN Const("int", a.v + b.v) ELSE Unknown
        BY <2>5, <4>1, ConstForm
      <4>4. EvalConst(x, env) = c
        BY <3>1, <4>2, <4>3 DEF Folded
      <4> QED
        BY <3>2, <4>2, <4>4
    <3> QED
      BY <1>4, <3>2, <3>3
  <2>8. ASSUME NEW op \in {"==", "!="}, e = Compare(op, l, r) PROVE c \in Consts /\ x \in T /\ EvalConst(x, env) = c
    <3>1. c = IF Same(a, b) THEN Const("bool", IF Compared(op, a, b) THEN 1 ELSE 0) ELSE Unknown
      BY <1>3, <2>1, <2>2, <2>8, ConstForm
    <3>2. c \in Consts
      <4>1. "bool" \in Kinds
        BY DEF Kinds
      <4> QED
        BY <3>1, <4>1, EntryKinds
    <3>3. CASE ~IsKnown(c)
      <4>1. x = Compare(op, y, z)
        <5>1. ~IsKnown(EvalConst(e, env)) /\ e = Compare(op, l, r)
          BY <1>1, <3>3, <2>8
        <5>2. NodeExpr(e, env) = Compare(op, OptExpr(l, env), OptExpr(r, env))
          BY ONLY <5>1, ExprForm
        <5> QED
          BY <1>3, <2>3, <2>4, <5>2
      <4>2. x \in T
        BY <2>5, <4>1 DEF AllExpressions
      <4>3. NodeConst(x, env) = IF Same(a, b) THEN Const("bool", IF Compared(op, a, b) THEN 1 ELSE 0) ELSE Unknown
        BY <2>5, <4>1, ConstForm
      <4>4. EvalConst(x, env) = c
        BY <3>1, <4>2, <4>3 DEF Folded
      <4> QED
        BY <3>2, <4>2, <4>4
    <3> QED
      BY <1>4, <3>2, <3>3
  <2> QED
    BY <1>7, <2>7, <2>8
<1>8. Built(T, Rank, e)
  BY DEF AllExpressions
<1> QED
  BY <1>1, <1>2, <1>5, <1>6, <1>7, <1>8 DEF Built

LEMMA AllFoldWell ==
    ASSUME NEW T, NEW Rank, NEW Inside, AllExpressions(T, Rank, Inside),
           \A e \in T : Folded(e) /\ Evaluated(e)
    PROVE  \A e \in T : FoldsWell(T, e)
<1>1. PICK W : W = {e \in T : FoldsWell(T, e)}
  OBVIOUS
<1>2. Rank \in [T -> Nat]
  BY DEF AllExpressions
<1>3. \A e \in T : (\A d \in T : Rank[d] < Rank[e] => d \in W) => e \in W
  BY <1>1, WellNode
<1>4. T \subseteq W
  BY <1>2, <1>3, EveryMember
<1> QED
  BY <1>1, <1>4

LEMMA SmallMod == \A m \in Nat, x \in Nat : x < m => x % m = x
  OBVIOUS

LEMMA RightNode ==
    ASSUME NEW T, NEW Rank, NEW Inside, AllExpressions(T, Rank, Inside), IntMod \in Nat \ {0},
           \A e \in T : Folded(e) /\ Evaluated(e),
           NEW e \in T, \A d \in T : Rank[d] < Rank[e] => FoldsRight(Inside, d)
    PROVE  FoldsRight(Inside, e)
<1> SUFFICES ASSUME NEW env, NEW sc, NEW store, IsEnv(env), IsScopes(sc), Knows(env, sc, store),
                    InScope(Inside, e, sc), Fitting(Inside, e, env)
             PROVE  /\ IsKnown(EvalConst(e, env)) => EvalConst(e, env).v = Eval(e, store)
                    /\ Eval(OptExpr(e, env), store) = Eval(e, store)
  BY DEF FoldsRight
<1>1. PICK c : c = EvalConst(e, env)
  OBVIOUS
<1>2. PICK x : x = OptExpr(e, env)
  OBVIOUS
<1>3. PICK w : w = Eval(e, store)
  OBVIOUS
<1>4. c = NodeConst(e, env) /\ x = NodeExpr(e, env)
  BY <1>1, <1>2 DEF Folded
<1>5. c \in Consts /\ x \in T
  BY <1>1, <1>2, AllFoldWell DEF FoldsWell
<1>6. ASSUME IsKnown(c) PROVE Eval(x, store) = c.v
  BY <1>1, <1>2, <1>5, <1>6, KnownFolds
<1>7. w = NodeValue(e, store) /\ e \in Inside[e]
  BY <1>3 DEF Evaluated, Meant, AllExpressions
<1> SUFFICES /\ IsKnown(c) => c.v = w
             /\ ~IsKnown(c) => Eval(x, store) = w
  BY <1>1, <1>2, <1>3, <1>6
<1>8. CASE \E kind \in Kinds, v \in Nat : e = Lit(kind, v)
  <2>1. PICK kind \in Kinds, v \in Nat : e = Lit(kind, v)
    BY <1>8
  <2>2. c = Const(kind, v) /\ w = v
    BY <1>4, <1>7, <2>1, ConstForm, EvalForm
  <2>3. c.v = v /\ IsKnown(c)
    BY <2>2, EntryKinds
  <2> QED
    BY <2>2, <2>3
<1>9. CASE \E n \in Names, id \in Nat : e = Var(n, id)
  <2>1. PICK n \in Names, id \in Nat : e = Var(n, id)
    BY <1>9
  <2>2. c = Lookup(env, n) /\ w = Val(store, << n, id >>)
    BY <1>4, <1>7, <2>1, ConstForm, EvalForm
  <2>3. e.k = "var" /\ e.name = n /\ e.scope = id
    BY <2>1, KindsApart
  <2>4. Resolved(sc, n, id)
    BY <1>7, <2>3 DEF InScope
  <2>5. IsKnown(c) => c.v = w
    BY <2>2, <2>4, LookupKnows
  <2>6. ~IsKnown(c) => x = e
    BY <1>1, <1>4, <2>1, ExprForm
  <2> QED
    BY <1>3, <2>5, <2>6
<1>10. ASSUME NEW l \in T, NEW r \in T, Rank[l] < Rank[e], Rank[r] < Rank[e],
              e = Add(l, r) \/ \E op \in {"==", "!="} : e = Compare(op, l, r)
       PROVE  /\ IsKnown(c) => c.v = w
              /\ ~IsKnown(c) => Eval(x, store) = w
  <2>1. PICK a : a = EvalConst(l, env)
    OBVIOUS
  <2>2. PICK b : b = EvalConst(r, env)
    OBVIOUS
  <2>3. PICK y : y = OptExpr(l, env)
    OBVIOUS
  <2>4. PICK z : z = OptExpr(r, env)
    OBVIOUS
  <2>5. PICK u : u = Eval(l, store)
    OBVIOUS
  <2>6. PICK v : v = Eval(r, store)
    OBVIOUS
  <2>7. a \in Consts /\ b \in Consts /\ y \in T /\ z \in T
    BY <1>10, <2>1, <2>2, <2>3, <2>4, AllFoldWell DEF FoldsWell
  <2>8. e.k \in {"add", "cmp"} /\ e.l = l /\ e.r = r
    BY <1>10, KindsApart
  <2>9. Inside[l] \subseteq Inside[e] /\ Inside[r] \subseteq Inside[e]
    BY <2>8 DEF AllExpressions
  <2>10. /\ InScope(Inside, l, sc) /\ Fitting(Inside, l, env)
         /\ InScope(Inside, r, sc) /\ Fitting(Inside, r, env)
    BY <2>9 DEF InScope, Fitting
  <2>11. /\ IsKnown(a) => a.v = u
         /\ Eval(y, store) = u
    BY <1>10, <2>1, <2>3, <2>5, <2>10 DEF FoldsRight
  <2>12. /\ IsKnown(b) => b.v = v
         /\ Eval(z, store) = v
    BY <1>10, <2>2, <2>4, <2>6, <2>10 DEF FoldsRight
  <2>13. CASE e = Add(l, r)
    <3>1. c = IF a.kind = "int" /\ b.kind = "int" THEN Const("int", a.v + b.v) ELSE Unknown
      BY <1>4, <2>1, <2>2, <2>13, ConstForm
    <3>2. w = (u + v) % IntMod
      BY <1>7, <2>5, <2>6, <2>13, EvalForm
    <3>3. CASE a.kind = "int" /\ b.kind = "int"
      <4>1. c.kind = "int" /\ c.v = a.v + b.v
        BY <3>1, <3>3, EntryKinds
      <4>2. IsKnown(a) /\ IsKnown(b) /\ IsKnown(c)
        BY <3>3, <4>1 DEF IsKnown
      <4>3. c.v \in Nat /\ c.v < IntMod
        <5>1. c.v < IntMod
          BY <1>1, <1>7, <4>1 DEF Fitting
        <5> QED
          BY <1>5, <5>1, EntryKinds
      <4>4. w = c.v % IntMod
        BY <2>11, <2>12, <3>2, <4>1, <4>2
      <4> QED
        BY <4>2, <4>3, <4>4, SmallMod
    <3>4. CASE ~(a.kind = "int" /\ b.kind = "int")
      <4>1. ~IsKnown(c)
        BY <3>1, <3>4, EntryKinds
      <4>2. x = Add(y, z)
        BY <1>1, <1>4, <2>3, <2>4, <2>13, <4>1, ExprForm
      <4>3. NodeValue(x, store) = (u + v) % IntMod
        BY <2>11, <2>12, <4>2, EvalForm
      <4>4. Eval(x, store) = w
        BY <1>5, <3>2, <4>3 DEF Evaluated, Meant
      <4> QED
        BY <4>1, <4>4
    <3> QED
      BY <3>3, <3>4
  <2>14. ASSUME NEW op \in {"==", "!="}, e = Compare(op, l, r)
         PROVE  /\ IsKnown(c) => c.v = w
                /\ ~IsKnown(c) => Eval(x, store) = w
    <3>1. c = IF Same(a, b) THEN Const("bool", IF Compared(op, a, b) THEN 1 ELSE 0) ELSE Unknown
      BY <1>4, <2>1, <2>2, <2>14, ConstForm
    <3>2. w = IF op = "==" THEN SameBit(u, v) ELSE 1 - SameBit(u, v)
      BY <1>7, <2>5, <2>6, <2>14, EvalForm
    <3>3. CASE Same(a, b)
      <4>1. c = Const("bool", IF Compared(op, a, b) THEN 1 ELSE 0)
        BY <3>1, <3>3
      <4>2. c.v = IF Compared(op, a, b) THEN 1 ELSE 0
        BY <4>1, EntryKinds
      <4>3. a.v = u /\ b.v = v
        BY <2>11, <2>12, <3>3 DEF Same, IsKnown
      <4>4. c.v = w
        <5>1. CASE op = "=="
          BY <3>2, <4>2, <4>3, <5>1 DEF Compared, SameBit, Bit
        <5>2. CASE op = "!="
          BY <3>2, <4>2, <4>3, <5>2 DEF Compared, SameBit, Bit
        <5> QED
          BY <5>1, <5>2
      <4>5. IsKnown(c)
        BY <4>1, EntryKinds DEF Kinds
      <4> QED
        BY <4>4, <4>5
    <3>4. CASE ~Same(a, b)
      <4>1. ~IsKnown(c)
        BY <3>1, <3>4, EntryKinds
      <4>2. x = Compare(op, y, z)
        <5>1. ~IsKnown(EvalConst(e, env)) /\ e = Compare(op, l, r)
          BY <1>1, <4>1, <2>14
        <5>2. NodeExpr(e, env) = Compare(op, OptExpr(l, env), OptExpr(r, env))
          BY ONLY <5>1, ExprForm
        <5> QED
          BY <1>4, <2>3, <2>4, <5>2
      <4>3. NodeValue(x, store) = IF op = "==" THEN SameBit(u, v) ELSE 1 - SameBit(u, v)
        BY <2>11, <2>12, <4>2, EvalForm
      <4>4. Eval(x, store) = w
        BY <1>5, <3>2, <4>3 DEF Evaluated, Meant
      <4> QED
        BY <4>1, <4>4
    <3> QED
      BY <3>3, <3>4
  <2> QED
    BY <1>10, <2>13, <2>14
<1>11. Built(T, Rank, e)
  BY DEF AllExpressions
<1> QED
  BY <1>8, <1>9, <1>10, <1>11 DEF Built

\* Constant folding and propagation (evalConstExpr, optimizeExpr,
\* optimizeBoolExpr) are right: an expression is worth what its optimized form is
\* worth, wherever what the optimizer knows of the variables is true of them and
\* no sum that it folds is too large for an int.
THEOREM FoldingKeepsValue ==
    ASSUME NEW T, NEW Rank, NEW Inside, AllExpressions(T, Rank, Inside), IntMod \in Nat \ {0},
           \A e \in T : Folded(e) /\ Evaluated(e)
    PROVE  \A e \in T : FoldsRight(Inside, e)
<1>1. PICK W : W = {e \in T : FoldsRight(Inside, e)}
  OBVIOUS
<1>2. Rank \in [T -> Nat]
  BY DEF AllExpressions
<1>3. \A e \in T : (\A d \in T : Rank[d] < Rank[e] => d \in W) => e \in W
  BY <1>1, RightNode
<1>4. T \subseteq W
  BY <1>2, <1>3, EveryMember
<1> QED
  BY <1>1, <1>4

-----------------------------------------------------------------------------
(***************************************************************************)
(* Statements, and what becomes of them.                                   *)
(***************************************************************************)
StmtsIn(r) == r.stmts
EnvIn(r)   == r.env

OptBlock(q, env)     == LeaveScope(OptStmts(q, Enter(env)))
NodeAssigned(q)      == AssignedOf(Assigned, q)
NodeOptStmt(st, env) == OptStmtOf(OptExpr, EvalConst, OptBlock, Assigned, Unrolled, st, env)
NodeOptStmts(q, env) ==
    LET first == OptStmt(Head(q), env)
    IN SequenceOf(first, OptStmts(Tail(q), first.env), q, env)
NodeUnrolled(w, env, turns) ==
    LET first == AsBlock(OptBlock(w.body, env))
    IN TurnsOf(first, Unrolled(w, first.env, turns - 1), turns, env)

Becomes(r, stmts, env) == StmtsIn(r) = stmts /\ EnvIn(r) = env

LEMMA ResultParts ==
    /\ \A q, env : Becomes(Result(q, env), q, env)
    /\ \A r, s : Becomes(Follow(r, s), StmtsIn(r) \o StmtsIn(s), EnvIn(s))
    /\ \A r : Becomes(AsBlock(r), << Block(StmtsIn(r)) >>, EnvIn(r))
    /\ \A r : Becomes(LeaveScope(r), StmtsIn(r), Leave(EnvIn(r)))
  BY DEF Becomes, Result, Follow, AsBlock, LeaveScope, StmtsIn, EnvIn

LEMMA SimpleWalk ==
    ASSUME NEW env
    PROVE  /\ \A n, id, st : st = Decl(n, id) =>
                 Becomes(NodeOptStmt(st, env), << st >>, DeclareVar(env, n))
           /\ \A n, id, e, st : st = Assign(n, id, e) =>
                 Becomes(NodeOptStmt(st, env), << Assign(n, id, OptExpr(e, env)) >>,
                         AssignVar(env, n, EvalConst(OptExpr(e, env), env)))
           /\ \A e, st : st = PrintOf(e) =>
                 Becomes(NodeOptStmt(st, env), << PrintOf(OptExpr(e, env)) >>, env)
<1>1. ASSUME NEW n, NEW id, NEW st, st = Decl(n, id)
      PROVE  Becomes(NodeOptStmt(st, env), << st >>, DeclareVar(env, n))
  <2>1. st.k = "decl" /\ st.name = n
    BY <1>1 DEF Decl
  <2>2. NodeOptStmt(st, env) = Result(<< st >>, DeclareVar(env, n))
    BY <2>1 DEF NodeOptStmt, OptStmtOf
  <2> QED
    BY <2>2, ResultParts
<1>2. ASSUME NEW n, NEW id, NEW e, NEW st, st = Assign(n, id, e)
      PROVE  Becomes(NodeOptStmt(st, env), << Assign(n, id, OptExpr(e, env)) >>,
                     AssignVar(env, n, EvalConst(OptExpr(e, env), env)))
  <2>1. st.k = "assign" /\ st.name = n /\ st.scope = id /\ st.e = e
    BY <1>2, StatementKinds
  <2>2. NodeOptStmt(st, env) = Result(<< Assign(n, id, OptExpr(e, env)) >>,
                                      AssignVar(env, n, EvalConst(OptExpr(e, env), env)))
    BY <2>1 DEF NodeOptStmt, OptStmtOf
  <2> QED
    BY <2>2, ResultParts
<1>3. ASSUME NEW e, NEW st, st = PrintOf(e)
      PROVE  Becomes(NodeOptStmt(st, env), << PrintOf(OptExpr(e, env)) >>, env)
  <2>1. st.k = "print" /\ st.e = e
    BY <1>3, StatementKinds
  <2>2. NodeOptStmt(st, env) = Result(<< PrintOf(OptExpr(e, env)) >>, env)
    BY <2>1 DEF NodeOptStmt, OptStmtOf
  <2> QED
    BY <2>2, ResultParts
<1> QED
  BY <1>1, <1>2, <1>3

LEMMA BlockWalk ==
    ASSUME NEW env, NEW b, NEW r, r = OptStmts(b, Enter(env))
    PROVE  /\ \A st : st = Block(b) =>
                 Becomes(NodeOptStmt(st, env), << Block(StmtsIn(r)) >>, Leave(EnvIn(r)))
           /\ \A c, x, st : st = If(c, b) /\ x = OptExpr(c, env) =>
                 /\ IsFalse(x) => Becomes(NodeOptStmt(st, env), << >>, env)
                 /\ ~IsFalse(x) /\ IsTrue(x) =>
                       Becomes(NodeOptStmt(st, env), << Block(StmtsIn(r)) >>, Leave(EnvIn(r)))
                 /\ ~IsFalse(x) /\ ~IsTrue(x) =>
                       Becomes(NodeOptStmt(st, env), << If(x, StmtsIn(r)) >>, AfterBody(env, Assigned(b)))
<1>1. PICK o : o = OptBlock(b, env)
  OBVIOUS
<1>2. Becomes(o, StmtsIn(r), Leave(EnvIn(r)))
  BY <1>1, ResultParts DEF OptBlock
<1>3. Becomes(AsBlock(o), << Block(StmtsIn(r)) >>, Leave(EnvIn(r)))
  BY <1>2, ResultParts DEF Becomes
<1>4. ASSUME NEW st, st = Block(b)
      PROVE  Becomes(NodeOptStmt(st, env), << Block(StmtsIn(r)) >>, Leave(EnvIn(r)))
  <2>1. st.k = "block" /\ st.body = b
    BY <1>4, StatementKinds
  <2>2. NodeOptStmt(st, env) = AsBlock(o)
    BY <1>1, <2>1 DEF NodeOptStmt, OptStmtOf
  <2> QED
    BY <1>3, <2>2
<1>5. ASSUME NEW c, NEW x, NEW st, st = If(c, b), x = OptExpr(c, env)
      PROVE  /\ IsFalse(x) => Becomes(NodeOptStmt(st, env), << >>, env)
             /\ ~IsFalse(x) /\ IsTrue(x) =>
                   Becomes(NodeOptStmt(st, env), << Block(StmtsIn(r)) >>, Leave(EnvIn(r)))
             /\ ~IsFalse(x) /\ ~IsTrue(x) =>
                   Becomes(NodeOptStmt(st, env), << If(x, StmtsIn(r)) >>, AfterBody(env, Assigned(b)))
  <2>1. st.k = "if" /\ st.body = b /\ st.cond = c
    BY <1>5, StatementKinds
  <2>2. NodeOptStmt(st, env) = IfOf(x, o, env, Assigned(b))
    BY <1>1, <1>5, <2>1 DEF NodeOptStmt, OptStmtOf
  <2>3. IsFalse(x) => NodeOptStmt(st, env) = Result(<< >>, env)
    BY <2>2 DEF IfOf
  <2>4. ~IsFalse(x) /\ IsTrue(x) => NodeOptStmt(st, env) = AsBlock(o)
    BY <2>2 DEF IfOf
  <2>5. ~IsFalse(x) /\ ~IsTrue(x) =>
           NodeOptStmt(st, env) = Result(<< If(x, StmtsIn(r)) >>, AfterBody(env, Assigned(b)))
    <3>1. o.stmts = StmtsIn(r)
      BY <1>2 DEF Becomes, StmtsIn
    <3> QED
      BY <2>2, <3>1 DEF IfOf
  <2> QED
    BY <1>3, <2>3, <2>4, <2>5, ResultParts
<1> QED
  BY <1>4, <1>5

\* The turns of the loop w, if it is unrolled.
TurnsLeft(w, env) == CHOOSE t \in Turns(w, env) : TRUE

LEMMA WhileWalk ==
    ASSUME NEW env, NEW c, NEW b, NEW w, w = While(c, b),
           NEW stable, stable = AfterBody(env, Assigned(b)), NEW x, x = OptExpr(c, stable),
           NEW r, r = OptStmts(b, Enter(stable))
    PROVE  /\ IsFalse(x) => Becomes(NodeOptStmt(w, env), << >>, env)
           /\ ~IsFalse(x) /\ Turns(w, env) # {} =>
                 NodeOptStmt(w, env) = Unrolled(w, env, TurnsLeft(w, env))
           /\ ~IsFalse(x) /\ Turns(w, env) = {} =>
                 Becomes(NodeOptStmt(w, env), << While(x, StmtsIn(r)) >>, stable)
<1>1. PICK o : o = OptBlock(b, stable)
  OBVIOUS
<1>2. o.stmts = StmtsIn(r)
  BY <1>1, ResultParts DEF OptBlock, Becomes, StmtsIn
<1>3. w.k = "while" /\ w.cond = c /\ w.body = b
  BY StatementKinds
<1>4. NodeOptStmt(w, env) = WhileOf(x, Turns(w, env), Unrolled(w, env, TurnsLeft(w, env)), o, env, stable)
  BY <1>1, <1>3 DEF NodeOptStmt, OptStmtOf, TurnsLeft
<1>5. IsFalse(x) => NodeOptStmt(w, env) = Result(<< >>, env)
  BY <1>4 DEF WhileOf
<1>6. ~IsFalse(x) /\ Turns(w, env) # {} => NodeOptStmt(w, env) = Unrolled(w, env, TurnsLeft(w, env))
  BY <1>4 DEF WhileOf
<1>7. ~IsFalse(x) /\ Turns(w, env) = {} => NodeOptStmt(w, env) = Result(<< While(x, StmtsIn(r)) >>, stable)
  BY <1>2, <1>4 DEF WhileOf
<1> QED
  BY <1>5, <1>6, <1>7, ResultParts

LEMMA TurnsWalk ==
    ASSUME NEW env, NEW c, NEW b, NEW w, w = While(c, b), NEW r, r = OptStmts(b, Enter(env))
    PROVE  /\ Becomes(NodeUnrolled(w, env, 0), << >>, env)
           /\ \A j \in Nat : \A u : u = Unrolled(w, Leave(EnvIn(r)), j) =>
                 Becomes(NodeUnrolled(w, env, j + 1), << Block(StmtsIn(r)) >> \o StmtsIn(u), EnvIn(u))
<1>1. w.body = b
  BY StatementKinds
<1>2. PICK f : f = AsBlock(OptBlock(b, env))
  OBVIOUS
<1>3. Becomes(f, << Block(StmtsIn(r)) >>, Leave(EnvIn(r)))
  BY <1>2, ResultParts DEF OptBlock, Becomes
<1>4. NodeUnrolled(w, env, 0) = Result(<< >>, env)
  BY DEF NodeUnrolled, TurnsOf
<1>5. ASSUME NEW j \in Nat, NEW u, u = Unrolled(w, Leave(EnvIn(r)), j)
      PROVE  Becomes(NodeUnrolled(w, env, j + 1), << Block(StmtsIn(r)) >> \o StmtsIn(u), EnvIn(u))
  <2>1. PICK i : i = j + 1 /\ i # 0 /\ i - 1 = j
    OBVIOUS
  <2>2. f.env = Leave(EnvIn(r))
    BY <1>3 DEF Becomes, EnvIn
  <2>3. NodeUnrolled(w, env, i) = Follow(f, u)
    BY <1>1, <1>2, <1>5, <2>1, <2>2 DEF NodeUnrolled, TurnsOf
  <2>4. Becomes(Follow(f, u), StmtsIn(f) \o StmtsIn(u), EnvIn(u))
    BY ResultParts
  <2>5. StmtsIn(f) = << Block(StmtsIn(r)) >>
    BY <1>3 DEF Becomes
  <2>6. NodeUnrolled(w, env, j + 1) = Follow(f, u)
    BY <2>1, <2>3
  <2> QED
    BY <2>4, <2>5, <2>6
<1> QED
  BY <1>4, <1>5, ResultParts

LEMMA SequenceWalk ==
    ASSUME NEW env
    PROVE  /\ Becomes(NodeOptStmts(<< >>, env), << >>, env)
           /\ \A q, a, d : q # << >> /\ a = OptStmt(Head(q), env) /\ d = OptStmts(Tail(q), EnvIn(a)) =>
                 Becomes(NodeOptStmts(q, env), StmtsIn(a) \o StmtsIn(d), EnvIn(d))
<1>1. NodeOptStmts(<< >>, env) = Result(<< >>, env)
  BY DEF NodeOptStmts, SequenceOf
<1>2. ASSUME NEW q, NEW a, NEW d, q # << >>, a = OptStmt(Head(q), env), d = OptStmts(Tail(q), EnvIn(a))
      PROVE  NodeOptStmts(q, env) = Follow(a, d)
  BY <1>2 DEF NodeOptStmts, SequenceOf, EnvIn
<1> QED
  BY <1>1, <1>2, ResultParts

-----------------------------------------------------------------------------
(***************************************************************************)
(* Runs, whatever the variables hold.                                      *)
(***************************************************************************)
Going(s) ==
    /\ s = [store |-> StoreIn(s), out |-> OutIn(s), fuel |-> FuelIn(s)]
    /\ FuelIn(s) \in Nat

Stopped(s) == [s EXCEPT !.fuel = 0]

\* u has done what s has, with no less fuel left.
Better(s, u) ==
    Going(u) /\ StoreIn(u) = StoreIn(s) /\ OutIn(u) = OutIn(s) /\ FuelIn(u) >= FuelIn(s)

LEMMA GoingParts ==
    ASSUME NEW s, Going(s)
    PROVE  /\ \A key, v, t : t = Store(s, key, v) =>
                 StoreIn(t) = Put(StoreIn(s), key, v) /\ OutIn(t) = OutIn(s) /\ FuelIn(t) = FuelIn(s) /\ Going(t)
           /\ \A v, t : t = Output(s, v) =>
                 StoreIn(t) = StoreIn(s) /\ OutIn(t) = Append(OutIn(s), v) /\ FuelIn(t) = FuelIn(s) /\ Going(t)
           /\ FuelIn(s) # 0 => \A t : t = Burn(s) =>
                 StoreIn(t) = StoreIn(s) /\ OutIn(t) = OutIn(s) /\ FuelIn(t) = FuelIn(s) - 1 /\ Going(t)
           /\ FuelIn(Stopped(s)) = 0 /\ Going(Stopped(s))
<1>1. PICK a, b, c : a = StoreIn(s) /\ b = OutIn(s) /\ c = FuelIn(s)
  OBVIOUS
<1>2. s = [store |-> a, out |-> b, fuel |-> c] /\ c \in Nat
  BY <1>1 DEF Going
<1>3. \A i, j, n : /\ StoreIn([store |-> i, out |-> j, fuel |-> n]) = i
                   /\ OutIn([store |-> i, out |-> j, fuel |-> n]) = j
                   /\ FuelIn([store |-> i, out |-> j, fuel |-> n]) = n
  BY DEF StoreIn, OutIn, FuelIn
<1>4. \A i, j : \A n \in Nat : Going([store |-> i, out |-> j, fuel |-> n])
  BY <1>3 DEF Going
<1>5. ASSUME NEW key, NEW v, NEW t, t = Store(s, key, v)
      PROVE  StoreIn(t) = Put(a, key, v) /\ OutIn(t) = b /\ FuelIn(t) = c /\ Going(t)
  <2>1. PICK g : g = Put(a, key, v)
    OBVIOUS
  <2>2. t = [store |-> g, out |-> b, fuel |-> c]
    BY <1>2, <1>5, <2>1 DEF Store, Put
  <2> QED
    BY <1>2, <1>3, <1>4, <2>1, <2>2
<1>6. ASSUME NEW v, NEW t, t = Output(s, v)
      PROVE  StoreIn(t) = a /\ OutIn(t) = Append(b, v) /\ FuelIn(t) = c /\ Going(t)
  <2>1. PICK o : o = Append(b, v)
    OBVIOUS
  <2>2. s.out = b
    BY <1>2
  <2>3. t = [s EXCEPT !.out = o]
    BY <1>6, <2>1, <2>2 DEF Output
  <2>4. t = [store |-> a, out |-> o, fuel |-> c]
    BY <1>2, <2>3
  <2> QED
    BY <1>2, <1>3, <1>4, <2>1, <2>4
<1>7. ASSUME c # 0, NEW t, t = Burn(s)
      PROVE  StoreIn(t) = a /\ OutIn(t) = b /\ FuelIn(t) = c - 1 /\ Going(t)
  <2>1. PICK d \in Nat : d = c - 1
    BY <1>2, <1>7
  <2>2. t = [store |-> a, out |-> b, fuel |-> d]
    BY <1>2, <1>7, <2>1 DEF Burn
  <2> QED
    BY <1>3, <1>4, <2>1, <2>2
<1>8. FuelIn(Stopped(s)) = 0 /\ Going(Stopped(s))
  <2>1. Stopped(s) = [store |-> a, out |-> b, fuel |-> 0]
    BY <1>2 DEF Stopped
  <2> QED
    BY <1>3, <1>4, <2>1
<1> QED
  BY <1>1, <1>5, <1>6, <1>7, <1>8

\* S are the statements over the expressions T.  Rank falls from a sequence of
\* them to its parts.
StatementOver(T, S, st) ==
    \/ \E n \in Names, id \in Nat : st = Decl(n, id)
    \/ \E n \in Names, id \in Nat, e \in T : st = Assign(n, id, e)
    \/ \E e \in T : st = PrintOf(e)
    \/ \E b \in Seq(S) : st = Block(b)
    \/ \E c \in T, b \in Seq(S) : st = If(c, b) \/ st = While(c, b)

AllStatements(T, S, Rank) ==
    /\ \A st : st \in S <=> StatementOver(T, S, st)
    /\ Rank \in [Seq(S) -> Nat]
    /\ \A q \in Seq(S) : q # << >> =>
          /\ Rank[Tail(q)] < Rank[q]
          /\ HasBody(Head(q)) => Rank[Head(q).body] < Rank[q]

\* What becomes of a sequence of statements follows from what becomes of its parts.
WalkedBlock(q) ==
    /\ Assigned(q) = NodeAssigned(q)
    /\ \A env : IsEnv(env) =>
          /\ OptStmts(q, env) = NodeOptStmts(q, env)
          /\ q # << >> =>
                /\ OptStmt(Head(q), env) = NodeOptStmt(Head(q), env)
                /\ \A turns \in Nat : Unrolled(Head(q), env, turns) = NodeUnrolled(Head(q), env, turns)

\* The language: all expressions and statements, with the equations that define
\* what they mean and what the optimizer makes of them.
Language(T, S, RankT, RankS, Inside) ==
    /\ AllExpressions(T, RankT, Inside) /\ AllStatements(T, S, RankS)
    /\ \A e \in T : Folded(e) /\ Evaluated(e)
    /\ \A q \in Seq(S) : MeantBlock(q) /\ WalkedBlock(q)
    /\ IntMod \in Nat \ {0} /\ DeclResets \in BOOLEAN

BodyOf(st, b) == st = Block(b) \/ \E c : st = If(c, b) \/ st = While(c, b)

LEMMA ListParts ==
    ASSUME NEW T, NEW S, NEW Rank, AllStatements(T, S, Rank)
    PROVE  /\ << >> \in Seq(S)
           /\ \A st \in S : << st >> \in Seq(S) /\ << st >> # << >>
                            /\ Head(<< st >>) = st /\ Tail(<< st >>) = << >>
           /\ \A p, q \in Seq(S) : p \o q \in Seq(S)
           /\ \A q \in Seq(S) : q # << >> =>
                 /\ Head(q) \in S /\ Tail(q) \in Seq(S) /\ Rank[Tail(q)] < Rank[q]
                 /\ \A b : BodyOf(Head(q), b) => Rank[b] < Rank[q]
<1>1. ASSUME NEW q \in Seq(S), q # << >>
      PROVE  /\ Head(q) \in S /\ Tail(q) \in Seq(S) /\ Rank[Tail(q)] < Rank[q]
             /\ \A b : BodyOf(Head(q), b) => Rank[b] < Rank[q]
  <2>1. Head(q) \in S /\ Tail(q) \in Seq(S) /\ Rank[Tail(q)] < Rank[q]
    BY <1>1 DEF AllStatements
  <2>2. PICK st : st = Head(q)
    OBVIOUS
  <2>3. HasBody(st) => Rank[st.body] < Rank[q]
    BY <1>1, <2>2 DEF AllStatements
  <2>4. \A b : BodyOf(st, b) => HasBody(st) /\ st.body = b
    BY StatementKinds DEF BodyOf, HasBody
  <2> QED
    BY <2>1, <2>2, <2>3, <2>4
<1>2. ASSUME NEW st \in S
      PROVE  << st >> \in Seq(S) /\ << st >> # << >> /\ Head(<< st >>) = st /\ Tail(<< st >>) = << >>
  OBVIOUS
<1>3. << >> \in Seq(S) /\ \A p, q \in Seq(S) : p \o q \in Seq(S)
  OBVIOUS
<1> QED
  BY <1>1, <1>2, <1>3

\* Running a sequence is running its first statement, then the rest.
LEMMA HeadRuns ==
    ASSUME NEW T, NEW S, NEW RankT, NEW RankS, NEW Inside, Language(T, S, RankT, RankS, Inside)
    PROVE  /\ \A s : ExecBlock(<< >>, s) = s
           /\ \A q \in Seq(S) : q # << >> =>
                 \A s : ExecBlock(q, s) = ExecBlock(Tail(q), NodeExec(Head(q), s))
           /\ \A st \in S : \A s : ExecBlock(<< st >>, s) = NodeExec(st, s)
           /\ \A st \in S : \A s : \A k \in Nat : Loop(st, s, k) = NodeLoop(st, s, k)
<1>1. /\ AllStatements(T, S, RankS)
      /\ \A q \in Seq(S) : MeantBlock(q)
  BY DEF Language
<1>2. ASSUME NEW s PROVE ExecBlock(<< >>, s) = s
  <2>1. MeantBlock(<< >>)
    BY <1>1, ListParts
  <2> QED
    BY <2>1, RunForm DEF MeantBlock
<1>3. ASSUME NEW q \in Seq(S), q # << >>, NEW s
      PROVE  ExecBlock(q, s) = ExecBlock(Tail(q), NodeExec(Head(q), s))
  <2>1. NodeRun(q, s) = ExecBlock(Tail(q), ExecStmt(Head(q), s))
    BY <1>3, RunForm
  <2>2. ExecStmt(Head(q), s) = NodeExec(Head(q), s) /\ ExecBlock(q, s) = NodeRun(q, s)
    BY <1>1, <1>3 DEF MeantBlock
  <2> QED
    BY <2>1, <2>2
<1>4. ASSUME NEW st \in S
      PROVE  /\ \A s : ExecBlock(<< st >>, s) = NodeExec(st, s)
             /\ \A s : \A k \in Nat : Loop(st, s, k) = NodeLoop(st, s, k)
  <2>1. PICK q : q = << st >>
    OBVIOUS
  <2>2. q \in Seq(S) /\ q # << >> /\ Head(q) = st /\ Tail(q) = << >>
    BY <1>1, <2>1, ListParts
  <2>3. \A s : ExecBlock(q, s) = NodeExec(st, s)
    BY <1>2, <1>3, <2>2
  <2>4. \A s : \A k \in Nat : Loop(st, s, k) = NodeLoop(st, s, k)
    BY <1>1, <2>2 DEF MeantBlock
  <2> QED
    BY <2>1, <2>3, <2>4
<1> QED
  BY <1>2, <1>3, <1>4

LEMMA ConcatParts ==
    ASSUME NEW S, NEW p \in Seq(S), NEW q \in Seq(S)
    PROVE  /\ << >> \o q = q /\ q \o << >> = q
           /\ p # << >> => p \o q # << >> /\ Head(p \o q) = Head(p) /\ Tail(p \o q) = Tail(p) \o q
<1>1. << >> \o q = q /\ q \o << >> = q
  OBVIOUS
<1>2. ASSUME p # << >>
      PROVE  p \o q # << >> /\ Head(p \o q) = Head(p) /\ Tail(p \o q) = Tail(p) \o q
  BY <1>2
<1> QED
  BY <1>1, <1>2

LEMMA ConcatRuns ==
    ASSUME NEW T, NEW S, NEW RankT, NEW RankS, NEW Inside, Language(T, S, RankT, RankS, Inside)
    PROVE  \A p, q \in Seq(S) : \A s : ExecBlock(p \o q, s) = ExecBlock(q, ExecBlock(p, s))
<1>1. AllStatements(T, S, RankS) /\ RankS \in [Seq(S) -> Nat]
  BY DEF Language, AllStatements
<1> SUFFICES ASSUME NEW q \in Seq(S)
             PROVE  \A p \in Seq(S) : \A s : ExecBlock(p \o q, s) = ExecBlock(q, ExecBlock(p, s))
  OBVIOUS
<1>2. PICK W : W = {p \in Seq(S) : \A s : ExecBlock(p \o q, s) = ExecBlock(q, ExecBlock(p, s))}
  OBVIOUS
<1>3. ASSUME NEW p \in Seq(S), \A b \in Seq(S) : RankS[b] < RankS[p] => b \in W
      PROVE  p \in W
  <2>1. CASE p = << >>
    <3>1. << >> \o q = q /\ \A s : ExecBlock(<< >>, s) = s
      BY ConcatParts, HeadRuns
    <3> QED
      BY <1>2, <2>1, <3>1
  <2>2. CASE p # << >>
    <3>1. PICK r : r = p \o q
      OBVIOUS
    <3>2. PICK rest : rest = Tail(p)
      OBVIOUS
    <3>3. r # << >> /\ r \in Seq(S) /\ Head(r) = Head(p) /\ Tail(r) = rest \o q
      BY <1>1, <2>2, <3>1, <3>2, ConcatParts, ListParts
    <3>4. rest \in Seq(S) /\ RankS[rest] < RankS[p]
      BY <1>1, <2>2, <3>2, ListParts
    <3>5. \A s : ExecBlock(rest \o q, s) = ExecBlock(q, ExecBlock(rest, s))
      BY <1>2, <1>3, <3>4
    <3> SUFFICES ASSUME NEW s PROVE ExecBlock(r, s) = ExecBlock(q, ExecBlock(p, s))
      BY <1>2, <3>1
    <3>6. PICK t : t = NodeExec(Head(p), s)
      OBVIOUS
    <3>7. ExecBlock(p, s) = ExecBlock(rest, t)
      BY <2>2, <3>2, <3>6, HeadRuns
    <3>8. ExecBlock(r, s) = ExecBlock(Tail(r), NodeExec(Head(r), s))
      BY <3>3, HeadRuns
    <3>9. ExecBlock(r, s) = ExecBlock(rest \o q, t)
      BY <3>3, <3>6, <3>8
    <3> QED
      BY <3>5, <3>7, <3>9
  <2> QED
    BY <2>1, <2>2
<1>4. Seq(S) \subseteq W
  <2>1. PICK Q : Q = Seq(S)
    OBVIOUS
  <2>2. RankS \in [Q -> Nat] /\ \A p \in Q : (\A b \in Q : RankS[b] < RankS[p] => b \in W) => p \in W
    BY <1>1, <1>3, <2>1
  <2>3. Q \subseteq W
    BY ONLY <2>2, EveryMember
  <2> QED
    BY <2>1, <2>3
<1> QED
  BY <1>2, <1>4

LEMMA ExecIs ==
    ASSUME NEW s, FuelIn(s) # 0, NEW st
    PROVE  /\ DeclResets = FALSE => \A n, id : st = Decl(n, id) => NodeExec(st, s) = s
           /\ DeclResets = TRUE => \A n, id : st = Decl(n, id) => NodeExec(st, s) = Store(s, << n, id >>, 0)
           /\ \A n, id, e : st = Assign(n, id, e) =>
                 NodeExec(st, s) = Store(s, << n, id >>, Eval(e, StoreIn(s)))
           /\ \A e : st = PrintOf(e) => NodeExec(st, s) = Output(s, Eval(e, StoreIn(s)))
           /\ \A b : st = Block(b) => NodeExec(st, s) = ExecBlock(b, s)
           /\ \A c, b : st = If(c, b) =>
                 NodeExec(st, s) = IF Eval(c, StoreIn(s)) = 1 THEN ExecBlock(b, s) ELSE s
<1>1. s.fuel # 0 /\ StoreIn(s) = s.store
  BY DEF FuelIn, StoreIn
<1>2. ASSUME DeclResets = FALSE, NEW n, NEW id, st = Decl(n, id) PROVE NodeExec(st, s) = s
  <2>1. st.k = "decl"
    BY <1>2, StatementKinds
  <2> QED
    BY <1>1, <1>2, <2>1 DEF NodeExec, ExecStmtOf
<1>7. ASSUME DeclResets = TRUE, NEW n, NEW id, st = Decl(n, id) PROVE NodeExec(st, s) = Store(s, << n, id >>, 0)
  <2>1. st.k = "decl" /\ st.name = n /\ st.scope = id
    BY <1>7 DEF Decl
  <2> QED
    BY <1>1, <1>7, <2>1 DEF NodeExec, ExecStmtOf
<1>3. ASSUME NEW n, NEW id, NEW e, st = Assign(n, id, e)
      PROVE  NodeExec(st, s) = Store(s, << n, id >>, Eval(e, StoreIn(s)))
  <2>1. st.k = "assign" /\ st.e = e /\ st.name = n /\ st.scope = id
    BY <1>3, StatementKinds
  <2> QED
    BY <1>1, <2>1 DEF NodeExec, ExecStmtOf
<1>4. ASSUME NEW e, st = PrintOf(e) PROVE NodeExec(st, s) = Output(s, Eval(e, StoreIn(s)))
  <2>1. st.k = "print" /\ st.e = e
    BY <1>4, StatementKinds
  <2> QED
    BY <1>1, <2>1 DEF NodeExec, ExecStmtOf
<1>5. ASSUME NEW b, st = Block(b) PROVE NodeExec(st, s) = ExecBlock(b, s)
  <2>1. st.k = "block" /\ st.body = b
    BY <1>5, StatementKinds
  <2> QED
    BY <1>1, <2>1 DEF NodeExec, ExecStmtOf
<1>6. ASSUME NEW c, NEW b, st = If(c, b)
      PROVE  NodeExec(st, s) = IF Eval(c, StoreIn(s)) = 1 THEN ExecBlock(b, s) ELSE s
  <2>1. st.k = "if" /\ st.cond = c /\ st.body = b
    BY <1>6, StatementKinds
  <2> QED
    BY <1>1, <2>1 DEF NodeExec, ExecStmtOf
<1> QED
  BY <1>2, <1>3, <1>4, <1>5, <1>6, <1>7

LEMMA WhileExec ==
    ASSUME NEW s, FuelIn(s) # 0, NEW c, NEW b, NEW st, st = While(c, b), NEW t, t = Loop(st, s, LoopDepth)
    PROVE  NodeExec(st, s) = IF Eval(c, StoreIn(t)) = 1 THEN Stopped(t) ELSE t
<1>1. s.fuel # 0 /\ st.k = "while" /\ st.cond = c
  BY StatementKinds DEF FuelIn
<1>2. NodeExec(st, s) = Settled(Eval(c, StoreIn(t)), t)
  BY <1>1 DEF NodeExec, ExecStmtOf, StoreIn
<1> QED
  BY <1>2 DEF Settled, Stopped

LEMMA LoopIs ==
    ASSUME NEW c, NEW b, NEW w, w = While(c, b),
           \A s : \A k \in Nat : Loop(w, s, k) = NodeLoop(w, s, k)
    PROVE  /\ \A s : \A k \in Nat : FuelIn(s) = 0 => Loop(w, s, k) = s
           /\ \A s : \A k \in Nat : Eval(c, StoreIn(s)) # 1 => Loop(w, s, k) = s
           /\ \A s : FuelIn(s) # 0 /\ Eval(c, StoreIn(s)) = 1 =>
                 /\ Loop(w, s, 0) = ExecBlock(b, Burn(s))
                 /\ \A k \in Nat : Loop(w, s, k + 1) = Loop(w, Loop(w, s, k), k)
<1>1. w.cond = c /\ w.body = b
  BY StatementKinds
<1>2. \A s : StoreIn(s) = s.store /\ FuelIn(s) = s.fuel
  BY DEF StoreIn, FuelIn
<1>3. ASSUME NEW s, NEW k \in Nat, FuelIn(s) = 0 \/ Eval(c, StoreIn(s)) # 1 PROVE Loop(w, s, k) = s
  <2>1. NodeLoop(w, s, k) = s
    BY ONLY <1>1, <1>2, <1>3 DEF NodeLoop, LoopOf
  <2> QED
    BY <2>1
<1>4. ASSUME NEW s, FuelIn(s) # 0, Eval(c, StoreIn(s)) = 1
      PROVE  Loop(w, s, 0) = ExecBlock(b, Burn(s))
  <2>1. NodeLoop(w, s, 0) = ExecBlock(b, Burn(s))
    BY ONLY <1>1, <1>2, <1>4 DEF NodeLoop, LoopOf
  <2>2. Loop(w, s, 0) = NodeLoop(w, s, 0)
    OBVIOUS
  <2> QED
    BY <2>1, <2>2
<1>5. ASSUME NEW s, FuelIn(s) # 0, Eval(c, StoreIn(s)) = 1, NEW k \in Nat
      PROVE  Loop(w, s, k + 1) = Loop(w, Loop(w, s, k), k)
  <2>1. PICK j \in Nat : j = k + 1 /\ j # 0 /\ j - 1 = k
    OBVIOUS
  <2>2. NodeLoop(w, s, j) = Loop(w, Loop(w, s, k), k)
    BY ONLY <1>1, <1>2, <1>5, <2>1 DEF NodeLoop, LoopOf
  <2>3. Loop(w, s, j) = NodeLoop(w, s, j)
    BY <2>1
  <2> QED
    BY <2>1, <2>2, <2>3
<1> QED
  BY <1>3, <1>4, <1>5

\* A run goes on as a run, and one without fuel stays where it is.
Lasts(q) == \A s : (Going(s) => Going(ExecBlock(q, s))) /\ (FuelIn(s) = 0 => ExecBlock(q, s) = s)

LEMMA LoopLasts ==
    ASSUME NEW c, NEW b, Lasts(b), NEW w, w = While(c, b),
           \A s : \A k \in Nat : Loop(w, s, k) = NodeLoop(w, s, k)
    PROVE  \A k \in Nat : \A s : Going(s) => Going(Loop(w, s, k))
<1>1. /\ \A s : \A k \in Nat : FuelIn(s) = 0 => Loop(w, s, k) = s
      /\ \A s : \A k \in Nat : Eval(c, StoreIn(s)) # 1 => Loop(w, s, k) = s
      /\ \A s : FuelIn(s) # 0 /\ Eval(c, StoreIn(s)) = 1 =>
            /\ Loop(w, s, 0) = ExecBlock(b, Burn(s))
            /\ \A k \in Nat : Loop(w, s, k + 1) = Loop(w, Loop(w, s, k), k)
  BY LoopIs
<1>2. PICK K : K = {k \in Nat : \A s : Going(s) => Going(Loop(w, s, k))}
  OBVIOUS
<1>3. ASSUME NEW s, Going(s) PROVE Going(Loop(w, s, 0))
  <2>1. CASE FuelIn(s) = 0 \/ Eval(c, StoreIn(s)) # 1
    BY <1>1, <1>3, <2>1
  <2>2. CASE FuelIn(s) # 0 /\ Eval(c, StoreIn(s)) = 1
    <3>1. Going(Burn(s))
      BY <1>3, <2>2, GoingParts
    <3> QED
      BY <1>1, <2>2, <3>1 DEF Lasts
  <2> QED
    BY <2>1, <2>2
<1>4. ASSUME NEW k \in K PROVE k + 1 \in K
  <2>1. k \in Nat /\ k + 1 \in Nat /\ \A s : Going(s) => Going(Loop(w, s, k))
    BY <1>2
  <2> SUFFICES ASSUME NEW s, Going(s) PROVE Going(Loop(w, s, k + 1))
    BY <1>2, <2>1
  <2>2. CASE FuelIn(s) = 0 \/ Eval(c, StoreIn(s)) # 1
    BY <1>1, <2>1, <2>2
  <2>3. CASE FuelIn(s) # 0 /\ Eval(c, StoreIn(s)) = 1
    BY <1>1, <2>1, <2>3
  <2> QED
    BY <2>2, <2>3
<1>5. Nat \subseteq K
  <2>1. \A k \in Nat : k \in K => k + 1 \in K
    BY <1>4
  <2>2. 0 \in K
    BY <1>2, <1>3
  <2> QED
    BY <2>1, <2>2, EveryNumber
<1> QED
  BY <1>2, <1>5

LEMMA AllLast ==
    ASSUME NEW T, NEW S, NEW RankT, NEW RankS, NEW Inside, Language(T, S, RankT, RankS, Inside)
    PROVE  \A q \in Seq(S) : Lasts(q)
<1>1. AllStatements(T, S, RankS) /\ RankS \in [Seq(S) -> Nat]
  BY DEF Language, AllStatements
<1>2. PICK W : W = {q \in Seq(S) : Lasts(q)}
  OBVIOUS
<1>3. ASSUME NEW q \in Seq(S), q # << >>, NEW st, st = Head(q),
             \A b \in Seq(S) : RankS[b] < RankS[q] => Lasts(b), NEW s, Going(s), FuelIn(s) # 0
      PROVE  Going(NodeExec(st, s))
  <2>1. st \in S /\ \A b : BodyOf(st, b) => RankS[b] < RankS[q]
    BY <1>1, <1>3, ListParts
  <2>2. StatementOver(T, S, st)
    BY <1>1, <2>1 DEF AllStatements
  <2>8. FuelIn(s) # 0 /\ Going(s)
    BY <1>3
  <2>3. CASE \E n \in Names, id \in Nat : st = Decl(n, id)
    <3>1. PICK n, id : st = Decl(n, id)
      BY <2>3
    <3>2. CASE DeclResets = FALSE
      BY <2>8, <3>1, <3>2, ExecIs
    <3>3. CASE DeclResets = TRUE
      <4>1. NodeExec(st, s) = Store(s, << n, id >>, 0)
        BY <2>8, <3>1, <3>3, ExecIs
      <4> QED
        BY <2>8, <4>1, GoingParts
    <3> QED
      BY <3>2, <3>3 DEF Language
  <2>4. CASE \E n \in Names, id \in Nat, e \in T : st = Assign(n, id, e)
    <3>1. PICK n, id, e : st = Assign(n, id, e)
      BY <2>4
    <3>2. \A i, j, d : st = Assign(i, j, d) => NodeExec(st, s) = Store(s, << i, j >>, Eval(d, StoreIn(s)))
      BY ONLY <2>8, ExecIs
    <3>3. NodeExec(st, s) = Store(s, << n, id >>, Eval(e, StoreIn(s)))
      BY <3>1, <3>2
    <3> QED
      BY ONLY <2>8, <3>3, GoingParts
  <2>5. CASE \E e \in T : st = PrintOf(e)
    <3>1. PICK e : st = PrintOf(e)
      BY <2>5
    <3>2. NodeExec(st, s) = Output(s, Eval(e, StoreIn(s)))
      BY ONLY <2>8, <3>1, ExecIs
    <3> QED
      BY <1>3, <3>2, GoingParts
  <2>6. CASE \E b \in Seq(S) : st = Block(b)
    <3>1. PICK b \in Seq(S) : st = Block(b)
      BY <2>6
    <3>2. NodeExec(st, s) = ExecBlock(b, s)
      BY ONLY <2>8, <3>1, ExecIs
    <3>3. Lasts(b)
      BY <1>3, <2>1, <3>1 DEF BodyOf
    <3> QED
      BY <1>3, <3>2, <3>3 DEF Lasts
  <2>7. CASE \E c \in T, b \in Seq(S) : st = If(c, b) \/ st = While(c, b)
    <3>1. PICK c \in T, b \in Seq(S) : st = If(c, b) \/ st = While(c, b)
      BY <2>7
    <3>2. Lasts(b)
      BY <1>3, <2>1, <3>1 DEF BodyOf
    <3>3. CASE st = If(c, b)
      <4>1. NodeExec(st, s) = IF Eval(c, StoreIn(s)) = 1 THEN ExecBlock(b, s) ELSE s
        BY ONLY <2>8, <3>3, ExecIs
      <4> QED
        BY <1>3, <3>2, <4>1 DEF Lasts
    <3>4. CASE st = While(c, b)
      <4>1. PICK t : t = Loop(st, s, LoopDepth)
        OBVIOUS
      <4>2. \A r : \A k \in Nat : Loop(st, r, k) = NodeLoop(st, r, k)
        BY <2>1, HeadRuns
      <4>3. \A k \in Nat : \A r : Going(r) => Going(Loop(st, r, k))
        BY <3>2, <3>4, <4>2, LoopLasts
      <4>4. Going(t)
        BY <1>3, <4>1, <4>3, LoopDepthAssumption
      <4>5. NodeExec(st, s) = IF Eval(c, StoreIn(t)) = 1 THEN Stopped(t) ELSE t
        BY ONLY <2>8, <3>4, <4>1, WhileExec
      <4> QED
        BY <3>4, <4>1, <4>4, <4>5, GoingParts
    <3> QED
      BY <3>1, <3>3, <3>4
  <2> QED
    BY <2>2, <2>3, <2>4, <2>5, <2>6, <2>7 DEF StatementOver
<1>4. ASSUME NEW q \in Seq(S), \A b \in Seq(S) : RankS[b] < RankS[q] => b \in W PROVE q \in W
  <2>1. CASE q = << >>
    BY <1>2, <2>1, HeadRuns DEF Lasts
  <2>2. CASE q # << >>
    <3>1. PICK st, rest : st = Head(q) /\ rest = Tail(q)
      OBVIOUS
    <3>2. rest \in Seq(S) /\ RankS[rest] < RankS[q]
      BY <1>1, <2>2, <3>1, ListParts
    <3>3. Lasts(rest) /\ \A b \in Seq(S) : RankS[b] < RankS[q] => Lasts(b)
      BY <1>2, <1>4, <3>2
    <3>4. \A s : ExecBlock(q, s) = ExecBlock(rest, NodeExec(st, s))
      BY <2>2, <3>1, HeadRuns
    <3>5. \A s : FuelIn(s) = 0 => NodeExec(st, s) = s
      BY RunForm
    <3>6. \A s : Going(s) => Going(NodeExec(st, s))
      BY <1>3, <2>2, <3>1, <3>3, <3>5
    <3>7. Lasts(q)
      BY <3>3, <3>4, <3>5, <3>6 DEF Lasts
    <3> QED
      BY <1>2, <3>7
  <2> QED
    BY <2>1, <2>2
<1>5. Seq(S) \subseteq W
  BY <1>1, <1>4, EveryMember
<1> QED
  BY <1>2, <1>5

-----------------------------------------------------------------------------
(***************************************************************************)
(* Loops that are unrolled.                                                *)
(***************************************************************************)
LEMMA ByKind ==
    ASSUME NEW T, NEW Rank, NEW Inside, AllExpressions(T, Rank, Inside), NEW e \in T
    PROVE  /\ e.k = "lit" => e = Lit(e.kind, e.v) /\ e.kind \in Kinds /\ e.v \in Nat
           /\ e.k = "var" => e = Var(e.name, e.scope) /\ e.name \in Names /\ e.scope \in Nat
           /\ e.k = "add" => e = Add(e.l, e.r) /\ e.l \in T /\ e.r \in T
           /\ e.k = "cmp" => e = Compare(e.op, e.l, e.r) /\ e.l \in T /\ e.r \in T
<1>1. Built(T, Rank, e)
  BY DEF AllExpressions
<1>2. CASE \E kind \in Kinds, v \in Nat : e = Lit(kind, v)
  <2>1. PICK kind \in Kinds, v \in Nat : e = Lit(kind, v)
    BY <1>2
  <2>2. e.k = "lit" /\ e.kind = kind /\ e.v = v
    BY <2>1, KindsApart
  <2> QED
    BY <2>1, <2>2
<1>3. CASE \E n \in Names, id \in Nat : e = Var(n, id)
  <2>1. PICK n \in Names, id \in Nat : e = Var(n, id)
    BY <1>3
  <2>2. e.k = "var" /\ e.name = n /\ e.scope = id
    BY <2>1, KindsApart
  <2> QED
    BY <2>1, <2>2
<1>4. ASSUME NEW l \in T, NEW r \in T, e = Add(l, r)
      PROVE  e.k = "add" /\ e = Add(e.l, e.r) /\ e.l \in T /\ e.r \in T
  BY <1>4, KindsApart
<1>5. ASSUME NEW op, NEW l \in T, NEW r \in T, e = Compare(op, l, r)
      PROVE  e.k = "cmp" /\ e = Compare(e.op, e.l, e.r) /\ e.l \in T /\ e.r \in T
  BY <1>5, KindsApart
<1>6. CASE \E l, r \in T : /\ Rank[l] < Rank[e] /\ Rank[r] < Rank[e]
                           /\ e = Add(l, r) \/ \E op \in {"==", "!="} : e = Compare(op, l, r)
  <2>1. PICK l \in T, r \in T : e = Add(l, r) \/ \E op \in {"==", "!="} : e = Compare(op, l, r)
    BY <1>6
  <2>2. CASE e = Add(l, r)
    BY <1>4, <2>2
  <2>3. CASE \E op \in {"==", "!="} : e = Compare(op, l, r)
    BY <1>5, <2>3
  <2> QED
    BY <2>1, <2>2, <2>3
<1> QED
  BY <1>1, <1>2, <1>3, <1>6 DEF Built

\* n + step or step + n.
Steps(e, n, step) ==
    \E id : e = Add(Var(n, id), Lit("int", step)) \/ e = Add(Lit("int", step), Var(n, id))

LEMMA StepsBy ==
    ASSUME NEW T, NEW Rank, NEW Inside, AllExpressions(T, Rank, Inside), NEW e \in T, NEW n,
           Step(e, n) # 0
    PROVE  Step(e, n) \in Nat /\ Steps(e, n, Step(e, n))
<1>1. PICK step : step = Step(e, n)
  OBVIOUS
<1>2. e.k = "add" /\ step # 0
  BY <1>1 DEF Step
<1>3. PICK l \in T, r \in T : e = Add(l, r) /\ e.l = l /\ e.r = r
  BY <1>2, ByKind
<1>4. step = IF IsVar(l, n) THEN (IF IsInt(r) THEN r.v ELSE 0) ELSE IF IsVar(r, n) /\ IsInt(l) THEN l.v ELSE 0
  BY <1>1, <1>2, <1>3 DEF Step
<1>5. \A d \in T : IsVar(d, n) => d = Var(n, d.scope)
  BY ByKind DEF IsVar
<1>6. \A d \in T : IsInt(d) => d = Lit("int", d.v) /\ d.v \in Nat
  BY ByKind DEF IsInt
<1>7. CASE IsVar(l, n) /\ IsInt(r) /\ step = r.v
  BY <1>1, <1>3, <1>5, <1>6, <1>7 DEF Steps
<1>8. CASE IsVar(r, n) /\ IsInt(l) /\ step = l.v
  BY <1>1, <1>3, <1>5, <1>6, <1>8 DEF Steps
<1> QED
  BY <1>2, <1>4, <1>7, <1>8

LEMMA ExactDivision ==
    \A a \in Nat, d \in Nat \ {0} : a % d = 0 => a \div d \in Nat /\ (a \div d) * d = a
<1> SUFFICES ASSUME NEW a \in Nat, NEW d \in Nat \ {0}, a % d = 0
             PROVE  a \div d \in Nat /\ (a \div d) * d = a
  OBVIOUS
<1>1. a \div d \in Int /\ a = d * (a \div d) + (a % d)
  OBVIOUS
<1>2. PICK x \in Int : x = a \div d
  BY <1>1
<1>3. a = d * x
  BY <1>1, <1>2
<1>4. x >= 0
  <2>1. ASSUME x <= -1 PROVE FALSE
    <3>1. d * x <= -d
      BY <2>1
    <3> QED
      BY <1>3, <3>1
  <2> QED
    BY <2>1
<1>5. x * d = a
  BY <1>3
<1> QED
  BY <1>2, <1>4, <1>5

\* The loop while n != limit around the body b counts in steps.
Counter(c, b, n, id, limit, step) ==
    /\ n \in Names /\ limit \in Nat /\ step \in Nat \ {0}
    /\ c = Compare("!=", Var(n, id), Lit("int", limit))
    /\ b # << >> /\ Straight(b, n) /\ Steps(Last(b).e, n, step)

\* What is known of n is j turns from the limit.
TurnsAway(env, n, limit, step, j) ==
    \E cur \in Nat : Lookup(env, n) = Const("int", cur) /\ cur + j * step = limit

LEMMA LastAssigns ==
    ASSUME NEW T, NEW S, NEW Rank, AllStatements(T, S, Rank), NEW b \in Seq(S), b # << >>,
           NEW n, Straight(b, n)
    PROVE  Last(b).e \in T
<1>1. PICK i : i = Len(b)
  OBVIOUS
<1>2. i \in 1 .. Len(b) /\ DOMAIN b = 1 .. Len(b) /\ b[i] \in S
  BY <1>1
<1>3. b[i].k = "assign"
  BY <1>1, <1>2 DEF Straight
<1>4. PICK st : st = b[i] /\ st = Last(b)
  BY <1>1 DEF Last
<1>5. StatementOver(T, S, st) /\ st.k = "assign"
  BY <1>2, <1>3, <1>4 DEF AllStatements
<1>6. \E m \in Names, id \in Nat, e \in T : st = Assign(m, id, e)
  BY <1>5, StatementKinds DEF StatementOver
<1>7. st.e \in T
  BY <1>6, StatementKinds
<1> QED
  BY <1>4, <1>7

LEMMA TurnsParts ==
    ASSUME NEW T, NEW S, NEW RankT, NEW RankS, NEW Inside, Language(T, S, RankT, RankS, Inside),
           NEW c \in T, NEW b \in Seq(S), NEW w, w = While(c, b),
           NEW env, IsEnv(env), Turns(w, env) # {}
    PROVE  /\ TurnsLeft(w, env) \in Nat
           /\ \E n, id, limit, step :
                 Counter(c, b, n, id, limit, step) /\ TurnsAway(env, n, limit, step, TurnsLeft(w, env))
<1>1. w.cond = c /\ w.body = b
  BY StatementKinds
<1>2. AllExpressions(T, RankT, Inside) /\ AllStatements(T, S, RankS)
  BY DEF Language
<1>3. PICK n, cur, limit, step : /\ n = c.l.name /\ cur = Lookup(env, n)
                                 /\ limit = c.r.v /\ step = Step(Last(b).e, n)
  OBVIOUS
<1>4. /\ c.k = "cmp" /\ c.op = "!=" /\ c.l.k = "var" /\ IsInt(c.r)
      /\ cur.kind = "int" /\ b # << >> /\ Straight(b, n)
      /\ step > 0 /\ Counted(cur.v, limit, step)
      /\ Turns(w, env) = {(limit - cur.v) \div step}
  BY <1>1, <1>3 DEF Turns
<1>5. c = Compare("!=", c.l, c.r) /\ c.l \in T /\ c.r \in T
  BY <1>2, <1>4, ByKind
<1>6. c.l = Var(n, c.l.scope) /\ n \in Names
  BY <1>2, <1>3, <1>4, <1>5, ByKind
<1>7. c.r = Lit("int", limit) /\ limit \in Nat
  BY <1>2, <1>3, <1>4, <1>5, ByKind DEF IsInt
<1>8. step \in Nat \ {0} /\ Steps(Last(b).e, n, step)
  <2>1. Last(b).e \in T
    BY <1>2, <1>4, LastAssigns
  <2>2. step # 0
    BY <1>4
  <2>3. step \in Nat /\ Steps(Last(b).e, n, step)
    BY <1>2, <1>3, <2>1, <2>2, StepsBy
  <2> QED
    BY <2>2, <2>3
<1>9. cur \in Consts /\ cur = Const("int", cur.v) /\ cur.v \in Nat
  BY <1>3, <1>4, <1>6, LookupKnows, EntryKinds
<1>10. PICK v \in Nat : v = cur.v
  BY <1>9
<1>11. v <= limit /\ (limit - v) % step = 0
  BY <1>4, <1>10 DEF Counted
<1>12. PICK j : j = (limit - v) \div step
  OBVIOUS
<1>13. j \in Nat /\ v + j * step = limit
  <2>1. PICK a \in Nat : a = limit - v
    BY <1>7, <1>11
  <2>2. j \in Nat /\ j * step = a
    BY <1>8, <1>11, <1>12, <2>1, ExactDivision
  <2>3. PICK m \in Nat : m = j * step
    BY <2>2
  <2> QED
    BY <1>7, <2>1, <2>2, <2>3
<1>14. TurnsLeft(w, env) = j
  BY <1>4, <1>10, <1>12 DEF TurnsLeft
<1>15. Counter(c, b, n, c.l.scope, limit, step)
  BY <1>4, <1>5, <1>6, <1>7, <1>8 DEF Counter
<1>16. TurnsAway(env, n, limit, step, j)
  BY <1>3, <1>9, <1>10, <1>13 DEF TurnsAway
<1> QED
  BY <1>13, <1>14, <1>15, <1>16

-----------------------------------------------------------------------------
(***************************************************************************)
(* What the walk returns.                                                  *)
(***************************************************************************)
LEMMA EnvParts ==
    ASSUME NEW env, IsEnv(env), Depth(env) > 0
    PROVE  /\ \A n \in Names : IsEnv(DeclareVar(env, n)) /\ Depth(DeclareVar(env, n)) = Depth(env)
           /\ \A n \in Names, c \in Consts :
                 IsEnv(AssignVar(env, n, c)) /\ Depth(AssignVar(env, n, c)) = Depth(env)
           /\ \A names : IsEnv(AfterBody(env, names)) /\ Depth(AfterBody(env, names)) = Depth(env)
<1>1. Depth(env) \in Nat /\ Depth(env) \in 1 .. Depth(env)
  BY StackParts DEF IsEnv
<1>2. ASSUME NEW n \in Names PROVE IsEnv(DeclareVar(env, n)) /\ Depth(DeclareVar(env, n)) = Depth(env)
  <2>1. DeclareVar(env, n) = SetIn(env, Depth(env), n, Unknown)
    BY DEF DeclareVar, SetIn, Depth
  <2>2. Unknown \in Entries
    BY EntryKinds
  <2> QED
    BY <1>1, <2>1, <2>2, SetParts DEF IsEnv
<1>3. ASSUME NEW n \in Names, NEW c \in Consts
      PROVE  IsEnv(AssignVar(env, n, c)) /\ Depth(AssignVar(env, n, c)) = Depth(env)
  <2>1. PICK i : i = IF Frame(env, n) = 0 THEN Len(env) ELSE Frame(env, n)
    OBVIOUS
  <2>2. AssignVar(env, n, c) = SetIn(env, i, n, c)
    BY <2>1 DEF AssignVar, SetIn
  <2>3. i \in 1 .. Depth(env)
    BY <1>1, <2>1, InnerFrame DEF IsEnv, Depth
  <2>4. c \in Entries
    BY EntryKinds
  <2> QED
    BY <2>2, <2>3, <2>4, SetParts DEF IsEnv
<1>4. ASSUME NEW names
      PROVE  IsEnv(AfterBody(env, names)) /\ Depth(AfterBody(env, names)) = Depth(env)
  BY InvalidParts DEF AfterBody
<1> QED
  BY <1>2, <1>3, <1>4

LEMMA InsideParts ==
    ASSUME NEW env, IsEnv(env)
    PROVE  /\ IsEnv(Enter(env)) /\ Depth(Enter(env)) = Depth(env) + 1 /\ Depth(Enter(env)) > 0
           /\ \A inner : IsEnv(inner) /\ Depth(inner) = Depth(env) + 1 =>
                 IsEnv(Leave(inner)) /\ Depth(Leave(inner)) = Depth(env)
<1>1. Depth(env) \in Nat
  BY StackParts DEF IsEnv
<1>2. IsEnv(Enter(env)) /\ Depth(Enter(env)) = Depth(env) + 1
  BY EntryKinds, EnterParts DEF IsEnv
<1>3. ASSUME NEW inner, IsEnv(inner), Depth(inner) = Depth(env) + 1
      PROVE  IsEnv(Leave(inner)) /\ Depth(Leave(inner)) = Depth(env)
  <2>1. Depth(inner) > 0
    BY <1>1, <1>3
  <2>2. IsEnv(Leave(inner)) /\ Depth(Leave(inner)) = Depth(inner) - 1
    BY <1>3, <2>1, LeaveParts DEF IsEnv
  <2> QED
    BY <1>1, <1>3, <2>2
<1> QED
  BY <1>1, <1>2, <1>3

LEMMA WalkIs ==
    ASSUME NEW T, NEW S, NEW RankT, NEW RankS, NEW Inside, Language(T, S, RankT, RankS, Inside)
    PROVE  /\ \A q \in Seq(S) : Assigned(q) = NodeAssigned(q)
           /\ \A env : IsEnv(env) => Becomes(OptStmts(<< >>, env), << >>, env)
           /\ \A q \in Seq(S) : q # << >> =>
                 \A env, a, d : IsEnv(env) /\ a = NodeOptStmt(Head(q), env) /\ d = OptStmts(Tail(q), EnvIn(a)) =>
                     Becomes(OptStmts(q, env), StmtsIn(a) \o StmtsIn(d), EnvIn(d))
           /\ \A st \in S : \A env : IsEnv(env) =>
                 \A j \in Nat : Unrolled(st, env, j) = NodeUnrolled(st, env, j)
<1>1. /\ AllStatements(T, S, RankS)
      /\ \A q \in Seq(S) : WalkedBlock(q)
  BY DEF Language
<1>2. \A q \in Seq(S) : Assigned(q) = NodeAssigned(q)
  BY <1>1 DEF WalkedBlock
<1>3. ASSUME NEW env, IsEnv(env) PROVE Becomes(OptStmts(<< >>, env), << >>, env)
  <2>1. WalkedBlock(<< >>)
    BY <1>1, ListParts
  <2>2. OptStmts(<< >>, env) = NodeOptStmts(<< >>, env)
    BY <1>3, <2>1 DEF WalkedBlock
  <2> QED
    BY <2>2, SequenceWalk
<1>4. ASSUME NEW q \in Seq(S), q # << >>, NEW env, IsEnv(env), NEW a, a = NodeOptStmt(Head(q), env),
             NEW d, d = OptStmts(Tail(q), EnvIn(a))
      PROVE  Becomes(OptStmts(q, env), StmtsIn(a) \o StmtsIn(d), EnvIn(d))
  <2>1. OptStmts(q, env) = NodeOptStmts(q, env) /\ OptStmt(Head(q), env) = a
    BY <1>1, <1>4 DEF WalkedBlock
  <2>2. q # << >> /\ a = OptStmt(Head(q), env) /\ d = OptStmts(Tail(q), EnvIn(a))
    BY <1>4, <2>1
  <2>3. Becomes(NodeOptStmts(q, env), StmtsIn(a) \o StmtsIn(d), EnvIn(d))
    BY ONLY <2>2, SequenceWalk
  <2> QED
    BY <2>1, <2>3
<1>5. ASSUME NEW st \in S, NEW env, IsEnv(env), NEW j \in Nat
      PROVE  Unrolled(st, env, j) = NodeUnrolled(st, env, j)
  <2>1. PICK q : q = << st >>
    OBVIOUS
  <2>2. q \in Seq(S) /\ q # << >> /\ Head(q) = st
    BY <1>1, <2>1, ListParts
  <2> QED
    BY <1>1, <1>5, <2>2 DEF WalkedBlock
<1> QED
  BY <1>2, <1>3, <1>4, <1>5

Walks(S, env, r) == StmtsIn(r) \in Seq(S) /\ IsEnv(EnvIn(r)) /\ Depth(EnvIn(r)) = Depth(env)
WalksOn(S, q)    == \A env : IsEnv(env) /\ Depth(env) > 0 => Walks(S, env, OptStmts(q, env))

LEMMA BecomesWalk ==
    ASSUME NEW S, NEW env, NEW r, NEW q, NEW after, Becomes(r, q, after), q \in Seq(S),
           IsEnv(after), Depth(after) = Depth(env)
    PROVE  Walks(S, env, r)
  BY DEF Becomes, Walks

LEMMA BodyWalks ==
    ASSUME NEW S, NEW b, WalksOn(S, b), NEW env, IsEnv(env), NEW r, r = OptStmts(b, Enter(env))
    PROVE  StmtsIn(r) \in Seq(S) /\ IsEnv(Leave(EnvIn(r))) /\ Depth(Leave(EnvIn(r))) = Depth(env)
<1>1. IsEnv(Enter(env)) /\ Depth(Enter(env)) = Depth(env) + 1 /\ Depth(Enter(env)) > 0
  BY InsideParts
<1>2. Walks(S, Enter(env), r)
  BY <1>1 DEF WalksOn
<1>3. StmtsIn(r) \in Seq(S) /\ IsEnv(EnvIn(r)) /\ Depth(EnvIn(r)) = Depth(env) + 1
  BY <1>1, <1>2 DEF Walks
<1> QED
  BY <1>3, InsideParts

LEMMA UnrolledWalks ==
    ASSUME NEW T, NEW S, NEW RankT, NEW RankS, NEW Inside, Language(T, S, RankT, RankS, Inside),
           NEW c, NEW b \in Seq(S), WalksOn(S, b), NEW w \in S, w = While(c, b)
    PROVE  \A j \in Nat : \A env : IsEnv(env) => Walks(S, env, Unrolled(w, env, j))
<1>1. AllStatements(T, S, RankS)
  BY DEF Language
<1>2. PICK K : K = {j \in Nat : \A env : IsEnv(env) => Walks(S, env, Unrolled(w, env, j))}
  OBVIOUS
<1>3. 0 \in K
  <2> SUFFICES ASSUME NEW env, IsEnv(env) PROVE Walks(S, env, Unrolled(w, env, 0))
    BY <1>2
  <2>1. Becomes(NodeUnrolled(w, env, 0), << >>, env)
    BY TurnsWalk
  <2>2. Unrolled(w, env, 0) = NodeUnrolled(w, env, 0)
    BY WalkIs
  <2>3. << >> \in Seq(S)
    BY <1>1, ListParts
  <2> QED
    BY <2>1, <2>2, <2>3, BecomesWalk
<1>4. ASSUME NEW j \in Nat, j \in K PROVE j + 1 \in K
  <2>1. j + 1 \in Nat /\ \A env : IsEnv(env) => Walks(S, env, Unrolled(w, env, j))
    BY <1>2, <1>4
  <2> SUFFICES ASSUME NEW env, IsEnv(env) PROVE Walks(S, env, Unrolled(w, env, j + 1))
    BY <1>2, <2>1
  <2>2. PICK r : r = OptStmts(b, Enter(env))
    OBVIOUS
  <2>3. StmtsIn(r) \in Seq(S) /\ IsEnv(Leave(EnvIn(r))) /\ Depth(Leave(EnvIn(r))) = Depth(env)
    BY <2>2, BodyWalks
  <2>4. PICK u : u = Unrolled(w, Leave(EnvIn(r)), j)
    OBVIOUS
  <2>5. Walks(S, Leave(EnvIn(r)), u)
    BY <2>1, <2>3, <2>4
  <2>6. StmtsIn(u) \in Seq(S) /\ IsEnv(EnvIn(u)) /\ Depth(EnvIn(u)) = Depth(env)
    BY <2>3, <2>5 DEF Walks
  <2>7. Becomes(NodeUnrolled(w, env, j + 1), << Block(StmtsIn(r)) >> \o StmtsIn(u), EnvIn(u))
    BY <2>2, <2>4, TurnsWalk
  <2>8. Unrolled(w, env, j + 1) = NodeUnrolled(w, env, j + 1)
    BY <2>1, WalkIs
  <2>9. << Block(StmtsIn(r)) >> \o StmtsIn(u) \in Seq(S)
    <3>1. PICK k : k = Block(StmtsIn(r))
      OBVIOUS
    <3>2. k \in S
      BY <1>1, <2>3, <3>1 DEF AllStatements, StatementOver
    <3>3. << k >> \in Seq(S)
      BY <1>1, <3>2, ListParts
    <3> QED
      BY <1>1, <2>6, <3>1, <3>3, ListParts
  <2> QED
    BY <2>6, <2>7, <2>8, <2>9, BecomesWalk
<1>5. Nat \subseteq K
  BY <1>3, <1>4, EveryNumber
<1> QED
  BY <1>2, <1>5

LEMMA HeadWalks ==
    ASSUME NEW T, NEW S, NEW RankT, NEW RankS, NEW Inside, Language(T, S, RankT, RankS, Inside),
           NEW st \in S, \A b \in Seq(S) : BodyOf(st, b) => WalksOn(S, b),
           NEW env, IsEnv(env), Depth(env) > 0
    PROVE  Walks(S, env, NodeOptStmt(st, env))
<1>1. AllStatements(T, S, RankS) /\ AllExpressions(T, RankT, Inside)
  BY DEF Language
<1>2. \A e \in T : \A a : IsEnv(a) => OptExpr(e, a) \in T /\ EvalConst(e, a) \in Consts
  BY AllFoldWell DEF Language, FoldsWell
<1>3. StatementOver(T, S, st)
  BY <1>1 DEF AllStatements
<1>4. \A x : StatementOver(T, S, x) => x \in S /\ << x >> \in Seq(S)
  BY <1>1, ListParts DEF AllStatements
<1>5. << >> \in Seq(S)
  BY <1>1, ListParts
<1>6. CASE \E n \in Names, id \in Nat : st = Decl(n, id)
  <2>1. PICK n \in Names, id \in Nat : st = Decl(n, id)
    BY <1>6
  <2>2. Becomes(NodeOptStmt(st, env), << st >>, DeclareVar(env, n))
    BY <2>1, SimpleWalk
  <2>3. << st >> \in Seq(S)
    BY <1>3, <1>4
  <2> QED
    BY <2>2, <2>3, EnvParts, BecomesWalk
<1>7. CASE \E n \in Names, id \in Nat, e \in T : st = Assign(n, id, e)
  <2>1. PICK n \in Names, id \in Nat, e \in T : st = Assign(n, id, e)
    BY <1>7
  <2>2. PICK x : x = OptExpr(e, env)
    OBVIOUS
  <2>3. x \in T /\ EvalConst(x, env) \in Consts
    BY <1>2, <2>2
  <2>4. Becomes(NodeOptStmt(st, env), << Assign(n, id, x) >>, AssignVar(env, n, EvalConst(x, env)))
    BY <2>1, <2>2, SimpleWalk
  <2>5. StatementOver(T, S, Assign(n, id, x))
    BY <2>3 DEF StatementOver
  <2>6. << Assign(n, id, x) >> \in Seq(S)
    BY <1>4, <2>5
  <2>7. IsEnv(AssignVar(env, n, EvalConst(x, env))) /\ Depth(AssignVar(env, n, EvalConst(x, env))) = Depth(env)
    BY <2>3, EnvParts
  <2> QED
    BY <2>4, <2>6, <2>7, BecomesWalk
<1>8. CASE \E e \in T : st = PrintOf(e)
  <2>1. PICK e \in T : st = PrintOf(e)
    BY <1>8
  <2>2. PICK x : x = OptExpr(e, env)
    OBVIOUS
  <2>3. x \in T
    BY <1>2, <2>2
  <2>4. Becomes(NodeOptStmt(st, env), << PrintOf(x) >>, env)
    BY <2>1, <2>2, SimpleWalk
  <2>5. StatementOver(T, S, PrintOf(x))
    BY <2>3 DEF StatementOver
  <2>6. << PrintOf(x) >> \in Seq(S)
    BY <1>4, <2>5
  <2> QED
    BY <2>4, <2>6, BecomesWalk
<1>9. CASE \E b \in Seq(S) : st = Block(b)
  <2>1. PICK b \in Seq(S) : st = Block(b)
    BY <1>9
  <2>2. PICK r : r = OptStmts(b, Enter(env))
    OBVIOUS
  <2>3. WalksOn(S, b)
    BY <2>1 DEF BodyOf
  <2>4. StmtsIn(r) \in Seq(S) /\ IsEnv(Leave(EnvIn(r))) /\ Depth(Leave(EnvIn(r))) = Depth(env)
    BY <2>2, <2>3, BodyWalks
  <2>5. Becomes(NodeOptStmt(st, env), << Block(StmtsIn(r)) >>, Leave(EnvIn(r)))
    BY <2>1, <2>2, BlockWalk
  <2>6. StatementOver(T, S, Block(StmtsIn(r)))
    BY <2>4 DEF StatementOver
  <2>7. << Block(StmtsIn(r)) >> \in Seq(S)
    BY <1>4, <2>6
  <2> QED
    BY <2>4, <2>5, <2>7, BecomesWalk
<1>10. ASSUME NEW c \in T, NEW b \in Seq(S), st = If(c, b) PROVE Walks(S, env, NodeOptStmt(st, env))
  <2>1. PICK r : r = OptStmts(b, Enter(env))
    OBVIOUS
  <2>2. WalksOn(S, b)
    BY <1>10 DEF BodyOf
  <2>3. StmtsIn(r) \in Seq(S) /\ IsEnv(Leave(EnvIn(r))) /\ Depth(Leave(EnvIn(r))) = Depth(env)
    BY <2>1, <2>2, BodyWalks
  <2>4. PICK x : x = OptExpr(c, env)
    OBVIOUS
  <2>5. x \in T
    BY <1>2, <2>4
  <2>6. /\ IsFalse(x) => Becomes(NodeOptStmt(st, env), << >>, env)
        /\ ~IsFalse(x) /\ IsTrue(x) =>
              Becomes(NodeOptStmt(st, env), << Block(StmtsIn(r)) >>, Leave(EnvIn(r)))
        /\ ~IsFalse(x) /\ ~IsTrue(x) =>
              Becomes(NodeOptStmt(st, env), << If(x, StmtsIn(r)) >>, AfterBody(env, Assigned(b)))
    BY <1>10, <2>1, <2>4, BlockWalk
  <2>7. StatementOver(T, S, Block(StmtsIn(r))) /\ StatementOver(T, S, If(x, StmtsIn(r)))
    BY <2>3, <2>5 DEF StatementOver
  <2>8. << Block(StmtsIn(r)) >> \in Seq(S) /\ << If(x, StmtsIn(r)) >> \in Seq(S)
    BY <1>4, <2>7
  <2>9. CASE IsFalse(x)
    BY <1>5, <2>6, <2>9, BecomesWalk
  <2>10. CASE ~IsFalse(x) /\ IsTrue(x)
    BY <2>3, <2>6, <2>8, <2>10, BecomesWalk
  <2>11. CASE ~IsFalse(x) /\ ~IsTrue(x)
    BY <2>6, <2>8, <2>11, EnvParts, BecomesWalk
  <2> QED
    BY <2>9, <2>10, <2>11
<1>11. ASSUME NEW c \in T, NEW b \in Seq(S), st = While(c, b) PROVE Walks(S, env, NodeOptStmt(st, env))
  <2>1. PICK stable : stable = AfterBody(env, Assigned(b))
    OBVIOUS
  <2>2. IsEnv(stable) /\ Depth(stable) = Depth(env)
    BY <2>1, EnvParts
  <2>3. PICK r : r = OptStmts(b, Enter(stable))
    OBVIOUS
  <2>4. WalksOn(S, b)
    BY <1>11 DEF BodyOf
  <2>5. StmtsIn(r) \in Seq(S)
    BY <2>2, <2>3, <2>4, BodyWalks
  <2>6. PICK x : x = OptExpr(c, stable)
    OBVIOUS
  <2>7. x \in T
    BY <1>2, <2>2, <2>6
  <2>8. /\ IsFalse(x) => Becomes(NodeOptStmt(st, env), << >>, env)
        /\ ~IsFalse(x) /\ Turns(st, env) # {} =>
              NodeOptStmt(st, env) = Unrolled(st, env, TurnsLeft(st, env))
        /\ ~IsFalse(x) /\ Turns(st, env) = {} =>
              Becomes(NodeOptStmt(st, env), << While(x, StmtsIn(r)) >>, stable)
    BY <1>11, <2>1, <2>3, <2>6, WhileWalk
  <2>9. CASE IsFalse(x)
    BY <1>5, <2>8, <2>9, BecomesWalk
  <2>10. CASE ~IsFalse(x) /\ Turns(st, env) = {}
    <3>1. StatementOver(T, S, While(x, StmtsIn(r)))
      BY <2>5, <2>7 DEF StatementOver
    <3>2. << While(x, StmtsIn(r)) >> \in Seq(S)
      BY <1>4, <3>1
    <3> QED
      BY <2>2, <2>8, <2>10, <3>2, BecomesWalk
  <2>11. CASE ~IsFalse(x) /\ Turns(st, env) # {}
    <3>1. TurnsLeft(st, env) \in Nat
      BY <1>11, <2>11, TurnsParts
    <3>2. \A j \in Nat : \A a : IsEnv(a) => Walks(S, a, Unrolled(st, a, j))
      BY <1>11, <2>4, UnrolledWalks
    <3> QED
      BY <2>8, <2>11, <3>1, <3>2
  <2> QED
    BY <2>9, <2>10, <2>11
<1> QED
  BY <1>3, <1>6, <1>7, <1>8, <1>9, <1>10, <1>11 DEF StatementOver

LEMMA AllWalk ==
    ASSUME NEW T, NEW S, NEW RankT, NEW RankS, NEW Inside, Language(T, S, RankT, RankS, Inside)
    PROVE  \A q \in Seq(S) : WalksOn(S, q)
<1>1. AllStatements(T, S, RankS) /\ RankS \in [Seq(S) -> Nat]
  BY DEF Language, AllStatements
<1>2. PICK Q : Q = Seq(S)
  OBVIOUS
<1>3. PICK W : W = {q \in Q : WalksOn(S, q)}
  OBVIOUS
<1>4. ASSUME NEW q \in Q, \A b \in Q : RankS[b] < RankS[q] => b \in W PROVE q \in W
  <2> SUFFICES ASSUME NEW env, IsEnv(env), Depth(env) > 0 PROVE Walks(S, env, OptStmts(q, env))
    BY <1>3 DEF WalksOn
  <2>1. CASE q = << >>
    <3>1. Becomes(OptStmts(q, env), << >>, env)
      BY <2>1, WalkIs
    <3>2. << >> \in Seq(S)
      BY <1>1, ListParts
    <3> QED
      BY <3>1, <3>2, BecomesWalk
  <2>2. CASE q # << >>
    <3>1. PICK st, rest : st = Head(q) /\ rest = Tail(q)
      OBVIOUS
    <3>2. /\ st \in S /\ rest \in Seq(S) /\ RankS[rest] < RankS[q]
          /\ \A b : BodyOf(st, b) => RankS[b] < RankS[q]
      BY <1>1, <1>2, <2>2, <3>1, ListParts
    <3>3. \A b \in Seq(S) : RankS[b] < RankS[q] => WalksOn(S, b)
      BY <1>2, <1>3, <1>4
    <3>4. PICK a : a = NodeOptStmt(st, env)
      OBVIOUS
    <3>5. Walks(S, env, a)
      BY <3>2, <3>3, <3>4, HeadWalks
    <3>6. StmtsIn(a) \in Seq(S) /\ IsEnv(EnvIn(a)) /\ Depth(EnvIn(a)) = Depth(env)
      BY <3>5 DEF Walks
    <3>7. PICK d : d = OptStmts(rest, EnvIn(a))
      OBVIOUS
    <3>8. Walks(S, EnvIn(a), d)
      BY <3>2, <3>3, <3>6, <3>7 DEF WalksOn
    <3>9. StmtsIn(d) \in Seq(S) /\ IsEnv(EnvIn(d)) /\ Depth(EnvIn(d)) = Depth(env)
      BY <3>6, <3>8 DEF Walks
    <3>10. Becomes(OptStmts(q, env), StmtsIn(a) \o StmtsIn(d), EnvIn(d))
      BY <1>2, <2>2, <3>1, <3>4, <3>7, WalkIs
    <3>11. StmtsIn(a) \o StmtsIn(d) \in Seq(S)
      BY <1>1, <3>6, <3>9, ListParts
    <3> QED
      BY <3>9, <3>10, <3>11, BecomesWalk
  <2> QED
    BY <2>1, <2>2
<1>5. Q \subseteq W
  <2>1. RankS \in [Q -> Nat] /\ \A q \in Q : (\A b \in Q : RankS[b] < RankS[q] => b \in W) => q \in W
    BY <1>1, <1>2, <1>4
  <2> QED
    BY ONLY <2>1, EveryMember
<1> QED
  BY <1>2, <1>3, <1>5

-----------------------------------------------------------------------------
(***************************************************************************)
(* One turn of a loop that counts takes its variable one step on.          *)
(***************************************************************************)
LEMMA SameLookup ==
    ASSUME NEW env, IsEnv(env), NEW a, IsEnv(a), NEW n \in Names,
           Frame(env, n) # 0, Frame(env, n) \in 1 .. Depth(a),
           \A i \in 1 .. Depth(a) :
              IF i \in 1 .. Depth(env) THEN Held(a, i, n) = Held(env, i, n) ELSE ~Has(a, i, n)
    PROVE  Frame(a, n) = Frame(env, n) /\ Lookup(a, n) = Lookup(env, n)
<1>1. PICK f : f = Frame(env, n)
  OBVIOUS
<1>2. /\ f \in 1 .. Depth(env) /\ Has(env, f, n)
      /\ \A j \in 1 .. Depth(env) : j > f => ~Has(env, j, n)
      /\ Lookup(env, n) = Held(env, f, n)
  BY <1>1, InnerFrame DEF IsEnv
<1>3. f \in 1 .. Depth(a) /\ Held(a, f, n) = Held(env, f, n) /\ Has(a, f, n)
  BY <1>1, <1>2 DEF Has
<1>4. \A j \in 1 .. Depth(a) : j > f => ~Has(a, j, n)
  BY <1>2 DEF Has
<1>5. Frame(a, n) = f
  BY <1>3, <1>4, FrameIs DEF IsEnv
<1>6. Lookup(a, n) = Held(a, f, n)
  BY <1>1, <1>5, InnerFrame DEF IsEnv
<1> QED
  BY <1>1, <1>2, <1>3, <1>5, <1>6

LEMMA LookupElsewhere ==
    ASSUME NEW env, IsEnv(env), Depth(env) > 0, NEW n \in Names, Frame(env, n) # 0,
           NEW m \in Names, m # n, NEW c \in Consts,
           NEW a, a = DeclareVar(env, m) \/ a = AssignVar(env, m, c)
    PROVE  Frame(a, n) = Frame(env, n) /\ Lookup(a, n) = Lookup(env, n)
<1>1. Depth(env) \in Nat /\ Depth(env) \in 1 .. Depth(env) /\ Frame(env, n) \in 1 .. Depth(env)
  BY StackParts, InnerFrame DEF IsEnv
<1>2. IsEnv(a) /\ Depth(a) = Depth(env)
  BY EnvParts
<1>3. \E i \in 1 .. Depth(env), d \in Entries : a = SetIn(env, i, m, d)
  <2>1. CASE a = DeclareVar(env, m)
    <3>1. a = SetIn(env, Depth(env), m, Unknown)
      BY <2>1 DEF DeclareVar, SetIn, Depth
    <3> QED
      BY <1>1, <3>1, EntryKinds
  <2>2. CASE a = AssignVar(env, m, c)
    <3>1. PICK i : i = IF Frame(env, m) = 0 THEN Len(env) ELSE Frame(env, m)
      OBVIOUS
    <3>2. a = SetIn(env, i, m, c)
      BY <2>2, <3>1 DEF AssignVar, SetIn
    <3>3. i \in 1 .. Depth(env)
      BY <1>1, <3>1, InnerFrame DEF IsEnv, Depth
    <3> QED
      BY <3>2, <3>3, EntryKinds
  <2> QED
    BY <2>1, <2>2
<1>4. \A j \in 1 .. Depth(env) : Held(a, j, n) = Held(env, j, n)
  BY <1>3, SetParts DEF IsEnv
<1> QED
  BY <1>1, <1>2, <1>4, SameLookup

LEMMA LookupAssigned ==
    ASSUME NEW env, IsEnv(env), Depth(env) > 0, NEW n \in Names, Frame(env, n) # 0,
           NEW c \in Consts, NEW a, a = AssignVar(env, n, c)
    PROVE  Frame(a, n) = Frame(env, n) /\ Lookup(a, n) = c
<1>1. PICK f : f = Frame(env, n)
  OBVIOUS
<1>2. f \in 1 .. Depth(env) /\ \A j \in 1 .. Depth(env) : j > f => ~Has(env, j, n)
  BY <1>1, InnerFrame DEF IsEnv
<1>3. a = SetIn(env, f, n, c)
  BY <1>1 DEF AssignVar, SetIn
<1>4. /\ IsEnv(a) /\ Depth(a) = Depth(env)
      /\ \A j \in 1 .. Depth(env) : Held(a, j, n) = IF j = f THEN c ELSE Held(env, j, n)
  BY <1>2, <1>3, EntryKinds, SetParts DEF IsEnv
<1>5. Has(a, f, n) /\ \A j \in 1 .. Depth(a) : j > f => ~Has(a, j, n)
  BY <1>2, <1>4, EntryKinds DEF Has
<1>6. Frame(a, n) = f
  BY <1>2, <1>4, <1>5, FrameIs DEF IsEnv
<1>7. f # 0
  BY <1>1
<1>8. Lookup(a, n) = Held(a, f, n)
  BY <1>4, <1>6, <1>7, InnerFrame DEF IsEnv
<1> QED
  BY <1>1, <1>2, <1>4, <1>6, <1>8

LEMMA LookupInside ==
    ASSUME NEW env, IsEnv(env), NEW n \in Names, Frame(env, n) # 0
    PROVE  /\ Frame(Enter(env), n) = Frame(env, n) /\ Lookup(Enter(env), n) = Lookup(env, n)
           /\ \A inner : IsEnv(inner) /\ Depth(inner) = Depth(env) + 1 /\ Frame(inner, n) = Frame(env, n) =>
                 Frame(Leave(inner), n) = Frame(env, n) /\ Lookup(Leave(inner), n) = Lookup(inner, n)
<1>1. Depth(env) \in Nat /\ Frame(env, n) \in 1 .. Depth(env)
  BY StackParts, InnerFrame DEF IsEnv
<1>2. Frame(Enter(env), n) = Frame(env, n) /\ Lookup(Enter(env), n) = Lookup(env, n)
  <2>1. PICK a : a = Enter(env)
    OBVIOUS
  <2>2. IsEnv(a) /\ Depth(a) = Depth(env) + 1
    BY <2>1, InsideParts
  <2>3. /\ \A i \in 1 .. Depth(env) : Held(a, i, n) = Held(env, i, n)
        /\ Held(a, Depth(env) + 1, n) = Absent
    BY <2>1, EntryKinds, EnterParts DEF IsEnv
  <2>4. \A i \in 1 .. Depth(a) : i \in 1 .. Depth(env) \/ i = Depth(env) + 1
    BY <1>1, <2>2
  <2>5. \A i \in 1 .. Depth(a) :
           IF i \in 1 .. Depth(env) THEN Held(a, i, n) = Held(env, i, n) ELSE ~Has(a, i, n)
    BY <2>3, <2>4 DEF Has
  <2>6. Frame(env, n) \in 1 .. Depth(a)
    BY <1>1, <2>2
  <2> QED
    BY <2>1, <2>2, <2>5, <2>6, SameLookup
<1>3. ASSUME NEW inner, IsEnv(inner), Depth(inner) = Depth(env) + 1, Frame(inner, n) = Frame(env, n)
      PROVE  Frame(Leave(inner), n) = Frame(env, n) /\ Lookup(Leave(inner), n) = Lookup(inner, n)
  <2>1. PICK a : a = Leave(inner)
    OBVIOUS
  <2>2. IsEnv(a) /\ Depth(a) = Depth(env)
    BY <1>3, <2>1, InsideParts
  <2>3. Depth(inner) > 0 /\ Depth(inner) - 1 = Depth(env)
    BY <1>1, <1>3
  <2>4. \A i \in 1 .. Depth(env) : Held(a, i, n) = Held(inner, i, n)
    BY <1>3, <2>1, <2>3, LeaveParts DEF IsEnv
  <2>5. \A i \in 1 .. Depth(a) :
           IF i \in 1 .. Depth(inner) THEN Held(a, i, n) = Held(inner, i, n) ELSE ~Has(a, i, n)
    BY <1>1, <1>3, <2>2, <2>4
  <2> QED
    BY <1>1, <1>3, <2>1, <2>2, <2>5, SameLookup
<1> QED
  BY <1>2, <1>3

\* The statements of q declare no n.
Uncaptured(q, n) == \A i \in DOMAIN q : ~ (q[i].k = "decl" /\ q[i].name = n)

LEMMA IncrementKnown ==
    ASSUME NEW T, NEW Rank, NEW Inside, AllExpressions(T, Rank, Inside),
           \A e \in T : Folded(e) /\ Evaluated(e),
           NEW env, IsEnv(env), NEW n \in Names, NEW cur \in Nat, Lookup(env, n) = Const("int", cur),
           NEW step \in Nat, NEW e \in T, Steps(e, n, step)
    PROVE  EvalConst(OptExpr(e, env), env) = Const("int", cur + step)
<1>1. PICK id : e = Add(Var(n, id), Lit("int", step)) \/ e = Add(Lit("int", step), Var(n, id))
  BY DEF Steps
<1>2. PICK v, i : v = Var(n, id) /\ i = Lit("int", step)
  OBVIOUS
<1>3. e = Add(v, i) \/ e = Add(i, v)
  BY <1>1, <1>2
<1>4. v \in T /\ i \in T
  <2>1. e.k = "add" /\ ((e.l = v /\ e.r = i) \/ (e.l = i /\ e.r = v))
    BY <1>3, KindsApart
  <2> QED
    BY <2>1, ByKind
<1>5. EvalConst(v, env) = Const("int", cur)
  <2>1. NodeConst(v, env) = Const("int", cur)
    BY <1>2, ConstForm
  <2> QED
    BY <1>4, <2>1 DEF Folded
<1>6. EvalConst(i, env) = Const("int", step)
  <2>1. NodeConst(i, env) = Const("int", step)
    BY <1>2, ConstForm
  <2> QED
    BY <1>4, <2>1 DEF Folded
<1>7. EvalConst(e, env) = Const("int", cur + step)
  <2>1. PICK a, b : a = Const("int", cur) /\ b = Const("int", step)
    OBVIOUS
  <2>2. a.kind = "int" /\ a.v = cur /\ b.kind = "int" /\ b.v = step
    BY <2>1, EntryKinds
  <2>3. ASSUME NEW l, NEW r, EvalConst(l, env) = a, EvalConst(r, env) = b
        PROVE  NodeConst(Add(l, r), env) = Const("int", cur + step)
    BY <2>2, <2>3, ConstForm
  <2>4. ASSUME NEW l, NEW r, EvalConst(l, env) = b, EvalConst(r, env) = a
        PROVE  NodeConst(Add(l, r), env) = Const("int", cur + step)
    <3>1. NodeConst(Add(l, r), env) = Const("int", step + cur)
      BY <2>2, <2>4, ConstForm
    <3>2. step + cur = cur + step
      OBVIOUS
    <3> QED
      BY <3>1, <3>2
  <2>5. NodeConst(e, env) = Const("int", cur + step)
    BY <1>3, <1>5, <1>6, <2>1, <2>3, <2>4
  <2> QED
    BY <2>5 DEF Folded
<1>8. FoldsWell(T, e)
  BY AllFoldWell
<1> QED
  BY <1>7, <1>8 DEF FoldsWell

LEMMA StraightParts ==
    ASSUME NEW S, NEW q \in Seq(S), q # << >>, NEW n, Straight(q, n), Uncaptured(q, n)
    PROVE  /\ ~HasBody(Head(q)) /\ ~ (Head(q).k = "decl" /\ Head(q).name = n)
           /\ Tail(q) = << >> => Head(q) = Last(q) /\ Head(q).k = "assign" /\ Head(q).name = n
           /\ Tail(q) # << >> =>
                 /\ ~ (Head(q).k = "assign" /\ Head(q).name = n)
                 /\ Straight(Tail(q), n) /\ Uncaptured(Tail(q), n) /\ Last(Tail(q)) = Last(q)
<1>1. PICK d \in Nat : d = Len(q) /\ d # 0
  OBVIOUS
<1>2. DOMAIN q = 1 .. d /\ Head(q) = q[1] /\ 1 \in 1 .. d /\ Last(q) = q[d]
  BY <1>1 DEF Last
<1>3. /\ \A i \in 1 .. d : ~HasBody(q[i]) /\ ~ (q[i].k = "decl" /\ q[i].name = n)
      /\ \A i \in 1 .. d : (q[i].k = "assign" /\ q[i].name = n) <=> i = d
  <2>1. {i \in 1 .. d : q[i].k = "assign" /\ q[i].name = n} = {d}
    BY <1>1, <1>2 DEF Straight
  <2>2. \A i \in 1 .. d : (q[i].k = "assign" /\ q[i].name = n) <=> i = d
    BY <2>1
  <2> QED
    BY <1>2, <2>2 DEF Straight, Uncaptured
<1>4. PICK r : r = Tail(q)
  OBVIOUS
<1>5. r \in Seq(S) /\ Len(r) = d - 1 /\ \A i \in 1 .. d - 1 : r[i] = q[i + 1]
  BY <1>1, <1>4
<1>6. CASE r = << >>
  <2>1. Len(r) = 0
    BY <1>6
  <2>2. Len(r) = d - 1
    BY <1>5
  <2>3. d - 1 = 0
    BY <2>1, <2>2
  <2>4. d \in Nat
    BY <1>1
  <2>5. d = 1
    BY ONLY <2>3, <2>4
  <2> QED
    BY <1>2, <1>3, <1>4, <1>6, <2>5
<1>7. CASE r # << >>
  <2>1. PICK m \in Nat : m = d - 1 /\ m # 0 /\ m \in 1 .. m /\ m + 1 = d
    BY <1>1, <1>5, <1>7
  <2>2. DOMAIN r = 1 .. m /\ Len(r) = m /\ Last(r) = r[m]
    BY <1>5, <2>1 DEF Last
  <2>3. \A i \in 1 .. m : r[i] = q[i + 1] /\ i + 1 \in 1 .. d /\ (i + 1 = d <=> i = m)
    BY <1>5, <2>1
  <2>4. \A i \in 1 .. m : ~HasBody(r[i]) /\ ~ (r[i].k = "decl" /\ r[i].name = n)
    BY <1>3, <2>3
  <2>5. \A i \in 1 .. m : (r[i].k = "assign" /\ r[i].name = n) <=> i = m
    BY <1>3, <2>3
  <2>6. {i \in 1 .. m : r[i].k = "assign" /\ r[i].name = n} = {m}
    BY <2>1, <2>5
  <2>7. Straight(r, n) /\ Uncaptured(r, n)
    BY <2>2, <2>4, <2>6 DEF Straight, Uncaptured
  <2>8. Last(r) = Last(q)
    BY <1>2, <2>1, <2>2, <2>3
  <2>9. 1 # d
    BY <2>1
  <2> QED
    BY <1>2, <1>3, <1>4, <1>7, <2>7, <2>8, <2>9
<1> QED
  BY <1>4, <1>6, <1>7

Advanced(before, after, n, cur, step) ==
    Frame(after, n) = Frame(before, n) /\ Lookup(after, n) = Const("int", cur + step)
Advances(q) ==
    \A n \in Names, step \in Nat :
        q # << >> /\ Straight(q, n) /\ Uncaptured(q, n) /\ Steps(Last(q).e, n, step) =>
            \A env : \A cur \in Nat :
                IsEnv(env) /\ Depth(env) > 0 /\ Frame(env, n) # 0 /\ Lookup(env, n) = Const("int", cur) =>
                    Advanced(env, EnvIn(OptStmts(q, env)), n, cur, step)

\* A statement that has no body and neither declares nor assigns n.
LEMMA PassedBy ==
    ASSUME NEW T, NEW S, NEW RankT, NEW RankS, NEW Inside, Language(T, S, RankT, RankS, Inside),
           NEW st \in S, NEW n \in Names, ~HasBody(st), ~ (st.k \in {"decl", "assign"} /\ st.name = n),
           NEW env, IsEnv(env), Depth(env) > 0, Frame(env, n) # 0,
           NEW a, a = NodeOptStmt(st, env)
    PROVE  /\ IsEnv(EnvIn(a)) /\ Depth(EnvIn(a)) = Depth(env)
           /\ Frame(EnvIn(a), n) = Frame(env, n) /\ Lookup(EnvIn(a), n) = Lookup(env, n)
<1>1. AllStatements(T, S, RankS)
  BY DEF Language
<1>2. \A b : ~BodyOf(st, b)
  BY StatementKinds DEF BodyOf, HasBody
<1>3. IsEnv(EnvIn(a)) /\ Depth(EnvIn(a)) = Depth(env)
  <2>1. Walks(S, env, a)
    BY <1>2, HeadWalks
  <2> QED
    BY <2>1 DEF Walks
<1>4. CASE \E m \in Names, id \in Nat : st = Decl(m, id)
  <2>1. PICK m \in Names, id \in Nat : st = Decl(m, id)
    BY <1>4
  <2>2. m # n
    BY <2>1 DEF Decl
  <2>3. Becomes(a, << st >>, DeclareVar(env, m))
    BY <2>1, SimpleWalk
  <2>4. EnvIn(a) = DeclareVar(env, m)
    BY <2>3 DEF Becomes
  <2>5. Unknown \in Consts
    BY EntryKinds
  <2> QED
    BY <1>3, <2>2, <2>4, <2>5, LookupElsewhere
<1>5. CASE \E m \in Names, id \in Nat, e \in T : st = Assign(m, id, e)
  <2>1. PICK m \in Names, id \in Nat, e \in T : st = Assign(m, id, e)
    BY <1>5
  <2>2. m # n
    BY <2>1, StatementKinds
  <2>3. PICK c : c = EvalConst(OptExpr(e, env), env)
    OBVIOUS
  <2>4. Becomes(a, << Assign(m, id, OptExpr(e, env)) >>, AssignVar(env, m, c))
    BY <2>1, <2>3, SimpleWalk
  <2>5. EnvIn(a) = AssignVar(env, m, c)
    BY <2>4 DEF Becomes
  <2>6. c \in Consts
    <3>1. FoldsWell(T, e)
      BY AllFoldWell DEF Language
    <3> QED
      BY <2>3, <3>1 DEF FoldsWell
  <2> QED
    BY <1>3, <2>2, <2>5, <2>6, LookupElsewhere
<1>6. CASE \E e \in T : st = PrintOf(e)
  <2>1. PICK e \in T : st = PrintOf(e)
    BY <1>6
  <2>2. Becomes(a, << PrintOf(OptExpr(e, env)) >>, env)
    BY <2>1, SimpleWalk
  <2> QED
    BY <1>3, <2>2 DEF Becomes
<1>7. StatementOver(T, S, st)
  BY <1>1 DEF AllStatements
<1>8. ~ (\E b \in Seq(S) : st = Block(b)) /\ ~ (\E c \in T, b \in Seq(S) : st = If(c, b) \/ st = While(c, b))
  BY <1>2 DEF BodyOf
<1> QED
  BY <1>4, <1>5, <1>6, <1>7, <1>8 DEF StatementOver

LEMMA AllAdvance ==
    ASSUME NEW T, NEW S, NEW RankT, NEW RankS, NEW Inside, Language(T, S, RankT, RankS, Inside)
    PROVE  \A q \in Seq(S) : Advances(q)
<1>1. AllStatements(T, S, RankS) /\ RankS \in [Seq(S) -> Nat] /\ AllExpressions(T, RankT, Inside)
  BY DEF Language, AllStatements
<1>2. PICK Q : Q = Seq(S)
  OBVIOUS
<1>3. PICK W : W = {q \in Q : Advances(q)}
  OBVIOUS
<1>4. ASSUME NEW q \in Q, \A b \in Q : RankS[b] < RankS[q] => b \in W PROVE q \in W
  <2> SUFFICES ASSUME NEW n \in Names, NEW step \in Nat, q # << >>, Straight(q, n), Uncaptured(q, n),
                      Steps(Last(q).e, n, step), NEW env, NEW cur \in Nat, IsEnv(env), Depth(env) > 0,
                      Frame(env, n) # 0, Lookup(env, n) = Const("int", cur)
               PROVE  Advanced(env, EnvIn(OptStmts(q, env)), n, cur, step)
    BY <1>3 DEF Advances
  <2>1. PICK st, rest, e : st = Head(q) /\ rest = Tail(q) /\ e = Last(q).e
    OBVIOUS
  <2>2. /\ ~HasBody(st) /\ ~ (st.k = "decl" /\ st.name = n)
        /\ rest = << >> => st = Last(q) /\ st.k = "assign" /\ st.name = n
        /\ rest # << >> =>
              /\ ~ (st.k = "assign" /\ st.name = n)
              /\ Straight(rest, n) /\ Uncaptured(rest, n) /\ Last(rest) = Last(q)
    BY <1>2, <2>1, StraightParts
  <2>3. st \in S /\ rest \in Seq(S) /\ RankS[rest] < RankS[q]
    BY <1>1, <1>2, <2>1, ListParts
  <2>4. PICK a : a = NodeOptStmt(st, env)
    OBVIOUS
  <2>5. PICK d : d = OptStmts(rest, EnvIn(a))
    OBVIOUS
  <2>6. EnvIn(OptStmts(q, env)) = EnvIn(d)
    <3>1. Becomes(OptStmts(q, env), StmtsIn(a) \o StmtsIn(d), EnvIn(d))
      BY <1>2, <2>1, <2>4, <2>5, WalkIs
    <3> QED
      BY <3>1 DEF Becomes
  <2>7. CASE rest = << >>
    <3>1. e \in T
      BY <1>1, <1>2, <2>1, LastAssigns
    <3>2. \E id : st = Assign(n, id, e)
      <4>1. StatementOver(T, S, st) /\ st.k = "assign" /\ st.name = n /\ st.e = e
        BY <1>1, <2>1, <2>2, <2>3, <2>7 DEF AllStatements
      <4>2. \E m, i, x : st = Assign(m, i, x)
        BY <4>1, StatementKinds DEF StatementOver
      <4> QED
        BY <4>1, <4>2, StatementKinds
    <3>3. PICK c : c = EvalConst(OptExpr(e, env), env)
      OBVIOUS
    <3>4. c = Const("int", cur + step)
      BY <1>1, <2>1, <3>1, <3>3, IncrementKnown DEF Language
    <3>5. PICK id : st = Assign(n, id, e)
      BY <3>2
    <3>6. Becomes(a, << Assign(n, id, OptExpr(e, env)) >>, AssignVar(env, n, c))
      BY <2>4, <3>3, <3>5, SimpleWalk
    <3>7. EnvIn(a) = AssignVar(env, n, c)
      BY <3>6 DEF Becomes
    <3>8. c \in Consts
      <4>1. "int" \in Kinds /\ cur + step \in Nat
        BY DEF Kinds
      <4> QED
        BY <3>4, <4>1, EntryKinds
    <3>9. Frame(EnvIn(a), n) = Frame(env, n) /\ Lookup(EnvIn(a), n) = c
      BY <3>7, <3>8, LookupAssigned
    <3>10. IsEnv(EnvIn(a))
      BY <3>7, <3>8, EnvParts
    <3>11. EnvIn(d) = EnvIn(a)
      <4>1. Becomes(OptStmts(<< >>, EnvIn(a)), << >>, EnvIn(a))
        BY <3>10, WalkIs
      <4> QED
        BY <2>5, <2>7, <4>1 DEF Becomes
    <3> QED
      BY <2>6, <3>4, <3>9, <3>11 DEF Advanced
  <2>8. CASE rest # << >>
    <3>1. ~HasBody(st) /\ ~ (st.k \in {"decl", "assign"} /\ st.name = n)
      BY <2>2, <2>8
    <3>2. /\ IsEnv(EnvIn(a)) /\ Depth(EnvIn(a)) = Depth(env)
          /\ Frame(EnvIn(a), n) = Frame(env, n) /\ Lookup(EnvIn(a), n) = Lookup(env, n)
      BY <2>3, <2>4, <3>1, PassedBy
    <3>3. Advances(rest)
      BY <1>2, <1>3, <1>4, <2>3
    <3>4. Straight(rest, n) /\ Uncaptured(rest, n) /\ Steps(Last(rest).e, n, step)
      BY <2>2, <2>8
    <3>5. Advanced(EnvIn(a), EnvIn(d), n, cur, step)
      BY <2>5, <2>8, <3>2, <3>3, <3>4 DEF Advances
    <3> QED
      BY <2>6, <3>2, <3>5 DEF Advanced
  <2> QED
    BY <2>7, <2>8
<1>5. Q \subseteq W
  <2>1. RankS \in [Q -> Nat] /\ \A q \in Q : (\A b \in Q : RankS[b] < RankS[q] => b \in W) => q \in W
    BY <1>1, <1>2, <1>4
  <2> QED
    BY ONLY <2>1, EveryMember
<1> QED
  BY <1>2, <1>3, <1>5

\* A turn brings the loop one step nearer.
LEMMA NextTurn ==
    ASSUME NEW T, NEW S, NEW RankT, NEW RankS, NEW Inside, Language(T, S, RankT, RankS, Inside),
           NEW c, NEW b \in Seq(S), NEW n, NEW id, NEW limit, NEW step, Counter(c, b, n, id, limit, step),
           Uncaptured(b, n), NEW env, IsEnv(env), NEW j \in Nat, TurnsAway(env, n, limit, step, j + 1),
           NEW after, after = Leave(EnvIn(OptStmts(b, Enter(env))))
    PROVE  TurnsAway(after, n, limit, step, j)
<1>1. n \in Names /\ step \in Nat \ {0} /\ limit \in Nat /\ b # << >> /\ Straight(b, n) /\ Steps(Last(b).e, n, step)
  BY DEF Counter
<1>2. PICK cur \in Nat : Lookup(env, n) = Const("int", cur) /\ cur + (j + 1) * step = limit
  BY DEF TurnsAway
<1>3. Frame(env, n) # 0
  <2>1. Frame(env, n) = 0 => Lookup(env, n) = Unknown
    BY DEF Lookup
  <2>2. "int" \in Kinds /\ IsKnown(Const("int", cur)) /\ ~IsKnown(Unknown)
    BY EntryKinds DEF Kinds
  <2> QED
    BY <1>2, <2>1, <2>2
<1>4. PICK inner : inner = Enter(env)
  OBVIOUS
<1>5. IsEnv(inner) /\ Depth(inner) = Depth(env) + 1 /\ Depth(inner) > 0
  BY <1>4, InsideParts
<1>6. Frame(inner, n) = Frame(env, n) /\ Lookup(inner, n) = Const("int", cur)
  BY <1>1, <1>2, <1>3, <1>4, LookupInside
<1>7. PICK r : r = EnvIn(OptStmts(b, inner))
  OBVIOUS
<1>8. Advanced(inner, r, n, cur, step)
  <2>1. Advances(b)
    BY AllAdvance
  <2> QED
    BY <1>1, <1>3, <1>5, <1>6, <1>7, <2>1 DEF Advances
<1>9. IsEnv(r) /\ Depth(r) = Depth(env) + 1
  <2>1. WalksOn(S, b)
    BY AllWalk
  <2>2. Walks(S, inner, OptStmts(b, inner))
    BY <1>5, <2>1 DEF WalksOn
  <2> QED
    BY <1>5, <1>7, <2>2 DEF Walks
<1>10. Frame(r, n) = Frame(env, n) /\ Lookup(r, n) = Const("int", cur + step)
  BY <1>6, <1>8 DEF Advanced
<1>11. after = Leave(r)
  BY <1>4, <1>7
<1>12. Lookup(after, n) = Const("int", cur + step)
  BY <1>1, <1>3, <1>9, <1>10, <1>11, LookupInside
<1>13. cur + step \in Nat /\ (cur + step) + j * step = limit
  <2>1. (j + 1) * step = j * step + step
    BY <1>1
  <2>2. PICK p \in Nat : p = j * step
    BY <1>1
  <2> QED
    BY <1>1, <1>2, <2>1, <2>2
<1> QED
  BY <1>12, <1>13 DEF TurnsAway

-----------------------------------------------------------------------------
(***************************************************************************)
(* The walk next to a run: what the statements become does what they do.   *)
(***************************************************************************)
LEMMA SameStack ==
    ASSUME NEW S, NEW a, NEW b, Stack(a, S), Stack(b, S), Depth(a) = Depth(b),
           \A i \in 1 .. Depth(a), n \in Names : Held(a, i, n) = Held(b, i, n)
    PROVE  a = b
<1>1. a \in Seq([Names -> S]) /\ b \in Seq([Names -> S]) /\ Len(a) = Len(b)
  BY DEF Stack, Depth
<1>2. \A i \in 1 .. Len(a) : a[i] = b[i]
  <2> SUFFICES ASSUME NEW i \in 1 .. Len(a) PROVE a[i] = b[i]
    OBVIOUS
  <2>1. i \in 1 .. Depth(a) /\ i \in 1 .. Depth(b)
    BY DEF Depth
  <2>2. a[i] \in [Names -> S] /\ b[i] \in [Names -> S]
    BY <2>1, StackParts
  <2>3. \A n \in Names : a[i][n] = b[i][n]
    BY <2>1 DEF Held
  <2> QED
    BY <2>2, <2>3
<1> QED
  BY <1>1, <1>2

LEMMA LeftAsBefore ==
    ASSUME NEW sc, IsScopes(sc)
    PROVE  /\ Leave(Enter(sc)) = sc
           /\ Depth(sc) > 0 => \A n \in Names, id \in Nat : Leave(Declared(sc, n, id)) = Leave(sc)
<1>1. Absent \in Bindings /\ Stack(sc, Bindings) /\ Depth(sc) \in Nat
  BY EntryKinds, StackParts DEF IsScopes
<1>2. Leave(Enter(sc)) = sc
  <2>1. PICK a : a = Enter(sc)
    OBVIOUS
  <2>2. /\ Stack(a, Bindings) /\ Depth(a) = Depth(sc) + 1
        /\ \A i \in 1 .. Depth(sc), n \in Names : Held(a, i, n) = Held(sc, i, n)
    BY <1>1, <2>1, EnterParts
  <2>3. Depth(a) > 0 /\ Depth(a) - 1 = Depth(sc)
    BY <1>1, <2>2
  <2>4. /\ Stack(Leave(a), Bindings) /\ Depth(Leave(a)) = Depth(a) - 1
        /\ \A i \in 1 .. Depth(a) - 1, n \in Names : Held(Leave(a), i, n) = Held(a, i, n)
    BY <2>2, <2>3, LeaveParts
  <2>5. Depth(Leave(a)) = Depth(sc)
        /\ \A i \in 1 .. Depth(Leave(a)), n \in Names : Held(Leave(a), i, n) = Held(sc, i, n)
    BY <2>2, <2>3, <2>4
  <2>6. Leave(a) = sc
    BY <1>1, <2>4, <2>5, SameStack
  <2> QED
    BY <2>1, <2>6
<1>3. ASSUME Depth(sc) > 0, NEW n \in Names, NEW id \in Nat PROVE Leave(Declared(sc, n, id)) = Leave(sc)
  <2>1. PICK a : a = Declared(sc, n, id)
    OBVIOUS
  <2>2. PICK d : d = Depth(sc)
    OBVIOUS
  <2>3. d \in 1 .. Depth(sc) /\ d \in Nat /\ Meaning(id) \in Bindings
    BY <1>1, <1>3, <2>2, EntryKinds
  <2>4. /\ Stack(a, Bindings) /\ Depth(a) = Depth(sc)
        /\ \A j \in 1 .. Depth(sc), m \in Names :
              Held(a, j, m) = IF j = d /\ m = n THEN Meaning(id) ELSE Held(sc, j, m)
    BY <1>1, <2>1, <2>2, <2>3, SetParts DEF Declared
  <2>5. /\ Stack(Leave(a), Bindings) /\ Depth(Leave(a)) = d - 1
        /\ \A i \in 1 .. d - 1, m \in Names : Held(Leave(a), i, m) = Held(a, i, m)
    BY <1>3, <2>2, <2>4, LeaveParts
  <2>6. /\ Stack(Leave(sc), Bindings) /\ Depth(Leave(sc)) = d - 1
        /\ \A i \in 1 .. d - 1, m \in Names : Held(Leave(sc), i, m) = Held(sc, i, m)
    BY <1>1, <1>3, <2>2, LeaveParts
  <2>7. \A i \in 1 .. d - 1 : i # d /\ i \in 1 .. Depth(sc)
    BY <2>2, <2>3
  <2>8. \A i \in 1 .. Depth(Leave(a)), m \in Names : Held(Leave(a), i, m) = Held(Leave(sc), i, m)
    BY <2>4, <2>5, <2>6, <2>7
  <2>9. Leave(a) = Leave(sc)
    BY <2>5, <2>6, <2>8, SameStack
  <2> QED
    BY <2>1, <2>9
<1> QED
  BY <1>2, <1>3

\* A literal is worth what it says.
LEMMA LiteralWorth ==
    ASSUME NEW T, NEW Rank, NEW Inside, AllExpressions(T, Rank, Inside),
           \A e \in T : Folded(e) /\ Evaluated(e), NEW x \in T, x.k = "lit"
    PROVE  \A store : Eval(x, store) = x.v
<1> SUFFICES ASSUME NEW store PROVE Eval(x, store) = x.v
  OBVIOUS
<1>1. Eval(x, store) = NodeValue(x, store)
  BY DEF Evaluated, Meant
<1> QED
  BY <1>1 DEF NodeValue, EvalOf

\* collectAssignedVars: what a part of a body assigns, the body assigns.
LEMMA AssignedParts ==
    ASSUME NEW T, NEW S, NEW RankT, NEW RankS, NEW Inside, Language(T, S, RankT, RankS, Inside),
           NEW q \in Seq(S), q # << >>
    PROVE  /\ Assigned(Tail(q)) \subseteq Assigned(q)
           /\ \A n, id, e : Head(q) = Assign(n, id, e) => n \in Assigned(q)
           /\ \A b : BodyOf(Head(q), b) => Assigned(b) \subseteq Assigned(q)
<1>1. Tail(q) \in Seq(S)
  <2>1. AllStatements(T, S, RankS)
    BY DEF Language
  <2> QED
    BY <2>1, ListParts
<1>2. Assigned(q) = AssignedOf(Assigned, q) /\ Assigned(Tail(q)) = AssignedOf(Assigned, Tail(q))
  BY <1>1, WalkIs DEF NodeAssigned
<1>3. 1 \in DOMAIN q /\ q[1] = Head(q)
  OBVIOUS
<1>4. \A i \in DOMAIN Tail(q) : \E j \in DOMAIN q : q[j] = Tail(q)[i]
  <2> SUFFICES ASSUME NEW i \in DOMAIN Tail(q) PROVE \E j \in DOMAIN q : q[j] = Tail(q)[i]
    OBVIOUS
  <2>1. i \in 1 .. Len(Tail(q)) /\ Len(Tail(q)) = Len(q) - 1
    BY <1>1
  <2>2. i + 1 \in DOMAIN q
    BY <2>1
  <2>3. q[i + 1] = Tail(q)[i]
    BY <2>1
  <2> QED
    BY <2>2, <2>3
<1>5. \A p : \A x : x \in AssignedOf(Assigned, p) <=>
          \E i \in DOMAIN p : \/ p[i].k = "assign" /\ x = p[i].name
                              \/ HasBody(p[i]) /\ x \in Assigned(p[i].body)
  BY DEF AssignedOf
<1>6. Assigned(Tail(q)) \subseteq Assigned(q)
  <2> SUFFICES ASSUME NEW x, x \in Assigned(Tail(q)) PROVE x \in Assigned(q)
    OBVIOUS
  <2>1. PICK i \in DOMAIN Tail(q) : \/ Tail(q)[i].k = "assign" /\ x = Tail(q)[i].name
                                    \/ HasBody(Tail(q)[i]) /\ x \in Assigned(Tail(q)[i].body)
    BY <1>2, <1>5
  <2>2. PICK j \in DOMAIN q : q[j] = Tail(q)[i]
    BY <1>4
  <2> QED
    BY <1>2, <1>5, <2>1, <2>2
<1>7. ASSUME NEW n, NEW id, NEW e, Head(q) = Assign(n, id, e) PROVE n \in Assigned(q)
  <2>1. q[1].k = "assign" /\ q[1].name = n
    BY <1>3, <1>7, StatementKinds
  <2> QED
    BY <1>2, <1>3, <1>5, <2>1
<1>8. ASSUME NEW b, BodyOf(Head(q), b) PROVE Assigned(b) \subseteq Assigned(q)
  <2>1. HasBody(q[1]) /\ q[1].body = b
    BY <1>3, <1>8, StatementKinds DEF BodyOf, HasBody
  <2> QED
    BY <1>2, <1>3, <1>5, <2>1
<1> QED
  BY <1>6, <1>7, <1>8

\* The walk is where the run s is, in env and in sc.
Tracks(env, sc, s) ==
    /\ IsEnv(env) /\ Depth(env) > 0
    /\ IsScopes(sc) /\ Apart(sc) /\ Knows(env, sc, StoreIn(s)) /\ Going(s)

\* The statements p do what took s to t.
Does(p, s, t) == \A u : Better(s, u) => Better(t, ExecBlock(p, u))

\* A step of the walk with result r, next to a run from s to t that assigns names.
Abreast(sc, names, r, s, t, after) ==
    /\ Untouched(sc, names, StoreIn(s), StoreIn(t))
    /\ Does(StmtsIn(r), s, t)
    /\ Knows(EnvIn(r), after, StoreIn(t))

LEMMA BetterParts ==
    ASSUME NEW s, Going(s), FuelIn(s) # 0
    PROVE  /\ Better(s, s)
           /\ \A u : Better(s, u) => /\ Going(u) /\ FuelIn(u) # 0 /\ FuelIn(u) \in Nat
                                     /\ StoreIn(u) = StoreIn(s) /\ OutIn(u) = OutIn(s)
           /\ \A key, v : \A u : Better(s, u) => Better(Store(s, key, v), Store(u, key, v))
           /\ \A v : \A u : Better(s, u) => Better(Output(s, v), Output(u, v))
           /\ \A u : Better(s, u) => Better(Burn(s), u)
           /\ \A u : Better(s, u) => Better(Burn(s), Burn(u))
<1>1. FuelIn(s) \in Nat
  BY DEF Going
<1>2. ASSUME NEW u, Better(s, u)
      PROVE  /\ Going(u) /\ FuelIn(u) \in Nat /\ FuelIn(u) # 0 /\ FuelIn(u) >= FuelIn(s)
             /\ StoreIn(u) = StoreIn(s) /\ OutIn(u) = OutIn(s)
  <2>1. Going(u) /\ FuelIn(u) >= FuelIn(s) /\ StoreIn(u) = StoreIn(s) /\ OutIn(u) = OutIn(s)
    BY <1>2 DEF Better
  <2>2. FuelIn(u) \in Nat
    BY <2>1 DEF Going
  <2>3. FuelIn(u) # 0
    BY <1>1, <2>1, <2>2
  <2> QED
    BY <2>1, <2>2, <2>3
<1>3. Better(s, s)
  BY <1>1 DEF Better
<1>4. ASSUME NEW key, NEW v, NEW u, Better(s, u) PROVE Better(Store(s, key, v), Store(u, key, v))
  <2>1. PICK a, b : a = Store(s, key, v) /\ b = Store(u, key, v)
    OBVIOUS
  <2>2. StoreIn(a) = Put(StoreIn(s), key, v) /\ OutIn(a) = OutIn(s) /\ FuelIn(a) = FuelIn(s)
    BY <2>1, GoingParts
  <2>3. StoreIn(b) = Put(StoreIn(u), key, v) /\ OutIn(b) = OutIn(u) /\ FuelIn(b) = FuelIn(u) /\ Going(b)
    BY <1>2, <1>4, <2>1, GoingParts
  <2> QED
    BY <1>2, <1>4, <2>1, <2>2, <2>3 DEF Better
<1>5. ASSUME NEW v, NEW u, Better(s, u) PROVE Better(Output(s, v), Output(u, v))
  <2>1. PICK a, b : a = Output(s, v) /\ b = Output(u, v)
    OBVIOUS
  <2>2. StoreIn(a) = StoreIn(s) /\ OutIn(a) = Append(OutIn(s), v) /\ FuelIn(a) = FuelIn(s)
    BY <2>1, GoingParts
  <2>3. StoreIn(b) = StoreIn(u) /\ OutIn(b) = Append(OutIn(u), v) /\ FuelIn(b) = FuelIn(u) /\ Going(b)
    BY <1>2, <1>5, <2>1, GoingParts
  <2> QED
    BY <1>2, <1>5, <2>1, <2>2, <2>3 DEF Better
<1>6. ASSUME NEW u, Better(s, u) PROVE Better(Burn(s), u) /\ Better(Burn(s), Burn(u))
  <2>1. PICK a, b : a = Burn(s) /\ b = Burn(u)
    OBVIOUS
  <2>2. StoreIn(a) = StoreIn(s) /\ OutIn(a) = OutIn(s) /\ FuelIn(a) = FuelIn(s) - 1
    BY <2>1, GoingParts
  <2>3. StoreIn(b) = StoreIn(u) /\ OutIn(b) = OutIn(u) /\ FuelIn(b) = FuelIn(u) - 1 /\ Going(b)
    BY <1>2, <1>6, <2>1, GoingParts
  <2>4. Going(u) /\ StoreIn(u) = StoreIn(a) /\ OutIn(u) = OutIn(a) /\ FuelIn(u) >= FuelIn(a)
    BY <1>1, <1>2, <1>6, <2>2
  <2>5. StoreIn(b) = StoreIn(a) /\ OutIn(b) = OutIn(a) /\ FuelIn(b) >= FuelIn(a)
    BY <1>1, <1>2, <1>6, <2>2, <2>3
  <2> QED
    BY <2>1, <2>3, <2>4, <2>5 DEF Better
<1> QED
  BY <1>2, <1>3, <1>4, <1>5, <1>6

\* What an expression becomes, where the walk follows the run.
LEMMA ExpressionKept ==
    ASSUME NEW T, NEW S, NEW RankT, NEW RankS, NEW Inside, Language(T, S, RankT, RankS, Inside),
           NEW env, NEW sc, NEW store, IsEnv(env), IsScopes(sc), Knows(env, sc, store),
           NEW e \in T, InScope(Inside, e, sc), Fitting(Inside, e, env), NEW x, x = OptExpr(e, env)
    PROVE  /\ x \in T /\ Eval(x, store) = Eval(e, store)
           /\ EvalConst(x, env) \in Consts
           /\ IsKnown(EvalConst(x, env)) => EvalConst(x, env).v = Eval(e, store)
           /\ IsFalse(x) => Eval(e, store) # 1
           /\ IsTrue(x) => Eval(e, store) = 1
<1>1. AllExpressions(T, RankT, Inside) /\ IntMod \in Nat \ {0} /\ \A d \in T : Folded(d) /\ Evaluated(d)
  BY DEF Language
<1>2. FoldsWell(T, e)
  BY <1>1, AllFoldWell
<1>3. EvalConst(e, env) \in Consts /\ x \in T /\ EvalConst(x, env) = EvalConst(e, env)
  BY <1>2 DEF FoldsWell
<1>4. FoldsRight(Inside, e)
  BY <1>1, FoldingKeepsValue
<1>5. /\ IsKnown(EvalConst(e, env)) => EvalConst(e, env).v = Eval(e, store)
      /\ Eval(x, store) = Eval(e, store)
  BY <1>4 DEF FoldsRight
<1>6. x.k = "lit" => Eval(x, store) = x.v
  BY <1>1, <1>3, LiteralWorth
<1> QED
  BY <1>3, <1>5, <1>6 DEF IsFalse, IsTrue

LEMMA DeclKept ==
    ASSUME NEW T, NEW S, NEW RankT, NEW RankS, NEW Inside, Language(T, S, RankT, RankS, Inside),
           NEW st \in S, NEW n \in Names, NEW id \in Nat, st = Decl(n, id),
           NEW env, NEW sc, NEW s, Tracks(env, sc, s), FuelIn(s) # 0, Anew(sc, n, id),
           NEW names, NEW a, a = NodeOptStmt(st, env), NEW t, t = NodeExec(st, s)
    PROVE  Abreast(sc, names, a, s, t, Declared(sc, n, id))
<1>1. Becomes(a, << st >>, DeclareVar(env, n))
  BY SimpleWalk
<1>2. StmtsIn(a) = << st >> /\ EnvIn(a) = DeclareVar(env, n)
  BY <1>1 DEF Becomes
<1>3. IsEnv(env) /\ Depth(env) > 0 /\ IsScopes(sc) /\ Knows(env, sc, StoreIn(s)) /\ Going(s)
  BY DEF Tracks
<1>4. \A u : Better(s, u) => Better(t, NodeExec(st, u)) /\ ExecBlock(<< st >>, u) = NodeExec(st, u)
  <2> SUFFICES ASSUME NEW u, Better(s, u)
               PROVE  Better(t, NodeExec(st, u)) /\ ExecBlock(<< st >>, u) = NodeExec(st, u)
    OBVIOUS
  <2>1. ExecBlock(<< st >>, u) = NodeExec(st, u)
    BY HeadRuns
  <2>2. FuelIn(u) # 0
    BY <1>3, BetterParts
  <2>3. CASE DeclResets = FALSE
    <3>1. t = s /\ NodeExec(st, u) = u
      BY <2>2, <2>3, ExecIs
    <3> QED
      BY <2>1, <3>1
  <2>4. CASE DeclResets = TRUE
    <3>1. t = Store(s, << n, id >>, 0) /\ NodeExec(st, u) = Store(u, << n, id >>, 0)
      BY <2>2, <2>4, ExecIs
    <3>2. \A key, v : Better(Store(s, key, v), Store(u, key, v))
      BY <1>3, BetterParts
    <3> QED
      BY <2>1, <3>1, <3>2
  <2> QED
    BY <2>3, <2>4 DEF Language
<1>5. Does(<< st >>, s, t)
  BY <1>4 DEF Does
<1>6. \A i \in 1 .. Depth(sc), m \in Names : Has(sc, i, m) =>
          Val(StoreIn(t), Key(sc, i, m)) = Val(StoreIn(s), Key(sc, i, m))
  <2>1. CASE DeclResets = FALSE
    BY <2>1, ExecIs
  <2>2. CASE DeclResets = TRUE
    <3>1. StoreIn(t) = Put(StoreIn(s), << n, id >>, 0)
      BY <1>3, <2>2, ExecIs, GoingParts
    <3> SUFFICES ASSUME NEW i \in 1 .. Depth(sc), NEW m \in Names, Has(sc, i, m)
                 PROVE  Val(StoreIn(t), Key(sc, i, m)) = Val(StoreIn(s), Key(sc, i, m))
      OBVIOUS
    <3>2. Key(sc, i, m) # << n, id >>
      BY DEF Anew, Key
    <3> QED
      BY <3>1, <3>2 DEF Val, Put
  <2> QED
    BY <2>1, <2>2 DEF Language
<1>7. Knows(env, sc, StoreIn(t))
  BY <1>3, <1>6 DEF Knows, KnowsOf
<1>8. Knows(EnvIn(a), Declared(sc, n, id), StoreIn(t))
  BY <1>2, <1>3, <1>7, KnowsDeclared
<1>9. Untouched(sc, names, StoreIn(s), StoreIn(t))
  BY <1>6 DEF Untouched
<1> QED
  BY <1>2, <1>5, <1>8, <1>9 DEF Abreast

LEMMA AssignKept ==
    ASSUME NEW T, NEW S, NEW RankT, NEW RankS, NEW Inside, Language(T, S, RankT, RankS, Inside),
           NEW st \in S, NEW n \in Names, NEW id \in Nat, NEW e \in T, st = Assign(n, id, e),
           NEW env, NEW sc, NEW s, Tracks(env, sc, s), FuelIn(s) # 0,
           Resolved(sc, n, id), InScope(Inside, e, sc), Fitting(Inside, e, env),
           NEW names, n \in names, NEW a, a = NodeOptStmt(st, env), NEW t, t = NodeExec(st, s)
    PROVE  Abreast(sc, names, a, s, t, sc)
<1>1. PICK x : x = OptExpr(e, env)
  OBVIOUS
<1>2. PICK k : k = Assign(n, id, x)
  OBVIOUS
<1>3. PICK c : c = EvalConst(x, env)
  OBVIOUS
<1>4. IsEnv(env) /\ Depth(env) > 0 /\ IsScopes(sc) /\ Apart(sc) /\ Knows(env, sc, StoreIn(s)) /\ Going(s)
  BY DEF Tracks
<1>5. PICK v : v = Eval(e, StoreIn(s))
  OBVIOUS
<1>6. x \in T /\ Eval(x, StoreIn(s)) = v /\ c \in Consts /\ (IsKnown(c) => c.v = v)
  BY <1>1, <1>3, <1>4, <1>5, ExpressionKept
<1>7. Becomes(a, << k >>, AssignVar(env, n, c))
  <2>1. \A m, i, d, w : w = Assign(m, i, d) =>
           Becomes(NodeOptStmt(w, env), << Assign(m, i, OptExpr(d, env)) >>,
                   AssignVar(env, m, EvalConst(OptExpr(d, env), env)))
    BY ONLY SimpleWalk
  <2>2. Becomes(a, << Assign(n, id, OptExpr(e, env)) >>, AssignVar(env, n, EvalConst(OptExpr(e, env), env)))
    BY <2>1
  <2> QED
    BY ONLY <1>1, <1>2, <1>3, <2>2
<1>8. StmtsIn(a) = << k >> /\ EnvIn(a) = AssignVar(env, n, c)
  BY <1>7 DEF Becomes
<1>9. t = Store(s, << n, id >>, v)
  <2>1. FuelIn(s) # 0
    OBVIOUS
  <2>2. \A i, j, d : st = Assign(i, j, d) => NodeExec(st, s) = Store(s, << i, j >>, Eval(d, StoreIn(s)))
    BY ONLY <2>1, ExecIs
  <2> QED
    BY <1>5, <2>2
<1>10. StoreIn(t) = Put(StoreIn(s), << n, id >>, v)
  BY <1>4, <1>9, GoingParts
<1>11. Frame(sc, n) # 0 /\ Lookup(sc, n) = Meaning(id)
  BY DEF Resolved
<1>12. Knows(EnvIn(a), sc, StoreIn(t))
  BY <1>4, <1>6, <1>8, <1>10, <1>11, KnowsAssigned
<1>13. Untouched(sc, names, StoreIn(s), StoreIn(t))
  <2>1. Untouched(sc, {n}, StoreIn(s), StoreIn(t))
    BY <1>4, <1>10, <1>11, AssignmentTouches
  <2>2. {n} \subseteq names
    OBVIOUS
  <2> QED
    BY <2>1, <2>2, UntouchedMore
<1>14. Does(<< k >>, s, t)
  <2> SUFFICES ASSUME NEW u, Better(s, u) PROVE Better(t, ExecBlock(<< k >>, u))
    BY DEF Does
  <2>1. k \in S
    BY <1>2, <1>6 DEF Language, AllStatements, StatementOver
  <2>2. ExecBlock(<< k >>, u) = NodeExec(k, u)
    BY <2>1, HeadRuns
  <2>3. FuelIn(u) # 0 /\ StoreIn(u) = StoreIn(s)
    BY <1>4, BetterParts
  <2>4. \A i, j, d : k = Assign(i, j, d) => NodeExec(k, u) = Store(u, << i, j >>, Eval(d, StoreIn(u)))
    BY ONLY <2>3, ExecIs
  <2>5. NodeExec(k, u) = Store(u, << n, id >>, v)
    BY <1>2, <1>6, <2>3, <2>4
  <2>6. Better(Store(s, << n, id >>, v), Store(u, << n, id >>, v))
    BY <1>4, BetterParts
  <2> QED
    BY <1>9, <2>2, <2>5, <2>6
<1> QED
  BY <1>8, <1>12, <1>13, <1>14 DEF Abreast

LEMMA PrintKept ==
    ASSUME NEW T, NEW S, NEW RankT, NEW RankS, NEW Inside, Language(T, S, RankT, RankS, Inside),
           NEW st \in S, NEW e \in T, st = PrintOf(e),
           NEW env, NEW sc, NEW s, Tracks(env, sc, s), FuelIn(s) # 0,
           InScope(Inside, e, sc), Fitting(Inside, e, env),
           NEW names, NEW a, a = NodeOptStmt(st, env), NEW t, t = NodeExec(st, s)
    PROVE  Abreast(sc, names, a, s, t, sc)
<1>1. PICK x : x = OptExpr(e, env)
  OBVIOUS
<1>2. PICK k : k = PrintOf(x)
  OBVIOUS
<1>3. IsEnv(env) /\ IsScopes(sc) /\ Knows(env, sc, StoreIn(s)) /\ Going(s)
  BY DEF Tracks
<1>4. PICK v : v = Eval(e, StoreIn(s))
  OBVIOUS
<1>5. x \in T /\ Eval(x, StoreIn(s)) = v
  BY <1>1, <1>3, <1>4, ExpressionKept
<1>6. Becomes(a, << k >>, env)
  BY <1>1, <1>2, SimpleWalk
<1>7. StmtsIn(a) = << k >> /\ EnvIn(a) = env
  BY <1>6 DEF Becomes
<1>8. t = Output(s, v)
  BY <1>4, ExecIs
<1>9. StoreIn(t) = StoreIn(s)
  BY <1>3, <1>8, GoingParts
<1>10. Does(<< k >>, s, t)
  <2> SUFFICES ASSUME NEW u, Better(s, u) PROVE Better(t, ExecBlock(<< k >>, u))
    BY DEF Does
  <2>1. k \in S
    BY <1>2, <1>5 DEF Language, AllStatements, StatementOver
  <2>2. ExecBlock(<< k >>, u) = NodeExec(k, u)
    BY <2>1, HeadRuns
  <2>3. FuelIn(u) # 0 /\ StoreIn(u) = StoreIn(s)
    BY <1>3, BetterParts
  <2>4. \A d : k = PrintOf(d) => NodeExec(k, u) = Output(u, Eval(d, StoreIn(u)))
    BY ONLY <2>3, ExecIs
  <2>5. NodeExec(k, u) = Output(u, v)
    BY <1>2, <1>5, <2>3, <2>4
  <2>6. Better(Output(s, v), Output(u, v))
    BY <1>3, BetterParts
  <2> QED
    BY <1>8, <2>2, <2>5, <2>6
<1>11. Untouched(sc, names, StoreIn(s), StoreIn(t))
  BY <1>9, UntouchedSame
<1> QED
  BY <1>3, <1>7, <1>9, <1>10, <1>11 DEF Abreast

LEMMA DoesNothing ==
    ASSUME NEW T, NEW S, NEW RankT, NEW RankS, NEW Inside, Language(T, S, RankT, RankS, Inside)
    PROVE  \A s : Does(<< >>, s, s)
  BY HeadRuns DEF Does

LEMMA DoesInBlock ==
    ASSUME NEW T, NEW S, NEW RankT, NEW RankS, NEW Inside, Language(T, S, RankT, RankS, Inside),
           NEW p \in Seq(S), NEW s, Going(s), FuelIn(s) # 0, NEW t, Does(p, s, t)
    PROVE  Block(p) \in S /\ Does(<< Block(p) >>, s, t)
<1>1. PICK k : k = Block(p)
  OBVIOUS
<1>2. k \in S
  BY <1>1 DEF Language, AllStatements, StatementOver
<1>3. ASSUME NEW u, Better(s, u) PROVE Better(t, ExecBlock(<< k >>, u))
  <2>1. ExecBlock(<< k >>, u) = NodeExec(k, u)
    BY <1>2, HeadRuns
  <2>2. FuelIn(u) # 0
    BY <1>3, BetterParts
  <2>3. NodeExec(k, u) = ExecBlock(p, u)
    BY ONLY <1>1, <2>2, ExecIs
  <2> QED
    BY <1>3, <2>1, <2>3 DEF Does
<1> QED
  BY <1>1, <1>2, <1>3 DEF Does

\* C are the sequences of statements, each with the scopes it stands in, and W are
\* those that are walked, each with the environment the walk comes with.
StaysAbreast(C, W, q) ==
    \A env, sc, s, t :
        << q, sc >> \in C /\ << q, env >> \in W /\ Tracks(env, sc, s)
        /\ t = ExecBlock(q, s) /\ FuelIn(t) # 0 =>
            Abreast(sc, Assigned(q), LeaveScope(OptStmts(q, env)), s, t, Leave(sc))

\* A body in a scope of its own.
LEMMA BodyKept ==
    ASSUME NEW C, NEW W, NEW b, StaysAbreast(C, W, b),
           NEW env, NEW sc, NEW s, Tracks(env, sc, s), << b, Enter(sc) >> \in C, << b, Enter(env) >> \in W,
           NEW names, Assigned(b) \subseteq names, NEW r, r = OptStmts(b, Enter(env)),
           NEW t, t = ExecBlock(b, s), FuelIn(t) # 0
    PROVE  Abreast(sc, names, LeaveScope(r), s, t, sc)
<1>1. IsEnv(env) /\ Depth(env) > 0 /\ IsScopes(sc) /\ Apart(sc) /\ Knows(env, sc, StoreIn(s)) /\ Going(s)
  BY DEF Tracks
<1>2. PICK e, i : e = Enter(env) /\ i = Enter(sc)
  OBVIOUS
<1>3. IsEnv(e) /\ IsScopes(i) /\ Depth(e) = Depth(env) + 1 /\ Knows(e, i, StoreIn(s))
  BY <1>1, <1>2, KnowsEntered
<1>4. Depth(e) > 0
  BY <1>1, <1>2, InsideParts
<1>5. Apart(i)
  BY <1>1, <1>2, ApartEntered
<1>6. Tracks(e, i, s)
  BY <1>1, <1>3, <1>4, <1>5 DEF Tracks
<1>7. Abreast(i, Assigned(b), LeaveScope(r), s, t, Leave(i))
  BY <1>2, <1>6 DEF StaysAbreast
<1>8. Leave(i) = sc
  BY <1>1, <1>2, LeftAsBefore
<1>9. Untouched(sc, names, StoreIn(s), StoreIn(t))
  <2>1. Untouched(i, Assigned(b), StoreIn(s), StoreIn(t))
    BY <1>7 DEF Abreast
  <2>2. Extends(i, sc)
    BY <1>1, <1>2, EnteredExtends
  <2>3. Untouched(sc, Assigned(b), StoreIn(s), StoreIn(t))
    BY ONLY <1>1, <1>3, <2>1, <2>2, UntouchedOutside
  <2>4. Assigned(b) \subseteq names
    OBVIOUS
  <2> QED
    BY ONLY <2>3, <2>4, UntouchedMore
<1> QED
  BY <1>7, <1>8, <1>9 DEF Abreast

LEMMA BlockKept ==
    ASSUME NEW T, NEW S, NEW RankT, NEW RankS, NEW Inside, Language(T, S, RankT, RankS, Inside),
           NEW C, NEW W, NEW b \in Seq(S), StaysAbreast(C, W, b), NEW st, st = Block(b),
           NEW env, NEW sc, NEW s, Tracks(env, sc, s), FuelIn(s) # 0,
           << b, Enter(sc) >> \in C, << b, Enter(env) >> \in W,
           NEW names, Assigned(b) \subseteq names, NEW a, a = NodeOptStmt(st, env),
           NEW t, t = NodeExec(st, s), FuelIn(t) # 0
    PROVE  Abreast(sc, names, a, s, t, sc)
<1>1. PICK r : r = OptStmts(b, Enter(env))
  OBVIOUS
<1>2. Becomes(a, << Block(StmtsIn(r)) >>, Leave(EnvIn(r)))
  BY <1>1, BlockWalk
<1>3. IsEnv(env) /\ Going(s) /\ FuelIn(s) # 0
  BY DEF Tracks
<1>4. t = ExecBlock(b, s)
  <2>1. st = Block(b) /\ t = NodeExec(st, s)
    OBVIOUS
  <2> QED
    BY ONLY <1>3, <2>1, ExecIs
<1>5. Abreast(sc, names, LeaveScope(r), s, t, sc)
  BY <1>1, <1>4, BodyKept
<1>6. StmtsIn(LeaveScope(r)) = StmtsIn(r) /\ EnvIn(LeaveScope(r)) = Leave(EnvIn(r))
  BY ResultParts DEF Becomes
<1>7. StmtsIn(r) \in Seq(S)
  <2>1. WalksOn(S, b)
    BY AllWalk
  <2> QED
    BY <1>1, <1>3, <2>1, BodyWalks
<1>8. Does(StmtsIn(r), s, t)
  BY <1>5, <1>6 DEF Abreast
<1>9. Does(<< Block(StmtsIn(r)) >>, s, t)
  BY <1>3, <1>7, <1>8, DoesInBlock
<1> QED
  BY <1>2, <1>5, <1>6, <1>9 DEF Abreast, Becomes

\* A branch that is never taken, always taken, or kept.
LEMMA IfKept ==
    ASSUME NEW T, NEW S, NEW RankT, NEW RankS, NEW Inside, Language(T, S, RankT, RankS, Inside),
           NEW C, NEW W, NEW b \in Seq(S), StaysAbreast(C, W, b), NEW c \in T, NEW st, st = If(c, b),
           NEW env, NEW sc, NEW s, Tracks(env, sc, s), FuelIn(s) # 0,
           InScope(Inside, c, sc), Fitting(Inside, c, env), << b, Enter(sc) >> \in C,
           NEW x, x = OptExpr(c, env), ~IsFalse(x) => << b, Enter(env) >> \in W,
           NEW names, Assigned(b) \subseteq names, NEW a, a = NodeOptStmt(st, env),
           NEW t, t = NodeExec(st, s), FuelIn(t) # 0
    PROVE  Abreast(sc, names, a, s, t, sc)
<1>1. PICK r : r = OptStmts(b, Enter(env))
  OBVIOUS
<1>2. IsEnv(env) /\ Depth(env) > 0 /\ IsScopes(sc) /\ Knows(env, sc, StoreIn(s)) /\ Going(s) /\ FuelIn(s) # 0
  BY DEF Tracks
<1>3. /\ x \in T /\ Eval(x, StoreIn(s)) = Eval(c, StoreIn(s))
      /\ IsFalse(x) => Eval(c, StoreIn(s)) # 1
      /\ IsTrue(x) => Eval(c, StoreIn(s)) = 1
  BY <1>2, ExpressionKept
<1>4. t = IF Eval(c, StoreIn(s)) = 1 THEN ExecBlock(b, s) ELSE s
  <2>1. st = If(c, b) /\ t = NodeExec(st, s)
    OBVIOUS
  <2> QED
    BY ONLY <1>2, <2>1, ExecIs
<1>5. /\ IsFalse(x) => Becomes(a, << >>, env)
      /\ ~IsFalse(x) /\ IsTrue(x) => Becomes(a, << Block(StmtsIn(r)) >>, Leave(EnvIn(r)))
      /\ ~IsFalse(x) /\ ~IsTrue(x) => Becomes(a, << If(x, StmtsIn(r)) >>, AfterBody(env, Assigned(b)))
  BY <1>1, BlockWalk
<1>6. StmtsIn(r) \in Seq(S)
  <2>1. WalksOn(S, b)
    BY AllWalk
  <2> QED
    BY <1>1, <1>2, <2>1, BodyWalks
<1>7. ~IsFalse(x) /\ Eval(c, StoreIn(s)) = 1 =>
         /\ \A more : Assigned(b) \subseteq more => Untouched(sc, more, StoreIn(s), StoreIn(t))
         /\ Does(StmtsIn(r), s, t) /\ Knows(Leave(EnvIn(r)), sc, StoreIn(t))
  <2> SUFFICES ASSUME ~IsFalse(x), Eval(c, StoreIn(s)) = 1, NEW more, Assigned(b) \subseteq more
               PROVE  /\ Untouched(sc, more, StoreIn(s), StoreIn(t))
                      /\ Does(StmtsIn(r), s, t) /\ Knows(Leave(EnvIn(r)), sc, StoreIn(t))
    OBVIOUS
  <2>1. t = ExecBlock(b, s)
    BY <1>4
  <2>2. Abreast(sc, more, LeaveScope(r), s, t, sc)
    BY <1>1, <2>1, BodyKept
  <2>3. StmtsIn(LeaveScope(r)) = StmtsIn(r) /\ EnvIn(LeaveScope(r)) = Leave(EnvIn(r))
    BY ResultParts DEF Becomes
  <2> QED
    BY <2>2, <2>3 DEF Abreast
<1>8. Eval(c, StoreIn(s)) # 1 => t = s /\ \A more : Untouched(sc, more, StoreIn(s), StoreIn(t))
  BY <1>4, UntouchedSame
<1>9. CASE IsFalse(x)
  <2>1. t = s /\ Untouched(sc, names, StoreIn(s), StoreIn(t))
    BY <1>3, <1>8, <1>9
  <2>2. Does(<< >>, s, t)
    BY <2>1, DoesNothing
  <2> QED
    BY <1>2, <1>5, <1>9, <2>1, <2>2 DEF Abreast, Becomes
<1>10. CASE ~IsFalse(x) /\ IsTrue(x)
  <2>1. /\ Untouched(sc, names, StoreIn(s), StoreIn(t))
        /\ Does(StmtsIn(r), s, t) /\ Knows(Leave(EnvIn(r)), sc, StoreIn(t))
    BY <1>3, <1>7, <1>10
  <2>2. Does(<< Block(StmtsIn(r)) >>, s, t)
    BY <1>2, <1>6, <2>1, DoesInBlock
  <2> QED
    BY <1>5, <1>10, <2>1, <2>2 DEF Abreast, Becomes
<1>11. CASE ~IsFalse(x) /\ ~IsTrue(x)
  <2>1. Untouched(sc, Assigned(b), StoreIn(s), StoreIn(t)) /\ Untouched(sc, names, StoreIn(s), StoreIn(t))
    BY <1>7, <1>8, <1>11
  <2>2. Knows(AfterBody(env, Assigned(b)), sc, StoreIn(t))
    BY <1>2, <2>1, KnowsAfterBody
  <2>3. PICK k : k = If(x, StmtsIn(r))
    OBVIOUS
  <2>4. Does(<< k >>, s, t)
    <3> SUFFICES ASSUME NEW u, Better(s, u) PROVE Better(t, ExecBlock(<< k >>, u))
      BY DEF Does
    <3>1. k \in S
      BY <1>3, <1>6, <2>3 DEF Language, AllStatements, StatementOver
    <3>2. ExecBlock(<< k >>, u) = NodeExec(k, u)
      BY <3>1, HeadRuns
    <3>3. FuelIn(u) # 0 /\ StoreIn(u) = StoreIn(s)
      BY <1>2, BetterParts
    <3>4. NodeExec(k, u) = IF Eval(x, StoreIn(u)) = 1 THEN ExecBlock(StmtsIn(r), u) ELSE u
      BY ONLY <2>3, <3>3, ExecIs
    <3>5. CASE Eval(c, StoreIn(s)) = 1
      <4>1. Does(StmtsIn(r), s, t)
        BY <1>7, <1>11, <3>5
      <4> QED
        BY <1>3, <3>2, <3>3, <3>4, <3>5, <4>1 DEF Does
    <3>6. CASE Eval(c, StoreIn(s)) # 1
      BY <1>3, <1>8, <3>2, <3>3, <3>4, <3>6
    <3> QED
      BY <3>5, <3>6
  <2> QED
    BY <1>5, <1>11, <2>1, <2>2, <2>3, <2>4 DEF Abreast, Becomes
<1> QED
  BY <1>9, <1>10, <1>11

(***************************************************************************)
(* A loop that is kept.                                                    *)
(***************************************************************************)
\* The environment for every turn of a loop around the body b.
LEMMA StableTracks ==
    ASSUME NEW env, NEW sc, NEW first, Tracks(env, sc, first), NEW names,
           NEW stable, stable = AfterBody(env, names),
           NEW s, Going(s), Untouched(sc, names, StoreIn(first), StoreIn(s))
    PROVE  Tracks(stable, sc, s)
<1>1. IsEnv(env) /\ Depth(env) > 0 /\ IsScopes(sc) /\ Apart(sc) /\ Knows(env, sc, StoreIn(first))
  BY DEF Tracks
<1>2. IsEnv(stable) /\ Depth(stable) = Depth(env)
  BY <1>1, EnvParts
<1>3. Knows(stable, sc, StoreIn(s))
  BY <1>1, KnowsAfterBody
<1> QED
  BY <1>1, <1>2, <1>3 DEF Tracks

LEMMA LoopKept ==
    ASSUME NEW T, NEW S, NEW RankT, NEW RankS, NEW Inside, Language(T, S, RankT, RankS, Inside),
           NEW C, NEW W, NEW b \in Seq(S), StaysAbreast(C, W, b), NEW c \in T, NEW w \in S, w = While(c, b),
           NEW env, NEW sc, NEW first, Tracks(env, sc, first),
           NEW names, names = Assigned(b), NEW stable, stable = AfterBody(env, names),
           InScope(Inside, c, sc), Fitting(Inside, c, stable),
           << b, Enter(sc) >> \in C, << b, Enter(stable) >> \in W,
           NEW x, x = OptExpr(c, stable), NEW r, r = OptStmts(b, Enter(stable)),
           NEW v \in S, v = While(x, StmtsIn(r))
    PROVE  \A k \in Nat : \A s, t :
              Going(s) /\ Untouched(sc, names, StoreIn(first), StoreIn(s)) /\ t = Loop(w, s, k) /\ FuelIn(t) # 0 =>
                 /\ Going(t) /\ Untouched(sc, names, StoreIn(first), StoreIn(t))
                 /\ \A u : Better(s, u) => Better(t, Loop(v, u, k))
<1>1. \A s : Going(s) /\ Untouched(sc, names, StoreIn(first), StoreIn(s)) =>
          Tracks(stable, sc, s) /\ Eval(x, StoreIn(s)) = Eval(c, StoreIn(s))
  <2> SUFFICES ASSUME NEW s, Going(s), Untouched(sc, names, StoreIn(first), StoreIn(s))
               PROVE  Tracks(stable, sc, s) /\ Eval(x, StoreIn(s)) = Eval(c, StoreIn(s))
    OBVIOUS
  <2>1. Tracks(stable, sc, s)
    BY StableTracks
  <2>2. IsEnv(stable) /\ IsScopes(sc) /\ Knows(stable, sc, StoreIn(s))
    BY <2>1 DEF Tracks
  <2> QED
    BY <2>1, <2>2, ExpressionKept
<1>2. /\ \A s : \A k \in Nat : FuelIn(s) = 0 => Loop(w, s, k) = s
      /\ \A s : \A k \in Nat : Eval(c, StoreIn(s)) # 1 => Loop(w, s, k) = s
      /\ \A s : FuelIn(s) # 0 /\ Eval(c, StoreIn(s)) = 1 =>
            /\ Loop(w, s, 0) = ExecBlock(b, Burn(s))
            /\ \A k \in Nat : Loop(w, s, k + 1) = Loop(w, Loop(w, s, k), k)
  <2>1. \A s : \A k \in Nat : Loop(w, s, k) = NodeLoop(w, s, k)
    BY HeadRuns
  <2>2. w = While(c, b)
    OBVIOUS
  <2> QED
    BY ONLY <2>1, <2>2, LoopIs
<1>3. /\ \A s : \A k \in Nat : Eval(x, StoreIn(s)) # 1 => Loop(v, s, k) = s
      /\ \A s : FuelIn(s) # 0 /\ Eval(x, StoreIn(s)) = 1 =>
            /\ Loop(v, s, 0) = ExecBlock(StmtsIn(r), Burn(s))
            /\ \A k \in Nat : Loop(v, s, k + 1) = Loop(v, Loop(v, s, k), k)
  <2>1. \A s : \A k \in Nat : Loop(v, s, k) = NodeLoop(v, s, k)
    BY HeadRuns
  <2>2. v = While(x, StmtsIn(r))
    OBVIOUS
  <2> QED
    BY ONLY <2>1, <2>2, LoopIs
<1>4. \A k \in Nat : \A s : Going(s) => Going(Loop(w, s, k))
  <2>1. Lasts(b) /\ \A s : \A k \in Nat : Loop(w, s, k) = NodeLoop(w, s, k)
    BY HeadRuns, AllLast
  <2>2. w = While(c, b)
    OBVIOUS
  <2> QED
    BY ONLY <2>1, <2>2, LoopLasts
<1>6. PICK K : K = {k \in Nat : \A s, t :
              Going(s) /\ Untouched(sc, names, StoreIn(first), StoreIn(s)) /\ t = Loop(w, s, k) /\ FuelIn(t) # 0 =>
                 /\ Going(t) /\ Untouched(sc, names, StoreIn(first), StoreIn(t))
                 /\ \A u : Better(s, u) => Better(t, Loop(v, u, k))}
  OBVIOUS
<1>7. ASSUME NEW s, Going(s), Untouched(sc, names, StoreIn(first), StoreIn(s)), FuelIn(s) # 0,
             Eval(c, StoreIn(s)) # 1, NEW k \in Nat
      PROVE  Loop(w, s, k) = s /\ \A u : Better(s, u) => Better(s, Loop(v, u, k))
  <2>1. Loop(w, s, k) = s
    BY <1>2, <1>7
  <2>2. ASSUME NEW u, Better(s, u) PROVE Loop(v, u, k) = u
    <3>1. StoreIn(u) = StoreIn(s)
      BY <1>7, <2>2, BetterParts
    <3> QED
      BY <1>1, <1>3, <1>7, <3>1
  <2> QED
    BY <2>1, <2>2
<1>8. 0 \in K
  <2> SUFFICES ASSUME NEW s, Going(s), Untouched(sc, names, StoreIn(first), StoreIn(s)),
                      NEW t, t = Loop(w, s, 0), FuelIn(t) # 0
               PROVE  /\ Going(t) /\ Untouched(sc, names, StoreIn(first), StoreIn(t))
                      /\ \A u : Better(s, u) => Better(t, Loop(v, u, 0))
    BY <1>6
  <2>1. FuelIn(s) # 0
    BY <1>2
  <2>2. CASE Eval(c, StoreIn(s)) # 1
    BY <1>7, <2>1, <2>2
  <2>3. CASE Eval(c, StoreIn(s)) = 1
    <3>1. PICK f : f = Burn(s)
      OBVIOUS
    <3>2. StoreIn(f) = StoreIn(s) /\ Going(f)
      BY <2>1, <3>1, GoingParts
    <3>3. t = ExecBlock(b, f)
      BY <1>2, <2>1, <2>3, <3>1
    <3>4. Tracks(stable, sc, f)
      BY <1>1, <3>2
    <3>5. Abreast(sc, names, LeaveScope(r), f, t, sc)
      BY <3>3, <3>4, BodyKept
    <3>6. Untouched(sc, names, StoreIn(f), StoreIn(t)) /\ Does(StmtsIn(r), f, t)
      BY <3>5, ResultParts DEF Abreast, Becomes
    <3>7. Untouched(sc, names, StoreIn(first), StoreIn(t))
      <4>1. Untouched(sc, names, StoreIn(first), StoreIn(f))
        BY <3>2
      <4> QED
        BY ONLY <3>6, <4>1, UntouchedTwice
    <3>8. ASSUME NEW u, Better(s, u) PROVE Better(t, Loop(v, u, 0))
      <4>1. FuelIn(u) # 0 /\ StoreIn(u) = StoreIn(s) /\ Better(f, Burn(u))
        BY <2>1, <3>1, <3>8, BetterParts
      <4>2. Eval(x, StoreIn(u)) = 1
        BY <1>1, <2>3, <4>1
      <4>3. Loop(v, u, 0) = ExecBlock(StmtsIn(r), Burn(u))
        BY <1>3, <4>1, <4>2
      <4> QED
        BY <3>6, <4>1, <4>3 DEF Does
    <3>9. Going(t)
      BY <1>4
    <3> QED
      BY <3>7, <3>8, <3>9
  <2> QED
    BY <2>2, <2>3
<1>9. ASSUME NEW k \in Nat, k \in K PROVE k + 1 \in K
  <2>1. k + 1 \in Nat
    OBVIOUS
  <2>2. \A s, t :
           Going(s) /\ Untouched(sc, names, StoreIn(first), StoreIn(s)) /\ t = Loop(w, s, k) /\ FuelIn(t) # 0 =>
              /\ Going(t) /\ Untouched(sc, names, StoreIn(first), StoreIn(t))
              /\ \A u : Better(s, u) => Better(t, Loop(v, u, k))
    BY <1>6, <1>9
  <2> SUFFICES ASSUME NEW s, Going(s), Untouched(sc, names, StoreIn(first), StoreIn(s)),
                      NEW t, t = Loop(w, s, k + 1), FuelIn(t) # 0
               PROVE  /\ Going(t) /\ Untouched(sc, names, StoreIn(first), StoreIn(t))
                      /\ \A u : Better(s, u) => Better(t, Loop(v, u, k + 1))
    BY <1>6, <2>1
  <2>3. FuelIn(s) # 0
    BY <1>2, <2>1
  <2>4. CASE Eval(c, StoreIn(s)) # 1
    BY <1>7, <2>1, <2>3, <2>4
  <2>5. CASE Eval(c, StoreIn(s)) = 1
    <3>1. PICK h : h = Loop(w, s, k)
      OBVIOUS
    <3>2. t = Loop(w, h, k)
      BY <1>2, <2>3, <2>5, <3>1
    <3>3. FuelIn(h) # 0
      BY <1>2, <3>2
    <3>4. /\ Going(h) /\ Untouched(sc, names, StoreIn(first), StoreIn(h))
          /\ \A u : Better(s, u) => Better(h, Loop(v, u, k))
      BY <2>2, <3>1, <3>3
    <3>5. /\ Going(t) /\ Untouched(sc, names, StoreIn(first), StoreIn(t))
          /\ \A u : Better(h, u) => Better(t, Loop(v, u, k))
      BY <2>2, <3>2, <3>4
    <3>6. ASSUME NEW u, Better(s, u) PROVE Better(t, Loop(v, u, k + 1))
      <4>1. FuelIn(u) # 0 /\ StoreIn(u) = StoreIn(s)
        BY <2>3, <3>6, BetterParts
      <4>2. Eval(x, StoreIn(u)) = 1
        BY <1>1, <2>5, <4>1
      <4>3. Loop(v, u, k + 1) = Loop(v, Loop(v, u, k), k)
        BY <1>3, <4>1, <4>2
      <4> QED
        BY <3>4, <3>5, <3>6, <4>3
    <3> QED
      BY <3>5, <3>6
  <2> QED
    BY <2>4, <2>5
<1>10. Nat \subseteq K
  BY <1>8, <1>9, EveryNumber
<1> QED
  BY <1>6, <1>10

(***************************************************************************)
(* A loop that is unrolled.                                                *)
(***************************************************************************)
\* Its variable holds the limit when no turn is left, and only then.
LEMMA LimitReached ==
    ASSUME NEW T, NEW S, NEW RankT, NEW RankS, NEW Inside, Language(T, S, RankT, RankS, Inside),
           NEW c \in T, NEW b, NEW n, NEW id, NEW limit, NEW step, Counter(c, b, n, id, limit, step),
           NEW env, NEW sc, NEW store, IsEnv(env), IsScopes(sc), Knows(env, sc, store),
           InScope(Inside, c, sc), NEW j \in Nat, TurnsAway(env, n, limit, step, j)
    PROVE  Eval(c, store) = IF j = 0 THEN 0 ELSE 1
<1>1. AllExpressions(T, RankT, Inside) /\ \A d \in T : Folded(d) /\ Evaluated(d)
  BY DEF Language
<1>2. n \in Names /\ limit \in Nat /\ step \in Nat \ {0} /\ c = Compare("!=", Var(n, id), Lit("int", limit))
  BY DEF Counter
<1>3. PICK l, m : l = Var(n, id) /\ m = Lit("int", limit)
  OBVIOUS
<1>4. c.k = "cmp" /\ c.op = "!=" /\ c.l = l /\ c.r = m
  BY <1>2, <1>3 DEF Compare
<1>5. l \in T /\ m \in T
  BY <1>1, <1>4, ByKind
<1>6. l.k = "var" /\ l.name = n /\ l.scope = id /\ m.k = "lit" /\ m.v = limit
  BY <1>3 DEF Var, Lit
<1>7. l \in Inside[c]
  BY <1>1, <1>4, <1>5 DEF AllExpressions
<1>8. Resolved(sc, n, id)
  BY <1>6, <1>7 DEF InScope
<1>9. PICK cur \in Nat : Lookup(env, n) = Const("int", cur) /\ cur + j * step = limit
  BY DEF TurnsAway
<1>10. Val(store, << n, id >>) = cur
  <2>1. IsKnown(Lookup(env, n)) /\ Lookup(env, n).v = cur
    <3>1. "int" \in Kinds
      BY DEF Kinds
    <3> QED
      BY <1>9, <3>1, EntryKinds
  <2>2. IsKnown(Lookup(env, n)) => Lookup(env, n).v = Val(store, << n, id >>)
    BY <1>2, <1>8, LookupKnows
  <2> QED
    BY <2>1, <2>2
<1>11. Eval(l, store) = cur
  <2>1. Eval(l, store) = NodeValue(l, store)
    BY <1>1, <1>5 DEF Evaluated, Meant
  <2>2. NodeValue(l, store) = Val(store, << n, id >>)
    BY <1>6 DEF NodeValue, EvalOf, ValueOf, Val
  <2> QED
    BY <1>10, <2>1, <2>2
<1>12. Eval(m, store) = limit
  BY <1>1, <1>5, <1>6, LiteralWorth
<1>13. Eval(c, store) = IF cur = limit THEN 0 ELSE 1
  <2>1. Eval(c, store) = NodeValue(c, store)
    BY <1>1 DEF Evaluated, Meant
  <2> QED
    BY <1>4, <1>11, <1>12, <2>1 DEF NodeValue, EvalOf
<1>14. cur = limit <=> j = 0
  <2>1. CASE j = 0
    <3>1. j * step = 0
      BY <1>2, <2>1
    <3> QED
      BY <1>9, <2>1, <3>1
  <2>2. CASE j # 0
    <3>1. PICK i \in Nat : j = i + 1
      <4>1. j - 1 \in Nat /\ j = (j - 1) + 1
        BY <2>2
      <4> QED
        BY <4>1
    <3>2. i * step \in Nat /\ j * step = i * step + step
      BY <1>2, <3>1
    <3>3. PICK p \in Nat : p = i * step
      BY <3>2
    <3>4. cur + (p + step) = limit
      BY <1>9, <3>2, <3>3
    <3> QED
      BY <1>2, <2>2, <3>4
  <2> QED
    BY <2>1, <2>2
<1> QED
  BY <1>13, <1>14

\* V is the set of the turns that are walked, each with the environment the walk
\* comes with and the turns that are left.
Turning(V, c, b) ==
    \A env : \A j \in Nat : << While(c, b), env, j + 1 >> \in V =>
        << While(c, b), Leave(EnvIn(OptStmts(b, Enter(env)))), j >> \in V

\* Where the run s is, j turns of the loop w are still to be written out.
Ahead(V, w, env, sc, j, s, n, limit, step) ==
    << w, env, j >> \in V /\ Tracks(env, sc, s) /\ TurnsAway(env, n, limit, step, j)

\* The turns from env on do what takes s to t, then the turns from e on.
Onward(sc, names, w, env, j, s, e, i, t) ==
    /\ Untouched(sc, names, StoreIn(s), StoreIn(t))
    /\ EnvIn(Unrolled(w, env, j)) = EnvIn(Unrolled(w, e, i))
    /\ \A u : Better(s, u) => \E v :
          /\ Better(t, v)
          /\ ExecBlock(StmtsIn(Unrolled(w, env, j)), u) = ExecBlock(StmtsIn(Unrolled(w, e, i)), v)

LEMMA OnwardTwice ==
    ASSUME NEW sc, NEW names, NEW w, NEW env, NEW j, NEW s, NEW e, NEW i, NEW t, NEW f, NEW h, NEW r,
           Onward(sc, names, w, env, j, s, e, i, t), Onward(sc, names, w, e, i, t, f, h, r)
    PROVE  Onward(sc, names, w, env, j, s, f, h, r)
<1>1. Untouched(sc, names, StoreIn(s), StoreIn(t)) /\ Untouched(sc, names, StoreIn(t), StoreIn(r))
  BY DEF Onward
<1>2. Untouched(sc, names, StoreIn(s), StoreIn(r))
  BY <1>1, UntouchedTwice
<1> QED
  BY <1>2 DEF Onward

LEMMA TurnOnward ==
    ASSUME NEW T, NEW S, NEW RankT, NEW RankS, NEW Inside, Language(T, S, RankT, RankS, Inside),
           NEW C, NEW W, NEW b \in Seq(S), StaysAbreast(C, W, b), NEW c \in T, NEW w \in S, w = While(c, b),
           NEW n, NEW id, NEW limit, NEW step, Counter(c, b, n, id, limit, step), Uncaptured(b, n),
           NEW names, names = Assigned(b), NEW V, Turning(V, c, b),
           NEW env, NEW sc, NEW j \in Nat, NEW m, m = j + 1, NEW s, Ahead(V, w, env, sc, m, s, n, limit, step),
           << b, Enter(sc) >> \in C, << b, Enter(env) >> \in W,
           FuelIn(s) # 0, NEW t, t = ExecBlock(b, Burn(s)), FuelIn(t) # 0
    PROVE  \E e : Ahead(V, w, e, sc, j, t, n, limit, step) /\ Onward(sc, names, w, env, m, s, e, j, t)
<1>1. Tracks(env, sc, s) /\ TurnsAway(env, n, limit, step, j + 1) /\ << w, env, j + 1 >> \in V
  BY DEF Ahead
<1>2. IsEnv(env) /\ Depth(env) > 0 /\ IsScopes(sc) /\ Apart(sc) /\ Knows(env, sc, StoreIn(s)) /\ Going(s)
  BY <1>1 DEF Tracks
<1>3. PICK f : f = Burn(s)
  OBVIOUS
<1>4. StoreIn(f) = StoreIn(s) /\ Going(f)
  BY <1>2, <1>3, GoingParts
<1>5. Tracks(env, sc, f)
  BY <1>2, <1>4 DEF Tracks
<1>6. PICK r : r = OptStmts(b, Enter(env))
  OBVIOUS
<1>7. PICK e : e = Leave(EnvIn(r))
  OBVIOUS
<1>8. Abreast(sc, names, LeaveScope(r), f, t, sc)
  <2>1. t = ExecBlock(b, f) /\ Assigned(b) \subseteq names
    BY <1>3
  <2> QED
    BY <1>5, <1>6, <2>1, BodyKept
<1>9. Untouched(sc, names, StoreIn(s), StoreIn(t)) /\ Does(StmtsIn(r), f, t) /\ Knows(e, sc, StoreIn(t))
  BY <1>4, <1>7, <1>8, ResultParts DEF Abreast, Becomes
<1>10. StmtsIn(r) \in Seq(S) /\ IsEnv(e) /\ Depth(e) = Depth(env)
  <2>1. WalksOn(S, b)
    BY AllWalk
  <2> QED
    BY <1>2, <1>6, <1>7, <2>1, BodyWalks
<1>11. Going(t)
  <2>1. Lasts(b)
    BY AllLast
  <2> QED
    BY <1>3, <1>4, <2>1 DEF Lasts
<1>12. Ahead(V, w, e, sc, j, t, n, limit, step)
  <2>1. Tracks(e, sc, t)
    BY <1>2, <1>9, <1>10, <1>11 DEF Tracks
  <2>2. TurnsAway(e, n, limit, step, j)
    BY <1>1, <1>2, <1>6, <1>7, NextTurn
  <2>3. << w, e, j >> \in V
    BY <1>1, <1>6, <1>7 DEF Turning
  <2> QED
    BY <2>1, <2>2, <2>3 DEF Ahead
<1>13. PICK rest : rest = Unrolled(w, e, j)
  OBVIOUS
<1>14. Becomes(Unrolled(w, env, j + 1), << Block(StmtsIn(r)) >> \o StmtsIn(rest), EnvIn(rest))
  <2>1. \A i \in Nat : \A u : u = Unrolled(w, Leave(EnvIn(r)), i) =>
           Becomes(NodeUnrolled(w, env, i + 1), << Block(StmtsIn(r)) >> \o StmtsIn(u), EnvIn(u))
    BY <1>6, TurnsWalk
  <2>2. Becomes(NodeUnrolled(w, env, j + 1), << Block(StmtsIn(r)) >> \o StmtsIn(rest), EnvIn(rest))
    BY <1>7, <1>13, <2>1
  <2>3. j + 1 \in Nat
    OBVIOUS
  <2>4. Unrolled(w, env, j + 1) = NodeUnrolled(w, env, j + 1)
    BY <1>2, <2>3, WalkIs
  <2> QED
    BY <2>2, <2>4
<1>15. PICK k : k = Block(StmtsIn(r))
  OBVIOUS
<1>16. k \in S /\ << k >> \in Seq(S)
  <2>1. AllStatements(T, S, RankS)
    BY DEF Language
  <2>2. k \in S
    BY <1>10, <1>15, <2>1 DEF AllStatements, StatementOver
  <2> QED
    BY <2>1, <2>2, ListParts
<1>17. StmtsIn(rest) \in Seq(S)
  <2>1. WalksOn(S, b)
    BY AllWalk
  <2>2. Walks(S, e, rest)
    BY <1>10, <1>13, <2>1, UnrolledWalks
  <2> QED
    BY <2>2 DEF Walks
<1>18. ASSUME NEW u, Better(s, u)
       PROVE  \E v : Better(t, v) /\ ExecBlock(StmtsIn(Unrolled(w, env, j + 1)), u) = ExecBlock(StmtsIn(rest), v)
  <2>1. PICK v : v = ExecBlock(<< k >>, u)
    OBVIOUS
  <2>2. FuelIn(u) # 0 /\ Better(f, u)
    BY <1>2, <1>3, <1>18, BetterParts
  <2>3. v = ExecBlock(StmtsIn(r), u)
    <3>1. v = NodeExec(k, u)
      BY <1>16, <2>1, HeadRuns
    <3>2. NodeExec(k, u) = ExecBlock(StmtsIn(r), u)
      BY ONLY <1>15, <2>2, ExecIs
    <3> QED
      BY <3>1, <3>2
  <2>4. Better(t, v)
    BY <1>9, <2>2, <2>3 DEF Does
  <2>5. ExecBlock(<< k >> \o StmtsIn(rest), u) = ExecBlock(StmtsIn(rest), v)
    <3>1. Language(T, S, RankT, RankS, Inside)
      OBVIOUS
    <3>2. \A p, q \in Seq(S) : \A a : ExecBlock(p \o q, a) = ExecBlock(q, ExecBlock(p, a))
      BY ONLY <3>1, ConcatRuns
    <3> QED
      BY <1>16, <1>17, <2>1, <3>2
  <2>6. StmtsIn(Unrolled(w, env, j + 1)) = << k >> \o StmtsIn(rest)
    BY <1>14, <1>15 DEF Becomes
  <2> QED
    BY <2>4, <2>5, <2>6
<1>19. EnvIn(Unrolled(w, env, j + 1)) = EnvIn(rest)
  BY <1>14 DEF Becomes
<1>20. Onward(sc, names, w, env, j + 1, s, e, j, t)
  BY ONLY <1>9, <1>13, <1>18, <1>19 DEF Onward
<1>21. Onward(sc, names, w, env, m, s, e, j, t)
  BY <1>20
<1> QED
  BY <1>12, <1>21

LEMMA LoopOnward ==
    ASSUME NEW T, NEW S, NEW RankT, NEW RankS, NEW Inside, Language(T, S, RankT, RankS, Inside),
           NEW C, NEW W, NEW b \in Seq(S), StaysAbreast(C, W, b), NEW c \in T, NEW w \in S, w = While(c, b),
           NEW n, NEW id, NEW limit, NEW step, Counter(c, b, n, id, limit, step), Uncaptured(b, n),
           NEW names, names = Assigned(b), NEW V, Turning(V, c, b),
           \A env : \A j \in Nat : << w, env, j + 1 >> \in V => << b, Enter(env) >> \in W,
           NEW sc, InScope(Inside, c, sc), << b, Enter(sc) >> \in C
    PROVE  \A k \in Nat : \A env, s, t : \A j \in Nat :
              Ahead(V, w, env, sc, j, s, n, limit, step) /\ t = Loop(w, s, k) /\ FuelIn(t) # 0 =>
                 \E e : \E i \in Nat :
                    Ahead(V, w, e, sc, i, t, n, limit, step) /\ Onward(sc, names, w, env, j, s, e, i, t)
<1>1. /\ \A s : \A k \in Nat : FuelIn(s) = 0 => Loop(w, s, k) = s
      /\ \A s : \A k \in Nat : Eval(c, StoreIn(s)) # 1 => Loop(w, s, k) = s
      /\ \A s : FuelIn(s) # 0 /\ Eval(c, StoreIn(s)) = 1 =>
            /\ Loop(w, s, 0) = ExecBlock(b, Burn(s))
            /\ \A k \in Nat : Loop(w, s, k + 1) = Loop(w, Loop(w, s, k), k)
  <2>1. \A s : \A k \in Nat : Loop(w, s, k) = NodeLoop(w, s, k)
    BY HeadRuns
  <2>2. w = While(c, b)
    OBVIOUS
  <2> QED
    BY ONLY <2>1, <2>2, LoopIs
<1>2. PICK K : K = {k \in Nat : \A env, s, t : \A j \in Nat :
              Ahead(V, w, env, sc, j, s, n, limit, step) /\ t = Loop(w, s, k) /\ FuelIn(t) # 0 =>
                 \E e : \E i \in Nat :
                    Ahead(V, w, e, sc, i, t, n, limit, step) /\ Onward(sc, names, w, env, j, s, e, i, t)}
  OBVIOUS
<1>3. \A env, s, j : Onward(sc, names, w, env, j, s, env, j, s)
  <2>1. \A store : Untouched(sc, names, store, store)
    BY UntouchedSame
  <2> QED
    BY <2>1 DEF Onward
<1>4. 0 \in K
  <2> SUFFICES ASSUME NEW env, NEW s, NEW t, NEW j \in Nat, Ahead(V, w, env, sc, j, s, n, limit, step),
                      t = Loop(w, s, 0), FuelIn(t) # 0
               PROVE  \E e : \E i \in Nat :
                         Ahead(V, w, e, sc, i, t, n, limit, step) /\ Onward(sc, names, w, env, j, s, e, i, t)
    BY <1>2
  <2>1. FuelIn(s) # 0
    BY <1>1
  <2>2. CASE Eval(c, StoreIn(s)) # 1
    <3>1. t = s
      BY <1>1, <2>2
    <3> QED
      BY <1>3, <3>1
  <2>3. CASE Eval(c, StoreIn(s)) = 1
    <3>1. t = ExecBlock(b, Burn(s))
      BY <1>1, <2>1, <2>3
    <3>2. IsEnv(env) /\ IsScopes(sc) /\ Knows(env, sc, StoreIn(s)) /\ TurnsAway(env, n, limit, step, j)
          /\ << w, env, j >> \in V
      BY DEF Ahead, Tracks
    <3>3. j # 0
      <4>1. Eval(c, StoreIn(s)) = IF j = 0 THEN 0 ELSE 1
        BY <3>2, LimitReached
      <4> QED
        BY <2>3, <4>1
    <3>4. PICK i \in Nat : j = i + 1
      <4>1. j - 1 \in Nat /\ j = (j - 1) + 1
        BY <3>3
      <4> QED
        BY <4>1
    <3>5. << b, Enter(env) >> \in W
      BY <3>2, <3>4
    <3>6. \E e : Ahead(V, w, e, sc, i, t, n, limit, step) /\ Onward(sc, names, w, env, j, s, e, i, t)
      <4>1. Language(T, S, RankT, RankS, Inside) /\ StaysAbreast(C, W, b) /\ b \in Seq(S)
        OBVIOUS
      <4>2. w = While(c, b) /\ w \in S /\ c \in T /\ names = Assigned(b)
        OBVIOUS
      <4>3. Counter(c, b, n, id, limit, step) /\ Uncaptured(b, n) /\ Turning(V, c, b)
        OBVIOUS
      <4>4. Ahead(V, w, env, sc, j, s, n, limit, step) /\ << b, Enter(sc) >> \in C /\ FuelIn(t) # 0
        OBVIOUS
      <4> QED
        BY ONLY <2>1, <3>1, <3>4, <3>5, <4>1, <4>2, <4>3, <4>4, TurnOnward, SMTT(30)
    <3> QED
      BY <3>6
  <2> QED
    BY <2>2, <2>3
<1>5. ASSUME NEW k \in Nat, k \in K PROVE k + 1 \in K
  <2>1. k + 1 \in Nat
    OBVIOUS
  <2>2. \A env, s, t : \A j \in Nat :
           Ahead(V, w, env, sc, j, s, n, limit, step) /\ t = Loop(w, s, k) /\ FuelIn(t) # 0 =>
              \E e : \E i \in Nat :
                 Ahead(V, w, e, sc, i, t, n, limit, step) /\ Onward(sc, names, w, env, j, s, e, i, t)
    BY <1>2, <1>5
  <2> SUFFICES ASSUME NEW env, NEW s, NEW t, NEW j \in Nat, Ahead(V, w, env, sc, j, s, n, limit, step),
                      t = Loop(w, s, k + 1), FuelIn(t) # 0
               PROVE  \E e : \E i \in Nat :
                         Ahead(V, w, e, sc, i, t, n, limit, step) /\ Onward(sc, names, w, env, j, s, e, i, t)
    BY <1>2, <2>1
  <2>3. FuelIn(s) # 0
    BY <1>1, <2>1
  <2>4. CASE Eval(c, StoreIn(s)) # 1
    <3>1. t = s
      BY <1>1, <2>1, <2>4
    <3> QED
      BY <1>3, <3>1
  <2>5. CASE Eval(c, StoreIn(s)) = 1
    <3>1. PICK h : h = Loop(w, s, k)
      OBVIOUS
    <3>2. t = Loop(w, h, k)
      BY <1>1, <2>3, <2>5, <3>1
    <3>3. FuelIn(h) # 0
      BY <1>1, <3>2
    <3>4. PICK e : \E i \in Nat :
             Ahead(V, w, e, sc, i, h, n, limit, step) /\ Onward(sc, names, w, env, j, s, e, i, h)
      BY <2>2, <3>1, <3>3
    <3>5. PICK i \in Nat : Ahead(V, w, e, sc, i, h, n, limit, step) /\ Onward(sc, names, w, env, j, s, e, i, h)
      BY <3>4
    <3>6. PICK f : \E g \in Nat :
             Ahead(V, w, f, sc, g, t, n, limit, step) /\ Onward(sc, names, w, e, i, h, f, g, t)
      BY <2>2, <3>2, <3>5
    <3>7. PICK g \in Nat : Ahead(V, w, f, sc, g, t, n, limit, step) /\ Onward(sc, names, w, e, i, h, f, g, t)
      BY <3>6
    <3>8. Onward(sc, names, w, env, j, s, f, g, t)
      BY ONLY <3>5, <3>7, OnwardTwice
    <3> QED
      BY <3>7, <3>8
  <2> QED
    BY <2>4, <2>5
<1>6. Nat \subseteq K
  BY <1>4, <1>5, EveryNumber
<1> QED
  BY <1>2, <1>6

LEMMA UnrolledKept ==
    ASSUME NEW T, NEW S, NEW RankT, NEW RankS, NEW Inside, Language(T, S, RankT, RankS, Inside),
           NEW C, NEW W, NEW b \in Seq(S), StaysAbreast(C, W, b), NEW c \in T, NEW w \in S, w = While(c, b),
           NEW n, NEW id, NEW limit, NEW step, Counter(c, b, n, id, limit, step), Uncaptured(b, n),
           NEW names, names = Assigned(b), NEW V, Turning(V, c, b),
           \A env : \A j \in Nat : << w, env, j + 1 >> \in V => << b, Enter(env) >> \in W,
           NEW sc, InScope(Inside, c, sc), << b, Enter(sc) >> \in C,
           NEW env, NEW s, NEW j \in Nat, Ahead(V, w, env, sc, j, s, n, limit, step),
           NEW t, t = Loop(w, s, LoopDepth), FuelIn(t) # 0, Eval(c, StoreIn(t)) # 1
    PROVE  Abreast(sc, names, Unrolled(w, env, j), s, t, sc)
<1>1. \E e : \E i \in Nat :
         Ahead(V, w, e, sc, i, t, n, limit, step) /\ Onward(sc, names, w, env, j, s, e, i, t)
  BY LoopOnward, LoopDepthAssumption
<1>2. PICK e : \E i \in Nat :
         Ahead(V, w, e, sc, i, t, n, limit, step) /\ Onward(sc, names, w, env, j, s, e, i, t)
  BY <1>1
<1>3. PICK i \in Nat : Ahead(V, w, e, sc, i, t, n, limit, step) /\ Onward(sc, names, w, env, j, s, e, i, t)
  BY <1>2
<1>4. IsEnv(e) /\ IsScopes(sc) /\ Knows(e, sc, StoreIn(t)) /\ TurnsAway(e, n, limit, step, i)
  BY <1>3 DEF Ahead, Tracks
<1>5. i = 0
  <2>1. Eval(c, StoreIn(t)) = IF i = 0 THEN 0 ELSE 1
    BY <1>4, LimitReached
  <2> QED
    BY <2>1
<1>6. Becomes(Unrolled(w, e, 0), << >>, e)
  <2>1. Becomes(NodeUnrolled(w, e, 0), << >>, e)
    BY TurnsWalk
  <2>2. 0 \in Nat
    OBVIOUS
  <2>3. Unrolled(w, e, 0) = NodeUnrolled(w, e, 0)
    BY <1>4, <2>2, WalkIs
  <2> QED
    BY <2>1, <2>3
<1>7. Onward(sc, names, w, env, j, s, e, 0, t)
  BY <1>3, <1>5
<1>8. Does(StmtsIn(Unrolled(w, env, j)), s, t)
  <2> SUFFICES ASSUME NEW u, Better(s, u) PROVE Better(t, ExecBlock(StmtsIn(Unrolled(w, env, j)), u))
    BY DEF Does
  <2>1. PICK v : Better(t, v) /\ ExecBlock(StmtsIn(Unrolled(w, env, j)), u) = ExecBlock(StmtsIn(Unrolled(w, e, 0)), v)
    BY <1>7 DEF Onward
  <2>2. ExecBlock(<< >>, v) = v
    BY HeadRuns
  <2> QED
    BY <1>6, <2>1, <2>2 DEF Becomes
<1>9. EnvIn(Unrolled(w, env, j)) = e /\ Untouched(sc, names, StoreIn(s), StoreIn(t))
  BY <1>6, <1>7 DEF Onward, Becomes
<1> QED
  BY <1>4, <1>8, <1>9 DEF Abreast

(***************************************************************************)
(* Loops.                                                                  *)
(***************************************************************************)
\* The loop w of statement body b is walked: dropped, unrolled or kept.
LoopWalked(W, V, Inside, c, b, env) ==
    LET w      == While(c, b)
        stable == AfterBody(env, Assigned(b))
    IN /\ Fitting(Inside, c, stable)
       /\ ~IsFalse(OptExpr(c, stable)) =>
             IF Turns(w, env) = {} THEN << b, Enter(stable) >> \in W
             ELSE << w, env, TurnsLeft(w, env) >> \in V

LEMMA WhileKept ==
    ASSUME NEW T, NEW S, NEW RankT, NEW RankS, NEW Inside, Language(T, S, RankT, RankS, Inside),
           NEW C, NEW W, NEW b \in Seq(S), StaysAbreast(C, W, b), NEW c \in T, NEW w \in S, w = While(c, b),
           \A n, id, limit, step : Counter(c, b, n, id, limit, step) => Uncaptured(b, n),
           NEW V, Turning(V, c, b),
           \A e : \A j \in Nat : << w, e, j + 1 >> \in V => << b, Enter(e) >> \in W,
           NEW env, NEW sc, NEW s, Tracks(env, sc, s), FuelIn(s) # 0,
           InScope(Inside, c, sc), << b, Enter(sc) >> \in C, LoopWalked(W, V, Inside, c, b, env),
           NEW names, Assigned(b) \subseteq names, NEW a, a = NodeOptStmt(w, env),
           NEW t, t = NodeExec(w, s), FuelIn(t) # 0
    PROVE  Abreast(sc, names, a, s, t, sc)
<1>1. PICK h : h = Loop(w, s, LoopDepth)
  OBVIOUS
<1>2. IsEnv(env) /\ Depth(env) > 0 /\ IsScopes(sc) /\ Knows(env, sc, StoreIn(s)) /\ Going(s) /\ FuelIn(s) # 0
  BY DEF Tracks
<1>3. \A x, r : \A v \in S : v = While(x, r) =>
         \A u, l : FuelIn(u) # 0 /\ l = Loop(v, u, LoopDepth) =>
             NodeExec(v, u) = IF Eval(x, StoreIn(l)) = 1 THEN Stopped(l) ELSE l
  BY WhileExec
<1>4. t = IF Eval(c, StoreIn(h)) = 1 THEN Stopped(h) ELSE h
  BY <1>1, <1>2, <1>3
<1>5. \A u : \A k \in Nat : Loop(w, u, k) = NodeLoop(w, u, k)
  BY HeadRuns
<1>6. \A k \in Nat : \A u : Going(u) => Going(Loop(w, u, k))
  <2>1. Lasts(b) /\ w = While(c, b)
    BY AllLast
  <2> QED
    BY ONLY <1>5, <2>1, LoopLasts
<1>7. t = h /\ Eval(c, StoreIn(t)) # 1 /\ Going(t)
  <2>1. Going(h)
    BY <1>1, <1>2, <1>6, LoopDepthAssumption
  <2>2. FuelIn(Stopped(h)) = 0
    BY <2>1, GoingParts
  <2>3. FuelIn(t) # 0
    OBVIOUS
  <2> QED
    BY ONLY <1>4, <2>1, <2>2, <2>3
<1>8. PICK own, stable : own = Assigned(b) /\ stable = AfterBody(env, own)
  OBVIOUS
<1>9. PICK x : x = OptExpr(c, stable)
  OBVIOUS
<1>10. PICK r : r = OptStmts(b, Enter(stable))
  OBVIOUS
<1>11. Fitting(Inside, c, stable)
       /\ (~IsFalse(x) => IF Turns(w, env) = {} THEN << b, Enter(stable) >> \in W
                          ELSE << w, env, TurnsLeft(w, env) >> \in V)
  BY <1>8, <1>9 DEF LoopWalked
<1>12. Untouched(sc, own, StoreIn(s), StoreIn(s))
  BY UntouchedSame
<1>13. Tracks(stable, sc, s)
  BY <1>2, <1>8, <1>12, StableTracks
<1>14. /\ x \in T /\ Eval(x, StoreIn(s)) = Eval(c, StoreIn(s))
       /\ IsFalse(x) => Eval(c, StoreIn(s)) # 1
  <2>1. IsEnv(stable) /\ IsScopes(sc) /\ Knows(stable, sc, StoreIn(s))
    BY <1>13 DEF Tracks
  <2> QED
    BY <1>9, <1>11, <2>1, ExpressionKept
<1>15. /\ IsFalse(x) => Becomes(a, << >>, env)
       /\ ~IsFalse(x) /\ Turns(w, env) # {} => a = Unrolled(w, env, TurnsLeft(w, env))
       /\ ~IsFalse(x) /\ Turns(w, env) = {} => Becomes(a, << While(x, StmtsIn(r)) >>, stable)
  BY <1>8, <1>9, <1>10, WhileWalk
<1>16. own \subseteq names
  BY <1>8
<1>17. CASE IsFalse(x)
  <2>1. t = s
    <3>1. \A u : \A k \in Nat : Eval(c, StoreIn(u)) # 1 => Loop(w, u, k) = u
      <4>1. w = While(c, b)
        OBVIOUS
      <4> QED
        BY ONLY <1>5, <4>1, LoopIs
    <3> QED
      BY <1>1, <1>7, <1>14, <1>17, <3>1, LoopDepthAssumption
  <2>2. Does(<< >>, s, t) /\ Untouched(sc, names, StoreIn(s), StoreIn(t))
    BY <2>1, DoesNothing, UntouchedSame
  <2> QED
    BY <1>2, <1>15, <1>17, <2>1, <2>2 DEF Abreast, Becomes
<1>18. CASE ~IsFalse(x) /\ Turns(w, env) # {}
  <2>1. PICK j : j = TurnsLeft(w, env)
    OBVIOUS
  <2>2. j \in Nat /\ \E n, id, limit, step : Counter(c, b, n, id, limit, step) /\ TurnsAway(env, n, limit, step, j)
    BY <1>2, <1>18, <2>1, TurnsParts
  <2>3. PICK n, id, limit, step : Counter(c, b, n, id, limit, step) /\ TurnsAway(env, n, limit, step, j)
    BY <2>2
  <2>4. Uncaptured(b, n)
    BY <2>3
  <2>5. Ahead(V, w, env, sc, j, s, n, limit, step)
    BY <1>11, <1>18, <2>1, <2>3 DEF Ahead
  <2>6. Abreast(sc, own, Unrolled(w, env, j), s, t, sc)
    BY <1>1, <1>7, <1>8, <2>2, <2>3, <2>4, <2>5, UnrolledKept
  <2>7. Untouched(sc, names, StoreIn(s), StoreIn(t))
    BY <1>16, <2>6, UntouchedMore DEF Abreast
  <2> QED
    BY <1>15, <1>18, <2>1, <2>6, <2>7 DEF Abreast
<1>19. CASE ~IsFalse(x) /\ Turns(w, env) = {}
  <2>1. StmtsIn(r) \in Seq(S)
    <3>1. WalksOn(S, b) /\ IsEnv(stable)
      BY <1>13, AllWalk DEF Tracks
    <3> QED
      BY <1>10, <3>1, BodyWalks
  <2>2. PICK v : v = While(x, StmtsIn(r))
    OBVIOUS
  <2>3. v \in S
    BY <1>14, <2>1, <2>2 DEF Language, AllStatements, StatementOver
  <2>4. \A k \in Nat : \A i, l :
           Going(i) /\ Untouched(sc, own, StoreIn(s), StoreIn(i)) /\ l = Loop(w, i, k) /\ FuelIn(l) # 0 =>
              /\ Going(l) /\ Untouched(sc, own, StoreIn(s), StoreIn(l))
              /\ \A u : Better(i, u) => Better(l, Loop(v, u, k))
    BY <1>8, <1>9, <1>10, <1>11, <1>19, <2>2, <2>3, LoopKept
  <2>5. /\ Untouched(sc, own, StoreIn(s), StoreIn(t))
        /\ \A u : Better(s, u) => Better(t, Loop(v, u, LoopDepth))
    BY <1>1, <1>2, <1>7, <1>12, <2>4, LoopDepthAssumption
  <2>6. Tracks(stable, sc, t)
    BY <1>7, <1>8, <2>5, StableTracks
  <2>7. Knows(stable, sc, StoreIn(t)) /\ Eval(x, StoreIn(t)) # 1
    <3>1. IsEnv(stable) /\ IsScopes(sc) /\ Knows(stable, sc, StoreIn(t))
      BY <2>6 DEF Tracks
    <3>2. Eval(x, StoreIn(t)) = Eval(c, StoreIn(t))
      BY <1>9, <1>11, <3>1, ExpressionKept
    <3> QED
      BY <1>7, <3>1, <3>2
  <2>8. Does(<< v >>, s, t)
    <3> SUFFICES ASSUME NEW u, Better(s, u) PROVE Better(t, ExecBlock(<< v >>, u))
      BY DEF Does
    <3>1. ExecBlock(<< v >>, u) = NodeExec(v, u)
      BY <2>3, HeadRuns
    <3>2. PICK l : l = Loop(v, u, LoopDepth)
      OBVIOUS
    <3>3. Better(t, l)
      BY <2>5, <3>2
    <3>4. StoreIn(l) = StoreIn(t)
      BY <3>3 DEF Better
    <3>5. FuelIn(u) # 0
      BY <1>2, BetterParts
    <3>6. NodeExec(v, u) = l
      BY <1>3, <2>2, <2>3, <2>7, <3>2, <3>4, <3>5
    <3> QED
      BY <3>1, <3>3, <3>6
  <2>9. Untouched(sc, names, StoreIn(s), StoreIn(t))
    BY <1>16, <2>5, UntouchedMore
  <2> QED
    BY <1>15, <1>19, <2>2, <2>7, <2>8, <2>9 DEF Abreast, Becomes
<1> QED
  BY <1>17, <1>18, <1>19

-----------------------------------------------------------------------------
(***************************************************************************)
(* Whole programs.                                                         *)
(***************************************************************************)
\* C holds each sequence of statements with the scopes it stands in: a scope
\* declares a name once, a declaration has an id of its own, identifiers have the
\* id of what they mean, and no loop that counts declares its variable anew in its
\* own body, which tryUnrollWhile takes for the one it counts in.
ScopedStatement(C, Inside, st, sc) ==
    /\ \A n, id : st = Decl(n, id) => Anew(sc, n, id)
    /\ \A n, id, e : st = Assign(n, id, e) => Resolved(sc, n, id)
    /\ \A e \in OwnExprs(st) : InScope(Inside, e, sc)
    /\ \A b : BodyOf(st, b) => << b, Enter(sc) >> \in C
    /\ \A c, b, n, id, limit, step :
          st = While(c, b) /\ Counter(c, b, n, id, limit, step) => Uncaptured(b, n)

After(st, sc) == IF st.k = "decl" THEN Declared(sc, st.name, st.scope) ELSE sc

WellScoped(C, Inside) ==
    \A q, sc : << q, sc >> \in C /\ q # << >> =>
        ScopedStatement(C, Inside, Head(q), sc) /\ << Tail(q), After(Head(q), sc) >> \in C

\* W holds each sequence that is walked, and V each loop that is unrolled, with the
\* environments the walk comes with; no sum that is folded there is too large for
\* an int.
WalkedStatement(W, V, Inside, st, env) ==
    /\ st.k \in {"assign", "print", "if"} => \A e \in OwnExprs(st) : Fitting(Inside, e, env)
    /\ \A b : st = Block(b) => << b, Enter(env) >> \in W
    /\ \A c, b : st = If(c, b) /\ ~IsFalse(OptExpr(c, env)) => << b, Enter(env) >> \in W
    /\ \A c, b : st = While(c, b) => LoopWalked(W, V, Inside, c, b, env)

WalkFits(W, V, Inside) ==
    /\ \A q, env : << q, env >> \in W /\ q # << >> =>
          /\ WalkedStatement(W, V, Inside, Head(q), env)
          /\ << Tail(q), EnvIn(NodeOptStmt(Head(q), env)) >> \in W
    /\ \A c, b, env : \A j \in Nat : << While(c, b), env, j + 1 >> \in V =>
          /\ << b, Enter(env) >> \in W
          /\ << While(c, b), Leave(EnvIn(OptStmts(b, Enter(env)))), j >> \in V

LEMMA AfterParts ==
    ASSUME NEW T, NEW S, NEW Rank, AllStatements(T, S, Rank), NEW st \in S,
           NEW C, NEW Inside, NEW sc, ScopedStatement(C, Inside, st, sc),
           IsScopes(sc), Apart(sc), Depth(sc) > 0
    PROVE  /\ IsScopes(After(st, sc)) /\ Apart(After(st, sc)) /\ Extends(After(st, sc), sc)
           /\ Leave(After(st, sc)) = Leave(sc)
<1>1. Depth(sc) \in Nat
  BY StackParts DEF IsScopes
<1>2. CASE st.k = "decl"
  <2>1. PICK n \in Names, id \in Nat : st = Decl(n, id)
    BY <1>2, StatementKinds DEF AllStatements, StatementOver
  <2>2. After(st, sc) = Declared(sc, n, id)
    BY <1>2, <2>1 DEF After, Decl
  <2>3. ~Has(sc, Depth(sc), n) /\ \A i \in 1 .. Depth(sc) : Has(sc, i, n) => Key(sc, i, n) # << n, id >>
    BY <2>1 DEF ScopedStatement, Anew
  <2>4. IsScopes(Declared(sc, n, id)) /\ Extends(Declared(sc, n, id), sc)
    BY <2>3, DeclaredExtends
  <2>5. Apart(Declared(sc, n, id))
    BY <2>3, ApartDeclared
  <2>6. Leave(Declared(sc, n, id)) = Leave(sc)
    BY LeftAsBefore
  <2> QED
    BY <2>2, <2>4, <2>5, <2>6
<1>3. CASE st.k # "decl"
  <2>1. After(st, sc) = sc
    BY <1>3 DEF After
  <2>2. Extends(sc, sc)
    BY <1>1 DEF Extends
  <2> QED
    BY <2>1, <2>2
<1> QED
  BY <1>2, <1>3

\* Whatever the statement.
LEMMA StatementKept ==
    ASSUME NEW T, NEW S, NEW RankT, NEW RankS, NEW Inside, Language(T, S, RankT, RankS, Inside),
           NEW C, NEW W, NEW V, WalkFits(W, V, Inside),
           NEW st \in S, \A b \in Seq(S) : BodyOf(st, b) => StaysAbreast(C, W, b),
           NEW env, NEW sc, NEW s, Tracks(env, sc, s), FuelIn(s) # 0,
           ScopedStatement(C, Inside, st, sc), WalkedStatement(W, V, Inside, st, env),
           NEW names, \A n, id, e : st = Assign(n, id, e) => n \in names,
           \A b : BodyOf(st, b) => Assigned(b) \subseteq names,
           NEW a, a = NodeOptStmt(st, env), NEW t, t = NodeExec(st, s), FuelIn(t) # 0
    PROVE  Abreast(sc, names, a, s, t, After(st, sc))
<1>1. StatementOver(T, S, st)
  BY DEF Language, AllStatements
<1>2. ASSUME NEW n \in Names, NEW id \in Nat, st = Decl(n, id) PROVE Abreast(sc, names, a, s, t, After(st, sc))
  <2>1. After(st, sc) = Declared(sc, n, id)
    BY <1>2 DEF After, Decl
  <2>2. Abreast(sc, names, a, s, t, Declared(sc, n, id))
    BY <1>2, DeclKept DEF ScopedStatement
  <2> QED
    BY <2>1, <2>2
<1>3. ASSUME NEW n \in Names, NEW id \in Nat, NEW e \in T, st = Assign(n, id, e)
      PROVE  Abreast(sc, names, a, s, t, After(st, sc))
  <2>1. After(st, sc) = sc /\ st.k = "assign" /\ e \in OwnExprs(st)
    BY <1>3 DEF After, Assign, OwnExprs
  <2>2. Resolved(sc, n, id) /\ InScope(Inside, e, sc)
    BY <1>3, <2>1 DEF ScopedStatement
  <2>3. Fitting(Inside, e, env)
    BY <2>1 DEF WalkedStatement
  <2>4. n \in names
    BY <1>3
  <2>5. Abreast(sc, names, a, s, t, sc)
    BY <1>3, <2>2, <2>3, <2>4, AssignKept
  <2> QED
    BY <2>1, <2>5
<1>4. ASSUME NEW e \in T, st = PrintOf(e) PROVE Abreast(sc, names, a, s, t, After(st, sc))
  <2>1. After(st, sc) = sc /\ st.k = "print" /\ e \in OwnExprs(st)
    BY <1>4 DEF After, PrintOf, OwnExprs
  <2>2. InScope(Inside, e, sc)
    BY <2>1 DEF ScopedStatement
  <2>3. Fitting(Inside, e, env)
    BY <2>1 DEF WalkedStatement
  <2>4. Abreast(sc, names, a, s, t, sc)
    BY <1>4, <2>2, <2>3, PrintKept
  <2> QED
    BY <2>1, <2>4
<1>5. ASSUME NEW b \in Seq(S), st = Block(b) PROVE Abreast(sc, names, a, s, t, After(st, sc))
  <2>1. After(st, sc) = sc /\ BodyOf(st, b)
    BY <1>5 DEF After, Block, BodyOf
  <2>2. << b, Enter(sc) >> \in C /\ StaysAbreast(C, W, b) /\ Assigned(b) \subseteq names
    BY <2>1 DEF ScopedStatement
  <2>3. << b, Enter(env) >> \in W
    BY <1>5 DEF WalkedStatement
  <2>4. Abreast(sc, names, a, s, t, sc)
    BY <1>5, <2>2, <2>3, BlockKept
  <2> QED
    BY <2>1, <2>4
<1>6. ASSUME NEW c \in T, NEW b \in Seq(S), st = If(c, b) PROVE Abreast(sc, names, a, s, t, After(st, sc))
  <2>1. After(st, sc) = sc /\ BodyOf(st, b) /\ st.k = "if" /\ c \in OwnExprs(st)
    BY <1>6 DEF After, If, BodyOf, OwnExprs
  <2>2. /\ << b, Enter(sc) >> \in C /\ StaysAbreast(C, W, b) /\ Assigned(b) \subseteq names
        /\ InScope(Inside, c, sc)
    BY <2>1 DEF ScopedStatement
  <2>3. PICK x : x = OptExpr(c, env)
    OBVIOUS
  <2>4. Fitting(Inside, c, env) /\ (~IsFalse(x) => << b, Enter(env) >> \in W)
    BY <1>6, <2>1, <2>3 DEF WalkedStatement
  <2>5. Abreast(sc, names, a, s, t, sc)
    BY <1>6, <2>2, <2>3, <2>4, IfKept
  <2> QED
    BY <2>1, <2>5
<1>7. ASSUME NEW c \in T, NEW b \in Seq(S), st = While(c, b) PROVE Abreast(sc, names, a, s, t, After(st, sc))
  <2>1. After(st, sc) = sc /\ BodyOf(st, b) /\ c \in OwnExprs(st)
    BY <1>7 DEF After, While, BodyOf, OwnExprs
  <2>2. /\ << b, Enter(sc) >> \in C /\ StaysAbreast(C, W, b) /\ Assigned(b) \subseteq names
        /\ InScope(Inside, c, sc)
    BY <2>1 DEF ScopedStatement
  <2>3. \A n, id, limit, step : Counter(c, b, n, id, limit, step) => Uncaptured(b, n)
    BY <1>7 DEF ScopedStatement
  <2>4. LoopWalked(W, V, Inside, c, b, env)
    BY <1>7 DEF WalkedStatement
  <2>5. Turning(V, c, b) /\ \A e : \A j \in Nat : << st, e, j + 1 >> \in V => << b, Enter(e) >> \in W
    BY <1>7 DEF WalkFits, Turning
  <2>6. Language(T, S, RankT, RankS, Inside) /\ Tracks(env, sc, s) /\ FuelIn(s) # 0 /\ FuelIn(t) # 0
    OBVIOUS
  <2>7. a = NodeOptStmt(st, env) /\ t = NodeExec(st, s) /\ st \in S
    OBVIOUS
  <2>8. Abreast(sc, names, a, s, t, sc)
    BY ONLY <1>7, <2>2, <2>3, <2>4, <2>5, <2>6, <2>7, WhileKept
  <2> QED
    BY <2>1, <2>8
<1> QED
  BY <1>1, <1>2, <1>3, <1>4, <1>5, <1>6, <1>7 DEF StatementOver

\* The induction over the statements.
LEMMA AllStayAbreast ==
    ASSUME NEW T, NEW S, NEW RankT, NEW RankS, NEW Inside, Language(T, S, RankT, RankS, Inside),
           NEW C, WellScoped(C, Inside), NEW W, NEW V, WalkFits(W, V, Inside)
    PROVE  \A q \in Seq(S) : StaysAbreast(C, W, q)
<1>1. AllStatements(T, S, RankS) /\ RankS \in [Seq(S) -> Nat]
  BY DEF Language, AllStatements
<1>2. PICK Q : Q = Seq(S)
  OBVIOUS
<1>3. PICK K : K = {q \in Q : StaysAbreast(C, W, q)}
  OBVIOUS
<1>4. ASSUME NEW q \in Q, \A b \in Q : RankS[b] < RankS[q] => b \in K PROVE q \in K
  <2>1. \A b \in Seq(S) : RankS[b] < RankS[q] => StaysAbreast(C, W, b)
    BY <1>2, <1>3, <1>4
  <2> SUFFICES ASSUME NEW env, NEW sc, NEW s, NEW t, << q, sc >> \in C, << q, env >> \in W,
                      Tracks(env, sc, s), t = ExecBlock(q, s), FuelIn(t) # 0
               PROVE  Abreast(sc, Assigned(q), LeaveScope(OptStmts(q, env)), s, t, Leave(sc))
    BY <1>3 DEF StaysAbreast
  <2>2. IsEnv(env) /\ Depth(env) > 0 /\ IsScopes(sc) /\ Apart(sc) /\ Knows(env, sc, StoreIn(s)) /\ Going(s)
    BY DEF Tracks
  <2>3. Depth(sc) = Depth(env) /\ Depth(sc) > 0
    BY <2>2 DEF KnowsOf, Knows
  <2>4. CASE q = << >>
    <3>1. t = s
      BY <2>4, HeadRuns
    <3>2. Becomes(OptStmts(q, env), << >>, env)
      BY <2>2, <2>4, WalkIs
    <3>3. Becomes(LeaveScope(OptStmts(q, env)), << >>, Leave(env))
      BY <3>2, ResultParts DEF Becomes
    <3>4. Knows(Leave(env), Leave(sc), StoreIn(t))
      BY <2>2, <3>1, KnowsLeft
    <3>5. Does(<< >>, s, t) /\ Untouched(sc, Assigned(q), StoreIn(s), StoreIn(t))
      BY <3>1, DoesNothing, UntouchedSame
    <3> QED
      BY <3>3, <3>4, <3>5 DEF Abreast, Becomes
  <2>5. CASE q # << >>
    <3>1. PICK st, rest : st = Head(q) /\ rest = Tail(q)
      OBVIOUS
    <3>2. /\ st \in S /\ rest \in Seq(S) /\ RankS[rest] < RankS[q]
          /\ \A b : BodyOf(st, b) => RankS[b] < RankS[q]
      BY <1>1, <1>2, <2>5, <3>1, ListParts
    <3>3. StaysAbreast(C, W, rest) /\ \A b \in Seq(S) : BodyOf(st, b) => StaysAbreast(C, W, b)
      BY <2>1, <3>2
    <3>4. ScopedStatement(C, Inside, st, sc) /\ << rest, After(st, sc) >> \in C
      BY <2>5, <3>1 DEF WellScoped
    <3>5. PICK a : a = NodeOptStmt(st, env)
      OBVIOUS
    <3>6. WalkedStatement(W, V, Inside, st, env) /\ << rest, EnvIn(a) >> \in W
      BY <2>5, <3>1, <3>5 DEF WalkFits
    <3>7. PICK h : h = NodeExec(st, s)
      OBVIOUS
    <3>8. t = ExecBlock(rest, h)
      BY <1>2, <2>5, <3>1, <3>7, HeadRuns
    <3>9. FuelIn(h) # 0 /\ FuelIn(s) # 0
      <4>1. Lasts(rest)
        BY <3>2, AllLast
      <4>2. FuelIn(h) # 0
        BY <3>8, <4>1 DEF Lasts
      <4>3. FuelIn(s) = 0 => h = s
        BY <3>7, RunForm
      <4> QED
        BY <4>2, <4>3
    <3>10. Going(h)
      <4>1. << st >> \in Seq(S)
        BY <1>1, <3>2, ListParts
      <4>2. Lasts(<< st >>)
        BY <4>1, AllLast
      <4>3. ExecBlock(<< st >>, s) = h
        BY <3>2, <3>7, HeadRuns
      <4> QED
        BY <2>2, <4>2, <4>3 DEF Lasts
    <3>11. /\ Assigned(rest) \subseteq Assigned(q)
           /\ \A n, id, e : st = Assign(n, id, e) => n \in Assigned(q)
           /\ \A b : BodyOf(st, b) => Assigned(b) \subseteq Assigned(q)
      BY <1>2, <2>5, <3>1, AssignedParts
    <3>12. Abreast(sc, Assigned(q), a, s, h, After(st, sc))
      BY <3>2, <3>3, <3>4, <3>5, <3>6, <3>7, <3>9, <3>11, StatementKept
    <3>13. PICK i : i = After(st, sc)
      OBVIOUS
    <3>14. IsScopes(i) /\ Apart(i) /\ Extends(i, sc) /\ Leave(i) = Leave(sc)
      BY <1>1, <2>2, <2>3, <3>2, <3>4, <3>13, AfterParts
    <3>15. Walks(S, env, a)
      <4>1. \A b \in Seq(S) : BodyOf(st, b) => WalksOn(S, b)
        BY AllWalk
      <4> QED
        BY <2>2, <3>2, <3>5, <4>1, HeadWalks
    <3>16. Tracks(EnvIn(a), i, h)
      <4>1. IsEnv(EnvIn(a)) /\ Depth(EnvIn(a)) > 0
        BY <2>2, <3>15 DEF Walks
      <4>2. Knows(EnvIn(a), i, StoreIn(h))
        BY <3>12, <3>13 DEF Abreast
      <4> QED
        BY <3>10, <3>14, <4>1, <4>2 DEF Tracks
    <3>17. PICK d : d = OptStmts(rest, EnvIn(a))
      OBVIOUS
    <3>18. Abreast(i, Assigned(rest), LeaveScope(d), h, t, Leave(i))
      BY <3>3, <3>4, <3>6, <3>8, <3>13, <3>16, <3>17 DEF StaysAbreast
    <3>19. Becomes(OptStmts(q, env), StmtsIn(a) \o StmtsIn(d), EnvIn(d))
      BY <1>2, <2>2, <2>5, <3>1, <3>5, <3>17, WalkIs
    <3>20. Becomes(LeaveScope(OptStmts(q, env)), StmtsIn(a) \o StmtsIn(d), Leave(EnvIn(d)))
      BY <3>19, ResultParts DEF Becomes
    <3>21. Becomes(LeaveScope(d), StmtsIn(d), Leave(EnvIn(d)))
      BY ResultParts
    <3>22. Untouched(sc, Assigned(q), StoreIn(s), StoreIn(t))
      <4>1. Untouched(sc, Assigned(q), StoreIn(s), StoreIn(h))
        BY <3>12 DEF Abreast
      <4>2. Untouched(i, Assigned(rest), StoreIn(h), StoreIn(t))
        BY <3>18 DEF Abreast
      <4>3. Untouched(sc, Assigned(rest), StoreIn(h), StoreIn(t))
        BY ONLY <2>2, <3>14, <4>2, UntouchedOutside
      <4>4. Untouched(sc, Assigned(q), StoreIn(h), StoreIn(t))
        BY ONLY <3>11, <4>3, UntouchedMore
      <4> QED
        BY ONLY <4>1, <4>4, UntouchedTwice
    <3>23. Does(StmtsIn(a) \o StmtsIn(d), s, t)
      <4>1. StmtsIn(a) \in Seq(S)
        BY <3>15 DEF Walks
      <4>2. StmtsIn(d) \in Seq(S)
        <5>1. WalksOn(S, rest) /\ IsEnv(EnvIn(a)) /\ Depth(EnvIn(a)) > 0
          BY <3>2, <3>16, AllWalk DEF Tracks
        <5> QED
          BY <3>17, <5>1 DEF WalksOn, Walks
      <4>3. Language(T, S, RankT, RankS, Inside)
        OBVIOUS
      <4>4. \A p, r \in Seq(S) : \A u : ExecBlock(p \o r, u) = ExecBlock(r, ExecBlock(p, u))
        BY ONLY <4>3, ConcatRuns
      <4>5. Does(StmtsIn(a), s, h) /\ Does(StmtsIn(d), h, t)
        BY <3>12, <3>18, <3>21 DEF Abreast, Becomes
      <4> QED
        BY ONLY <4>1, <4>2, <4>4, <4>5 DEF Does
    <3>24. Knows(Leave(EnvIn(d)), Leave(sc), StoreIn(t))
      BY <3>14, <3>18, <3>21 DEF Abreast, Becomes
    <3> QED
      BY <3>20, <3>22, <3>23, <3>24 DEF Abreast, Becomes
  <2> QED
    BY <2>4, <2>5
<1>5. Q \subseteq K
  <2>1. RankS \in [Q -> Nat] /\ \A q \in Q : (\A b \in Q : RankS[b] < RankS[q] => b \in K) => q \in K
    BY <1>1, <1>2, <1>4
  <2> QED
    BY ONLY <2>1, EveryMember
<1> QED
  BY <1>2, <1>3, <1>5

LEMMA Outside ==
    /\ IsEnv(<< >>) /\ IsScopes(<< >>)
    /\ IsEnv(Enter(<< >>)) /\ Depth(Enter(<< >>)) = 1
    /\ IsScopes(Enter(<< >>)) /\ Apart(Enter(<< >>))
    /\ \A store : Knows(Enter(<< >>), Enter(<< >>), store)
<1>1. IsEnv(<< >>) /\ IsScopes(<< >>) /\ Depth(<< >>) = 0
  BY DEF IsEnv, IsScopes, Stack, Depth
<1>2. Apart(<< >>) /\ \A store : Knows(<< >>, << >>, store)
  BY <1>1 DEF Apart, KnowsOf, Knows
<1>3. IsScopes(Enter(<< >>)) /\ IsEnv(Enter(<< >>)) /\ Depth(Enter(<< >>)) = 1
      /\ \A store : Knows(Enter(<< >>), Enter(<< >>), store)
  BY <1>1, <1>2, KnowsEntered
<1>4. Apart(Enter(<< >>))
  BY <1>1, <1>2, ApartEntered
<1> QED
  BY <1>1, <1>3, <1>4

\* A program, whatever ran before it.
LEMMA OptimizedFrom ==
    ASSUME NEW T, NEW S, NEW RankT, NEW RankS, NEW Inside, Language(T, S, RankT, RankS, Inside),
           NEW C, WellScoped(C, Inside), NEW W, NEW V, WalkFits(W, V, Inside),
           NEW q \in Seq(S), << q, Enter(<< >>) >> \in C, << q, Enter(<< >>) >> \in W,
           NEW p, p = StmtsIn(OptBlock(q, << >>)),
           NEW s, Going(s), NEW t, t = ExecBlock(q, s), FuelIn(t) # 0
    PROVE  Going(t) /\ FuelIn(s) # 0 /\ p \in Seq(S) /\ Does(p, s, t)
<1>1. PICK e : e = Enter(<< >>)
  OBVIOUS
<1>2. Tracks(e, e, s)
  BY <1>1, Outside DEF Tracks
<1>3. PICK r : r = OptStmts(q, e)
  OBVIOUS
<1>4. Going(t) /\ FuelIn(s) # 0
  <2>1. Lasts(q)
    BY AllLast
  <2> QED
    BY <2>1 DEF Lasts
<1>5. p = StmtsIn(r)
  <2>1. Becomes(LeaveScope(r), StmtsIn(r), Leave(EnvIn(r)))
    BY ResultParts
  <2> QED
    BY <1>1, <1>3, <2>1 DEF OptBlock, Becomes
<1>6. StaysAbreast(C, W, q)
  BY AllStayAbreast
<1>7. Abreast(e, Assigned(q), LeaveScope(r), s, t, Leave(e))
  BY <1>1, <1>2, <1>3, <1>6 DEF StaysAbreast
<1>8. Does(p, s, t)
  BY <1>1, <1>3, <1>7 DEF Abreast, OptBlock
<1>9. p \in Seq(S)
  <2>1. WalksOn(S, q)
    BY AllWalk
  <2>2. Walks(S, e, r)
    BY <1>1, <1>3, <2>1, Outside DEF WalksOn
  <2> QED
    BY <1>5, <2>2 DEF Walks
<1> QED
  BY <1>4, <1>8, <1>9

\* The optimizer keeps what a program does (optimizeAstProgram): where the source
\* program ends, the optimized one ends too, in no more turns of loops, prints
\* the same and leaves the same in the variables; on the machine as in languages
\* where a declaration makes its variable anew.
THEOREM OptimizedRuns ==
    ASSUME NEW T, NEW S, NEW RankT, NEW RankS, NEW Inside, Language(T, S, RankT, RankS, Inside),
           NEW C, WellScoped(C, Inside), NEW W, NEW V, WalkFits(W, V, Inside),
           NEW q \in Seq(S), << q, Enter(<< >>) >> \in C, << q, Enter(<< >>) >> \in W,
           NEW p, p = StmtsIn(OptBlock(q, << >>)),
           NEW fuel \in Nat, NEW t, t = ExecBlock(q, Started(fuel)), FuelIn(t) # 0,
           NEW u, u = ExecBlock(p, Started(fuel))
    PROVE  /\ p \in Seq(S)
           /\ FuelIn(u) # 0 /\ FuelIn(u) >= FuelIn(t)
           /\ OutIn(u) = OutIn(t) /\ StoreIn(u) = StoreIn(t)
<1>1. PICK s : s = Started(fuel)
  OBVIOUS
<1>2. Going(s)
  BY <1>1 DEF Going, Started, StoreIn, OutIn, FuelIn
<1>3. Going(t) /\ FuelIn(s) # 0 /\ p \in Seq(S) /\ Does(p, s, t)
  BY <1>1, <1>2, OptimizedFrom
<1>4. Better(t, u)
  <2>1. Better(s, s)
    BY <1>2, <1>3, BetterParts
  <2> QED
    BY <1>1, <1>3, <2>1 DEF Does
<1>5. FuelIn(u) # 0 /\ StoreIn(u) = StoreIn(t) /\ OutIn(u) = OutIn(t)
  BY <1>3, <1>4, BetterParts
<1> QED
  BY <1>3, <1>4, <1>5 DEF Better

\* Optimizer, code generator and machine together: where the source program ends,
\* the machine that runs the code of the optimized one prints what the source
\* prints, and halts only there (README.md:301: "equivalent form").
THEOREM OptimizedOutput ==
    ASSUME IntMod = WordMod, DeclResets = FALSE,
           NEW CONSTANT T, NEW CONSTANT S, NEW CONSTANT RankT, NEW CONSTANT RankS, NEW CONSTANT Inside,
           Language(T, S, RankT, RankS, Inside),
           NEW CONSTANT C, WellScoped(C, Inside), NEW CONSTANT W, NEW CONSTANT V, WalkFits(W, V, Inside),
           NEW CONSTANT q \in Seq(S), << q, Enter(<< >>) >> \in C, << q, Enter(<< >>) >> \in W,
           NEW CONSTANT p, p = StmtsIn(OptBlock(q, << >>)),
           NEW CONSTANT E \in SUBSET T, NEW CONSTANT RankE, Expressions(E, RankE),
           NEW CONSTANT Q, NEW CONSTANT RankQ, Statements(E, Q, RankQ), p \in Q,
           NEW CONSTANT fuel \in Nat, NEW CONSTANT k, k = ProgramCode(Lowered(p, 0)),
           NEW CONSTANT o, o = Outcome(ExecBlock(q, Started(fuel))), o.ends
    PROVE  OneProgram(k, o) => []OutputFollows
<1>1. PICK t, u : t = ExecBlock(q, Started(fuel)) /\ u = ExecBlock(p, Started(fuel))
  OBVIOUS
<1>2. Lasts(q) /\ Going(t) /\ FuelIn(t) \in Nat
  <2>1. Lasts(q)
    BY AllLast
  <2>2. Going(Started(fuel))
    BY DEF Going, Started, StoreIn, OutIn, FuelIn
  <2> QED
    BY <1>1, <2>1, <2>2 DEF Lasts, Going
<1>3. FuelIn(t) # 0
  <2> SUFFICES ASSUME FuelIn(t) = 0 PROVE FALSE
    OBVIOUS
  <2>1. (FuelIn(t) > 0) = FALSE
    OBVIOUS
  <2>2. o = [out |-> t.out, ends |-> FuelIn(t) > 0]
    BY <1>1 DEF Outcome, FuelIn
  <2>3. o = [out |-> t.out, ends |-> FALSE]
    BY ONLY <2>1, <2>2
  <2>4. o.ends = FALSE
    BY ONLY <2>3
  <2> QED
    BY <2>4, Zenon
<1>4. FuelIn(u) >= FuelIn(t) /\ OutIn(u) = OutIn(t)
  BY <1>1, <1>3, OptimizedRuns
<1>5. Outcome(u) = o
  <2>1. FuelIn(t) > 0
    BY <1>2, <1>3
  <2>2. FuelIn(u) \in Nat
    <3>1. p \in Seq(S)
      BY <1>1, <1>3, OptimizedRuns
    <3>2. Lasts(p) /\ Going(Started(fuel))
      BY <3>1, AllLast DEF Going, Started, StoreIn, OutIn, FuelIn
    <3> QED
      BY <1>1, <3>2 DEF Lasts, Going
  <2>3. FuelIn(u) > 0
    BY <1>2, <1>4, <2>1, <2>2
  <2>4. Outcome(t) = [out |-> OutIn(t), ends |-> TRUE] /\ Outcome(u) = [out |-> OutIn(u), ends |-> TRUE]
    BY <2>1, <2>3 DEF Outcome, OutIn, FuelIn
  <2> QED
    BY <1>1, <1>4, <2>4
<1>6. \A e \in E : \A store : Values6502(store) => Meant(e, store)
  BY DEF Language, Evaluated
<1>7. o = Outcome(ExecBlock(p, Started(fuel)))
  BY <1>1, <1>5
<1> QED
  BY <1>6, <1>7, ProgramOutput

-----------------------------------------------------------------------------
(***************************************************************************)
(* What the names mean.                                                    *)
(***************************************************************************)
\* C are the sequences of statements, each with scopes in which every identifier
\* in it has the id of the declaration it means when names are looked up anew, by
\* the nesting of blocks; a declaration is the only one of its name in its block, and
\* none around it has its id.
Standing(sc) == IsScopes(sc) /\ Depth(sc) > 0
MeansWell(C, Inside, st, sc) ==
    /\ \A e \in OwnExprs(st) : InScope(Inside, e, sc)
    /\ \A n, id : st = Decl(n, id) => Anew(sc, n, id)
    /\ \A n, id, e : st = Assign(n, id, e) => Resolved(sc, n, id)
    /\ \A b : BodyOf(st, b) => << b, Enter(sc) >> \in C
Lexical(C, S, Inside) ==
    \A sc : Standing(sc) => \A q \in Seq(S) :
        (<< q, sc >> \in C <=>
            \/ q = << >>
            \/ MeansWell(C, Inside, Head(q), sc) /\ << Tail(q), After(Head(q), sc) >> \in C)

\* Every identifier that is left in an expression was there before.
LEMMA FoldedNode ==
    ASSUME NEW T, NEW Rank, NEW Inside, AllExpressions(T, Rank, Inside),
           \A e \in T : Folded(e) /\ Evaluated(e), NEW sc, NEW env, IsEnv(env), NEW e \in T,
           \A d \in T : Rank[d] < Rank[e] /\ InScope(Inside, d, sc) => InScope(Inside, OptExpr(d, env), sc),
           InScope(Inside, e, sc)
    PROVE  InScope(Inside, OptExpr(e, env), sc)
<1>1. PICK x : x = OptExpr(e, env)
  OBVIOUS
<1>2. x = NodeExpr(e, env) /\ x \in T
  BY <1>1, AllFoldWell DEF Folded, FoldsWell
<1>3. PICK c : c = EvalConst(e, env)
  OBVIOUS
<1>4. c \in Consts
  BY <1>3, AllFoldWell DEF FoldsWell
<1>5. CASE IsKnown(c)
  <2>1. x = Lit(c.kind, c.v)
    BY <1>2, <1>3, <1>5, ExprForm
  <2>2. x.k = "lit"
    BY <2>1, KindsApart
  <2>3. Inside[x] = {x}
    BY <1>2, <2>2 DEF AllExpressions
  <2> QED
    BY <1>1, <2>2, <2>3 DEF InScope
<1>6. CASE ~IsKnown(c)
  <2>1. Built(T, Rank, e)
    BY DEF AllExpressions
  <2>2. CASE \E kind \in Kinds, v \in Nat : e = Lit(kind, v)
    <3>1. PICK kind \in Kinds, v \in Nat : e = Lit(kind, v)
      BY <2>2
    <3>2. c = Const(kind, v)
      BY <1>3, <3>1, ConstForm DEF Folded
    <3> QED
      BY <1>6, <3>2, EntryKinds
  <2>3. CASE \E n \in Names, id \in Nat : e = Var(n, id)
    <3>1. PICK n \in Names, id \in Nat : e = Var(n, id)
      BY <2>3
    <3>2. x = e
      BY <1>2, <1>3, <1>6, <3>1, ExprForm
    <3> QED
      BY <1>1, <3>2
  <2>4. ASSUME NEW l \in T, NEW r \in T, Rank[l] < Rank[e], Rank[r] < Rank[e],
               e = Add(l, r) \/ \E op \in {"==", "!="} : e = Compare(op, l, r)
        PROVE  InScope(Inside, x, sc)
    <3>1. PICK y, z : y = OptExpr(l, env) /\ z = OptExpr(r, env)
      OBVIOUS
    <3>2. e.k \in {"add", "cmp"} /\ e.l = l /\ e.r = r
      BY <2>4, KindsApart
    <3>3. Inside[e] = {e} \cup (Inside[l] \cup Inside[r])
      BY <3>2 DEF AllExpressions
    <3>4. InScope(Inside, l, sc) /\ InScope(Inside, r, sc)
      BY <3>3 DEF InScope
    <3>5. InScope(Inside, y, sc) /\ InScope(Inside, z, sc)
      BY <2>4, <3>1, <3>4
    <3>6. x.k \in {"add", "cmp"} /\ x.l = y /\ x.r = z
      <4>1. CASE e = Add(l, r)
        <5>1. x = Add(y, z)
          BY <1>2, <1>3, <1>6, <3>1, <4>1, ExprForm
        <5> QED
          BY <5>1, KindsApart
      <4>2. ASSUME NEW op, e = Compare(op, l, r) PROVE x.k \in {"add", "cmp"} /\ x.l = y /\ x.r = z
        <5>1. ~IsKnown(EvalConst(e, env)) /\ e = Compare(op, l, r)
          BY <1>3, <1>6, <4>2
        <5>2. NodeExpr(e, env) = Compare(op, OptExpr(l, env), OptExpr(r, env))
          BY ONLY <5>1, ExprForm
        <5>3. x = Compare(op, y, z)
          BY <1>2, <3>1, <5>2
        <5> QED
          BY <5>3, KindsApart
      <4> QED
        BY <2>4, <4>1, <4>2
    <3>7. Inside[x] = {x} \cup (Inside[y] \cup Inside[z])
      BY <1>2, <3>6 DEF AllExpressions
    <3>8. x.k # "var"
      BY <3>6
    <3> QED
      BY <3>5, <3>7, <3>8 DEF InScope
  <2> QED
    BY <1>1, <2>1, <2>2, <2>3, <2>4 DEF Built
<1> QED
  BY <1>5, <1>6

LEMMA FoldedInScope ==
    ASSUME NEW T, NEW Rank, NEW Inside, AllExpressions(T, Rank, Inside),
           \A e \in T : Folded(e) /\ Evaluated(e), NEW sc, NEW env, IsEnv(env)
    PROVE  \A e \in T : InScope(Inside, e, sc) => InScope(Inside, OptExpr(e, env), sc)
<1>1. PICK G : G = {e \in T : InScope(Inside, e, sc) => InScope(Inside, OptExpr(e, env), sc)}
  OBVIOUS
<1>2. Rank \in [T -> Nat]
  BY DEF AllExpressions
<1>3. \A e \in T : (\A d \in T : Rank[d] < Rank[e] => d \in G) => e \in G
  BY <1>1, FoldedNode
<1>4. T \subseteq G
  BY <1>2, <1>3, EveryMember
<1> QED
  BY <1>1, <1>4

\* Statements p that lead from the scopes sc to others may be followed by whatever
\* means well there.
Leads(C, S, sc, p, after) ==
    \A q \in Seq(S) : << q, after >> \in C => << p \o q, sc >> \in C

LEMMA LeadsParts ==
    ASSUME NEW T, NEW S, NEW Rank, AllStatements(T, S, Rank), NEW C, NEW Inside, Lexical(C, S, Inside),
           NEW sc, Standing(sc)
    PROVE  /\ Leads(C, S, sc, << >>, sc)
           /\ \A st \in S : MeansWell(C, Inside, st, sc) => Leads(C, S, sc, << st >>, After(st, sc))
           /\ \A p, r \in Seq(S) : Leads(C, S, sc, p, sc) /\ Leads(C, S, sc, r, sc) => Leads(C, S, sc, p \o r, sc)
<1>1. Leads(C, S, sc, << >>, sc)
  BY ConcatParts DEF Leads
<1>2. ASSUME NEW st \in S, MeansWell(C, Inside, st, sc), NEW q \in Seq(S), << q, After(st, sc) >> \in C
      PROVE  << << st >> \o q, sc >> \in C
  <2>1. PICK p : p = << st >> \o q
    OBVIOUS
  <2>2. << st >> \in Seq(S) /\ << st >> # << >> /\ Head(<< st >>) = st /\ Tail(<< st >>) = << >>
    BY ListParts
  <2>3. p \in Seq(S) /\ p # << >> /\ Head(p) = st /\ Tail(p) = << >> \o q
    BY <2>1, <2>2, ListParts, ConcatParts
  <2>4. << >> \o q = q
    BY ConcatParts
  <2>5. MeansWell(C, Inside, Head(p), sc) /\ << Tail(p), After(Head(p), sc) >> \in C
    BY <1>2, <2>3, <2>4
  <2>6. << p, sc >> \in C <=>
           \/ p = << >>
           \/ MeansWell(C, Inside, Head(p), sc) /\ << Tail(p), After(Head(p), sc) >> \in C
    BY <2>3 DEF Lexical
  <2>7. << p, sc >> \in C
    BY <2>5, <2>6
  <2> QED
    BY <2>1, <2>7
<1>3. ASSUME NEW p \in Seq(S), NEW r \in Seq(S), Leads(C, S, sc, p, sc), Leads(C, S, sc, r, sc),
             NEW q \in Seq(S), << q, sc >> \in C
      PROVE  << (p \o r) \o q, sc >> \in C
  <2>1. r \o q \in Seq(S) /\ << r \o q, sc >> \in C
    BY <1>3, ListParts DEF Leads
  <2>2. << p \o (r \o q), sc >> \in C
    BY <1>3, <2>1 DEF Leads
  <2>3. (p \o r) \o q = p \o (r \o q)
    OBVIOUS
  <2> QED
    BY <2>2, <2>3
<1> QED
  BY <1>1, <1>2, <1>3 DEF Leads

LEMMA AfterStands ==
    ASSUME NEW T, NEW S, NEW Rank, AllStatements(T, S, Rank), NEW st \in S, NEW sc, Standing(sc)
    PROVE  Standing(After(st, sc)) /\ Standing(Enter(sc))
<1>1. IsScopes(sc) /\ Depth(sc) \in Nat /\ Depth(sc) > 0
  BY StackParts DEF Standing, IsScopes
<1>2. ASSUME st.k = "decl" PROVE Standing(After(st, sc))
  <2>1. PICK n \in Names, id \in Nat : st = Decl(n, id)
    BY <1>2, StatementKinds DEF AllStatements, StatementOver
  <2>2. After(st, sc) = Declared(sc, n, id)
    BY <1>2, <2>1 DEF After, Decl
  <2>3. IsScopes(Declared(sc, n, id)) /\ Depth(Declared(sc, n, id)) = Depth(sc)
    BY <1>1, EntryKinds, SetParts DEF IsScopes, Declared
  <2> QED
    BY <1>1, <2>2, <2>3 DEF Standing
<1>3. ASSUME st.k # "decl" PROVE Standing(After(st, sc))
  BY <1>3 DEF After
<1>4. Standing(Enter(sc))
  <2>1. Absent \in Bindings /\ Stack(sc, Bindings)
    BY <1>1, EntryKinds DEF IsScopes
  <2>2. Stack(Enter(sc), Bindings) /\ Depth(Enter(sc)) = Depth(sc) + 1
    BY ONLY <2>1, EnterParts
  <2>3. Depth(Enter(sc)) > 0
    BY <1>1, <2>2
  <2> QED
    BY <2>2, <2>3 DEF IsScopes, Standing
<1> QED
  BY <1>2, <1>3, <1>4

StaysScoped(C, q) ==
    \A env, sc : IsEnv(env) /\ Depth(env) > 0 /\ Standing(sc) /\ << q, sc >> \in C =>
        << StmtsIn(OptStmts(q, env)), sc >> \in C

\* A node with its expressions and its body rewritten.
LEMMA RebuiltLeads ==
    ASSUME NEW T, NEW S, NEW Rank, AllStatements(T, S, Rank), NEW C, NEW Inside, Lexical(C, S, Inside),
           NEW sc, Standing(sc), NEW x \in T, InScope(Inside, x, sc), NEW p \in Seq(S), << p, Enter(sc) >> \in C
    PROVE  /\ Leads(C, S, sc, << If(x, p) >>, sc)
           /\ Leads(C, S, sc, << While(x, p) >>, sc)
<1>1. ASSUME NEW st, st = If(x, p) \/ st = While(x, p) PROVE Leads(C, S, sc, << st >>, sc)
  <2>1. st \in S
    BY <1>1 DEF AllStatements, StatementOver
  <2>2. st.k \in {"if", "while"} /\ st.body = p /\ st.cond = x
    BY <1>1, StatementKinds
  <2>3. \A b : BodyOf(st, b) => b = p
    BY <2>2, StatementKinds DEF BodyOf
  <2>4. (\A n, id, e : st # Assign(n, id, e)) /\ (\A n, id : st # Decl(n, id))
    BY <2>2, StatementKinds
  <2>5. OwnExprs(st) \subseteq {x}
    BY <2>2 DEF OwnExprs
  <2>6. MeansWell(C, Inside, st, sc)
    BY <2>3, <2>4, <2>5 DEF MeansWell
  <2>7. After(st, sc) = sc
    BY <2>2 DEF After
  <2> QED
    BY <2>1, <2>6, <2>7, LeadsParts
<1> QED
  BY <1>1

LEMMA BlockLeads ==
    ASSUME NEW T, NEW S, NEW Rank, AllStatements(T, S, Rank), NEW C, NEW Inside, Lexical(C, S, Inside),
           NEW sc, Standing(sc), NEW p \in Seq(S), << p, Enter(sc) >> \in C
    PROVE  Leads(C, S, sc, << Block(p) >>, sc)
<1>1. PICK st : st = Block(p)
  OBVIOUS
<1>2. st \in S
  BY <1>1 DEF AllStatements, StatementOver
<1>3. st.k = "block" /\ st.body = p
  BY <1>1, StatementKinds
<1>4. \A b : BodyOf(st, b) => b = p
  BY <1>3, StatementKinds DEF BodyOf
<1>5. (\A n, id, e : st # Assign(n, id, e)) /\ (\A n, id : st # Decl(n, id))
  BY <1>3, StatementKinds
<1>6. OwnExprs(st) = {}
  BY <1>3 DEF OwnExprs
<1>7. MeansWell(C, Inside, st, sc) /\ After(st, sc) = sc
  BY <1>3, <1>4, <1>5, <1>6 DEF MeansWell, After
<1> QED
  BY <1>1, <1>2, <1>7, LeadsParts

LEMMA UnrolledLeads ==
    ASSUME NEW T, NEW S, NEW RankT, NEW RankS, NEW Inside, Language(T, S, RankT, RankS, Inside),
           NEW C, Lexical(C, S, Inside), NEW c, NEW b \in Seq(S), StaysScoped(C, b), NEW w \in S, w = While(c, b),
           NEW sc, Standing(sc), << b, Enter(sc) >> \in C
    PROVE  \A j \in Nat : \A env : IsEnv(env) => Leads(C, S, sc, StmtsIn(Unrolled(w, env, j)), sc)
<1>1. AllStatements(T, S, RankS)
  BY DEF Language
<1>2. PICK K : K = {j \in Nat : \A env : IsEnv(env) => Leads(C, S, sc, StmtsIn(Unrolled(w, env, j)), sc)}
  OBVIOUS
<1>3. 0 \in K
  <2> SUFFICES ASSUME NEW env, IsEnv(env) PROVE Leads(C, S, sc, StmtsIn(Unrolled(w, env, 0)), sc)
    BY <1>2
  <2>1. Becomes(NodeUnrolled(w, env, 0), << >>, env)
    BY TurnsWalk
  <2>2. Unrolled(w, env, 0) = NodeUnrolled(w, env, 0)
    BY WalkIs
  <2>3. Leads(C, S, sc, << >>, sc)
    BY <1>1, LeadsParts
  <2> QED
    BY <2>1, <2>2, <2>3 DEF Becomes
<1>4. ASSUME NEW j \in Nat, j \in K PROVE j + 1 \in K
  <2>1. j + 1 \in Nat /\ \A env : IsEnv(env) => Leads(C, S, sc, StmtsIn(Unrolled(w, env, j)), sc)
    BY <1>2, <1>4
  <2> SUFFICES ASSUME NEW env, IsEnv(env) PROVE Leads(C, S, sc, StmtsIn(Unrolled(w, env, j + 1)), sc)
    BY <1>2, <2>1
  <2>2. PICK r : r = OptStmts(b, Enter(env))
    OBVIOUS
  <2>3. WalksOn(S, b)
    BY AllWalk
  <2>4. StmtsIn(r) \in Seq(S) /\ IsEnv(Leave(EnvIn(r)))
    BY <2>2, <2>3, BodyWalks
  <2>5. PICK u : u = Unrolled(w, Leave(EnvIn(r)), j)
    OBVIOUS
  <2>6. StmtsIn(u) \in Seq(S) /\ Leads(C, S, sc, StmtsIn(u), sc)
    BY <2>1, <2>3, <2>4, <2>5, UnrolledWalks DEF Walks
  <2>7. Becomes(NodeUnrolled(w, env, j + 1), << Block(StmtsIn(r)) >> \o StmtsIn(u), EnvIn(u))
    BY <2>2, <2>5, TurnsWalk
  <2>8. Unrolled(w, env, j + 1) = NodeUnrolled(w, env, j + 1)
    BY <2>1, WalkIs
  <2>9. << StmtsIn(r), Enter(sc) >> \in C
    <3>1. IsEnv(Enter(env)) /\ Depth(Enter(env)) > 0
      BY InsideParts
    <3>2. Standing(Enter(sc))
      BY <1>1, AfterStands
    <3> QED
      BY <2>2, <3>1, <3>2 DEF StaysScoped
  <2>10. PICK k : k = << Block(StmtsIn(r)) >>
    OBVIOUS
  <2>11. Leads(C, S, sc, k, sc)
    BY <1>1, <2>4, <2>9, <2>10, BlockLeads
  <2>12. k \in Seq(S)
    <3>1. Block(StmtsIn(r)) \in S
      BY <1>1, <2>4 DEF AllStatements, StatementOver
    <3> QED
      BY <1>1, <2>10, <3>1, ListParts
  <2>13. Leads(C, S, sc, k \o StmtsIn(u), sc)
    BY <1>1, <2>6, <2>11, <2>12, LeadsParts
  <2> QED
    BY <2>7, <2>8, <2>10, <2>13 DEF Becomes
<1>5. Nat \subseteq K
  BY <1>3, <1>4, EveryNumber
<1> QED
  BY <1>2, <1>5

LEMMA HeadLeads ==
    ASSUME NEW T, NEW S, NEW RankT, NEW RankS, NEW Inside, Language(T, S, RankT, RankS, Inside),
           NEW C, Lexical(C, S, Inside), NEW st \in S, \A b \in Seq(S) : BodyOf(st, b) => StaysScoped(C, b),
           NEW env, IsEnv(env), Depth(env) > 0, NEW sc, Standing(sc), MeansWell(C, Inside, st, sc),
           NEW a, a = NodeOptStmt(st, env)
    PROVE  Leads(C, S, sc, StmtsIn(a), After(st, sc))
<1>1. AllStatements(T, S, RankS) /\ AllExpressions(T, RankT, Inside) /\ StatementOver(T, S, st)
  BY DEF Language, AllStatements
<1>2. \A e \in T : \A v : IsEnv(v) => OptExpr(e, v) \in T
  BY AllFoldWell DEF Language, FoldsWell
<1>3. \A e \in T : \A v : IsEnv(v) /\ InScope(Inside, e, sc) => InScope(Inside, OptExpr(e, v), sc)
  BY FoldedInScope DEF Language
<1>4. Leads(C, S, sc, << >>, sc)
  BY <1>1, LeadsParts
<1>5. ASSUME NEW v, IsEnv(v), NEW b \in Seq(S), BodyOf(st, b), NEW r, r = OptStmts(b, Enter(v))
      PROVE  StmtsIn(r) \in Seq(S) /\ << StmtsIn(r), Enter(sc) >> \in C
  <2>1. IsEnv(Enter(v)) /\ Depth(Enter(v)) > 0
    BY <1>5, InsideParts
  <2>2. Standing(Enter(sc))
    BY <1>1, AfterStands
  <2>3. << b, Enter(sc) >> \in C /\ StaysScoped(C, b)
    BY <1>5 DEF MeansWell
  <2>4. << StmtsIn(r), Enter(sc) >> \in C
    BY <1>5, <2>1, <2>2, <2>3 DEF StaysScoped
  <2>5. WalksOn(S, b)
    BY AllWalk
  <2> QED
    BY <1>5, <2>4, <2>5, BodyWalks
<1>6. CASE \E n \in Names, id \in Nat : st = Decl(n, id)
  <2>1. PICK n \in Names, id \in Nat : st = Decl(n, id)
    BY <1>6
  <2>2. StmtsIn(a) = << st >>
    BY <2>1, SimpleWalk DEF Becomes
  <2> QED
    BY <1>1, <2>2, LeadsParts
<1>7. CASE \E n \in Names, id \in Nat, e \in T : st = Assign(n, id, e)
  <2>1. PICK n \in Names, id \in Nat, e \in T : st = Assign(n, id, e)
    BY <1>7
  <2>2. PICK x : x = OptExpr(e, env)
    OBVIOUS
  <2>3. PICK p : p = Assign(n, id, x)
    OBVIOUS
  <2>4. StmtsIn(a) = << p >>
    BY <2>1, <2>2, <2>3, SimpleWalk DEF Becomes
  <2>5. e \in OwnExprs(st) /\ After(st, sc) = sc
    BY <2>1, StatementKinds DEF OwnExprs, After
  <2>6. InScope(Inside, x, sc) /\ x \in T /\ Resolved(sc, n, id)
    BY <1>2, <1>3, <2>1, <2>2, <2>5 DEF MeansWell
  <2>7. p.k = "assign" /\ p.name = n /\ p.scope = id /\ p.e = x
    BY <2>3, StatementKinds
  <2>8. (\A b : ~BodyOf(p, b)) /\ (\A m, i : p # Decl(m, i))
    BY <2>7, StatementKinds DEF BodyOf
  <2>9. \A m, i, y : p = Assign(m, i, y) => m = n /\ i = id
    BY <2>7, StatementKinds
  <2>10. OwnExprs(p) = {x}
    BY <2>7 DEF OwnExprs
  <2>11. MeansWell(C, Inside, p, sc) /\ After(p, sc) = sc
    BY <2>6, <2>7, <2>8, <2>9, <2>10 DEF MeansWell, After
  <2>12. p \in S
    BY <1>1, <2>3, <2>6 DEF AllStatements, StatementOver
  <2> QED
    BY <1>1, <2>4, <2>5, <2>11, <2>12, LeadsParts
<1>8. CASE \E e \in T : st = PrintOf(e)
  <2>1. PICK e \in T : st = PrintOf(e)
    BY <1>8
  <2>2. PICK x : x = OptExpr(e, env)
    OBVIOUS
  <2>3. PICK p : p = PrintOf(x)
    OBVIOUS
  <2>4. StmtsIn(a) = << p >>
    BY <2>1, <2>2, <2>3, SimpleWalk DEF Becomes
  <2>5. e \in OwnExprs(st) /\ After(st, sc) = sc
    BY <2>1, StatementKinds DEF OwnExprs, After
  <2>6. InScope(Inside, x, sc) /\ x \in T
    BY <1>2, <1>3, <2>2, <2>5 DEF MeansWell
  <2>7. p.k = "print" /\ p.e = x
    BY <2>3, StatementKinds
  <2>8. (\A b : ~BodyOf(p, b)) /\ (\A m, i, y : p # Assign(m, i, y)) /\ (\A m, i : p # Decl(m, i))
    BY <2>7, StatementKinds DEF BodyOf
  <2>9. OwnExprs(p) = {x}
    BY <2>7 DEF OwnExprs
  <2>10. MeansWell(C, Inside, p, sc) /\ After(p, sc) = sc
    BY <2>6, <2>7, <2>8, <2>9 DEF MeansWell, After
  <2>11. p \in S
    BY <1>1, <2>3, <2>6 DEF AllStatements, StatementOver
  <2> QED
    BY <1>1, <2>4, <2>5, <2>10, <2>11, LeadsParts
<1>9. CASE \E b \in Seq(S) : st = Block(b)
  <2>1. PICK b \in Seq(S) : st = Block(b)
    BY <1>9
  <2>2. PICK r : r = OptStmts(b, Enter(env))
    OBVIOUS
  <2>3. StmtsIn(r) \in Seq(S) /\ << StmtsIn(r), Enter(sc) >> \in C
    BY <1>5, <2>1, <2>2 DEF BodyOf
  <2>4. StmtsIn(a) = << Block(StmtsIn(r)) >>
    BY <2>1, <2>2, BlockWalk DEF Becomes
  <2>5. After(st, sc) = sc
    BY <2>1, StatementKinds DEF After
  <2> QED
    BY <1>1, <2>3, <2>4, <2>5, BlockLeads
<1>10. ASSUME NEW c \in T, NEW b \in Seq(S), st = If(c, b) PROVE Leads(C, S, sc, StmtsIn(a), After(st, sc))
  <2>1. PICK r : r = OptStmts(b, Enter(env))
    OBVIOUS
  <2>2. StmtsIn(r) \in Seq(S) /\ << StmtsIn(r), Enter(sc) >> \in C
    BY <1>5, <1>10, <2>1 DEF BodyOf
  <2>3. PICK x : x = OptExpr(c, env)
    OBVIOUS
  <2>4. c \in OwnExprs(st) /\ After(st, sc) = sc
    BY <1>10, StatementKinds DEF OwnExprs, After
  <2>5. x \in T /\ InScope(Inside, x, sc)
    BY <1>2, <1>3, <2>3, <2>4 DEF MeansWell
  <2>6. StmtsIn(a) \in {<< >>, << Block(StmtsIn(r)) >>, << If(x, StmtsIn(r)) >>}
    BY <1>10, <2>1, <2>3, BlockWalk DEF Becomes
  <2> QED
    BY <1>1, <1>4, <2>2, <2>4, <2>5, <2>6, BlockLeads, RebuiltLeads
<1>11. ASSUME NEW c \in T, NEW b \in Seq(S), st = While(c, b) PROVE Leads(C, S, sc, StmtsIn(a), After(st, sc))
  <2>1. PICK stable : stable = AfterBody(env, Assigned(b))
    OBVIOUS
  <2>2. IsEnv(stable)
    BY <2>1, EnvParts
  <2>3. PICK r : r = OptStmts(b, Enter(stable))
    OBVIOUS
  <2>4. BodyOf(st, b)
    BY <1>11 DEF BodyOf
  <2>5. StmtsIn(r) \in Seq(S) /\ << StmtsIn(r), Enter(sc) >> \in C
    BY <1>5, <2>2, <2>3, <2>4
  <2>6. PICK x : x = OptExpr(c, stable)
    OBVIOUS
  <2>7. c \in OwnExprs(st) /\ After(st, sc) = sc
    BY <1>11, StatementKinds DEF OwnExprs, After
  <2>8. x \in T /\ InScope(Inside, x, sc)
    BY <1>2, <1>3, <2>2, <2>6, <2>7 DEF MeansWell
  <2>9. /\ IsFalse(x) => Becomes(NodeOptStmt(st, env), << >>, env)
        /\ ~IsFalse(x) /\ Turns(st, env) # {} =>
              NodeOptStmt(st, env) = Unrolled(st, env, TurnsLeft(st, env))
        /\ ~IsFalse(x) /\ Turns(st, env) = {} =>
              Becomes(NodeOptStmt(st, env), << While(x, StmtsIn(r)) >>, stable)
    BY <1>11, <2>1, <2>3, <2>6, WhileWalk
  <2>10. CASE IsFalse(x)
    BY <1>4, <2>7, <2>9, <2>10 DEF Becomes
  <2>11. CASE ~IsFalse(x) /\ Turns(st, env) = {}
    <3>1. StmtsIn(a) = << While(x, StmtsIn(r)) >>
      BY <2>9, <2>11 DEF Becomes
    <3> QED
      BY <1>1, <2>5, <2>7, <2>8, <3>1, RebuiltLeads
  <2>12. CASE ~IsFalse(x) /\ Turns(st, env) # {}
    <3>1. TurnsLeft(st, env) \in Nat
      BY <1>11, <2>12, TurnsParts
    <3>2. StaysScoped(C, b) /\ << b, Enter(sc) >> \in C
      BY <2>4 DEF MeansWell
    <3>3. \A j \in Nat : \A v : IsEnv(v) => Leads(C, S, sc, StmtsIn(Unrolled(st, v, j)), sc)
      BY <1>11, <3>2, UnrolledLeads
    <3> QED
      BY <2>7, <2>9, <2>12, <3>1, <3>3
  <2> QED
    BY <2>10, <2>11, <2>12
<1> QED
  BY <1>1, <1>6, <1>7, <1>8, <1>9, <1>10, <1>11 DEF StatementOver

LEMMA AllStayScoped ==
    ASSUME NEW T, NEW S, NEW RankT, NEW RankS, NEW Inside, Language(T, S, RankT, RankS, Inside),
           NEW C, Lexical(C, S, Inside)
    PROVE  \A q \in Seq(S) : StaysScoped(C, q)
<1>1. AllStatements(T, S, RankS) /\ RankS \in [Seq(S) -> Nat]
  BY DEF Language, AllStatements
<1>2. PICK Q : Q = Seq(S)
  OBVIOUS
<1>3. PICK W : W = {q \in Q : StaysScoped(C, q)}
  OBVIOUS
<1>4. ASSUME NEW q \in Q, \A b \in Q : RankS[b] < RankS[q] => b \in W PROVE q \in W
  <2> SUFFICES ASSUME NEW env, IsEnv(env), Depth(env) > 0, NEW sc, Standing(sc), << q, sc >> \in C
               PROVE  << StmtsIn(OptStmts(q, env)), sc >> \in C
    BY <1>3 DEF StaysScoped
  <2>1. CASE q = << >>
    BY <2>1, WalkIs DEF Becomes
  <2>2. CASE q # << >>
    <3>1. PICK st, rest : st = Head(q) /\ rest = Tail(q)
      OBVIOUS
    <3>2. /\ st \in S /\ rest \in Seq(S) /\ RankS[rest] < RankS[q]
          /\ \A b : BodyOf(st, b) => RankS[b] < RankS[q]
      BY <1>1, <1>2, <2>2, <3>1, ListParts
    <3>3. \A b \in Seq(S) : RankS[b] < RankS[q] => StaysScoped(C, b)
      BY <1>2, <1>3, <1>4
    <3>4. MeansWell(C, Inside, st, sc) /\ << rest, After(st, sc) >> \in C
      BY <1>2, <2>2, <3>1 DEF Lexical
    <3>5. PICK a : a = NodeOptStmt(st, env)
      OBVIOUS
    <3>6. IsEnv(EnvIn(a)) /\ Depth(EnvIn(a)) = Depth(env)
      <4>1. \A b \in Seq(S) : BodyOf(st, b) => WalksOn(S, b)
        BY AllWalk
      <4>2. Walks(S, env, a)
        BY <3>2, <3>5, <4>1, HeadWalks
      <4> QED
        BY <4>2 DEF Walks
    <3>7. PICK d : d = OptStmts(rest, EnvIn(a))
      OBVIOUS
    <3>8. Standing(After(st, sc)) /\ StaysScoped(C, rest)
      BY <1>1, <3>2, <3>3, AfterStands
    <3>9. << StmtsIn(d), After(st, sc) >> \in C
      BY <3>4, <3>6, <3>7, <3>8 DEF StaysScoped
    <3>10. StmtsIn(d) \in Seq(S)
      <4>1. WalksOn(S, rest)
        BY <3>2, AllWalk
      <4> QED
        BY <3>6, <3>7, <4>1 DEF WalksOn, Walks
    <3>11. Leads(C, S, sc, StmtsIn(a), After(st, sc))
      <4>1. \A b \in Seq(S) : BodyOf(st, b) => StaysScoped(C, b)
        BY <3>2, <3>3
      <4> QED
        BY <3>2, <3>4, <3>5, <4>1, HeadLeads
    <3>12. StmtsIn(OptStmts(q, env)) = StmtsIn(a) \o StmtsIn(d)
      BY <1>2, <2>2, <3>1, <3>5, <3>7, WalkIs DEF Becomes
    <3> QED
      BY <3>9, <3>10, <3>11, <3>12 DEF Leads
  <2> QED
    BY <2>1, <2>2
<1>5. Q \subseteq W
  <2>1. RankS \in [Q -> Nat] /\ \A q \in Q : (\A b \in Q : RankS[b] < RankS[q] => b \in W) => q \in W
    BY <1>1, <1>2, <1>4
  <2> QED
    BY ONLY <2>1, EveryMember
<1> QED
  BY <1>2, <1>3, <1>5

\* The scope ids in the tree stay right (optimizeAstProgram does not look at
\* them): where every name of the source has the id of the declaration that it
\* means by the nesting of blocks, every name of the optimized program has, too, so
\* that the back ends that look names up anew and the one that goes by the ids mean
\* the same variables.
THEOREM ScopesStay ==
    ASSUME NEW T, NEW S, NEW RankT, NEW RankS, NEW Inside, Language(T, S, RankT, RankS, Inside),
           NEW C, Lexical(C, S, Inside), NEW q \in Seq(S), << q, Enter(<< >>) >> \in C
    PROVE  << StmtsIn(OptBlock(q, << >>)), Enter(<< >>) >> \in C
<1>1. PICK e : e = Enter(<< >>)
  OBVIOUS
<1>2. IsEnv(e) /\ Depth(e) > 0 /\ Standing(e)
  BY <1>1, Outside DEF Standing
<1>3. StaysScoped(C, q)
  BY AllStayScoped
<1>4. PICK r : r = OptStmts(q, e)
  OBVIOUS
<1>5. << StmtsIn(r), e >> \in C
  BY <1>1, <1>2, <1>3, <1>4 DEF StaysScoped
<1>6. StmtsIn(OptBlock(q, << >>)) = StmtsIn(r)
  BY <1>1, <1>4, ResultParts DEF OptBlock, Becomes
<1> QED
  BY <1>1, <1>5, <1>6

-----------------------------------------------------------------------------
(***************************************************************************)
(* Types.                                                                  *)
(***************************************************************************)
\* The type of each expression, where kinds are the types the variables were
\* declared with.
Typing(T, kinds, Type) ==
    /\ kinds \in [Names \X Nat -> Kinds]
    /\ \A e \in T : Type[e] = InferOf(Type[e.l], Type[e.r], kinds[<< e.name, e.scope >>], e)

\* What the walk knows of a variable has the variable's type.
KnowsKinds(env, sc, kinds) == KnowsOf("kind", env, sc, kinds)

LEMMA InferForm ==
    ASSUME NEW T, NEW kinds, NEW Type, Typing(T, kinds, Type)
    PROVE  /\ \A kind, v : Lit(kind, v) \in T => Type[Lit(kind, v)] = kind
           /\ \A n, id : Var(n, id) \in T => Type[Var(n, id)] = kinds[<< n, id >>]
           /\ \A l, r : Add(l, r) \in T =>
                 Type[Add(l, r)] = IF Type[l] = "int" /\ Type[r] = "int" THEN "int" ELSE "invalid"
           /\ \A op, l, r : Compare(op, l, r) \in T =>
                 Type[Compare(op, l, r)] = IF Type[l] = Type[r] /\ Type[l] # "invalid" THEN "bool" ELSE "invalid"
<1>1. ASSUME NEW e \in T PROVE Type[e] = InferOf(Type[e.l], Type[e.r], kinds[<< e.name, e.scope >>], e)
  BY DEF Typing
<1>2. ASSUME NEW kind, NEW v, NEW e \in T, e = Lit(kind, v) PROVE Type[e] = kind
  <2>1. e.k = "lit" /\ e.kind = kind
    BY <1>2, KindsApart
  <2> QED
    BY <1>1, <2>1 DEF InferOf
<1>3. ASSUME NEW n, NEW id, NEW e \in T, e = Var(n, id) PROVE Type[e] = kinds[<< n, id >>]
  <2>1. e.k = "var" /\ e.name = n /\ e.scope = id
    BY <1>3, KindsApart
  <2> QED
    BY <1>1, <2>1 DEF InferOf
<1>4. ASSUME NEW l, NEW r, NEW e \in T, e = Add(l, r)
      PROVE  Type[e] = IF Type[l] = "int" /\ Type[r] = "int" THEN "int" ELSE "invalid"
  <2>1. e.k = "add" /\ e.l = l /\ e.r = r
    BY <1>4, KindsApart
  <2> QED
    BY <1>1, <2>1 DEF InferOf
<1>5. ASSUME NEW op, NEW l, NEW r, NEW e \in T, e = Compare(op, l, r)
      PROVE  Type[e] = IF Type[l] = Type[r] /\ Type[l] # "invalid" THEN "bool" ELSE "invalid"
  <2>1. e.k = "cmp" /\ e.l = l /\ e.r = r
    BY <1>5, KindsApart
  <2> QED
    BY <1>1, <2>1 DEF InferOf
<1> QED
  BY <1>2, <1>3, <1>4, <1>5

\* In expression e.
KeepsType(Inside, Type, kinds, e) ==
    \A env, sc :
        IsEnv(env) /\ IsScopes(sc) /\ KnowsKinds(env, sc, kinds)
        /\ InScope(Inside, e, sc) /\ Type[e] # "invalid" =>
            /\ IsKnown(EvalConst(e, env)) => EvalConst(e, env).kind = Type[e]
            /\ Type[OptExpr(e, env)] = Type[e]

LEMMA TypeNode ==
    ASSUME NEW T, NEW Rank, NEW Inside, AllExpressions(T, Rank, Inside),
           \A e \in T : Folded(e) /\ Evaluated(e), NEW kinds, NEW Type, Typing(T, kinds, Type),
           NEW e \in T, \A d \in T : Rank[d] < Rank[e] => KeepsType(Inside, Type, kinds, d)
    PROVE  KeepsType(Inside, Type, kinds, e)
<1> SUFFICES ASSUME NEW env, NEW sc, IsEnv(env), IsScopes(sc), KnowsKinds(env, sc, kinds),
                    InScope(Inside, e, sc), Type[e] # "invalid"
             PROVE  /\ IsKnown(EvalConst(e, env)) => EvalConst(e, env).kind = Type[e]
                    /\ Type[OptExpr(e, env)] = Type[e]
  BY DEF KeepsType
<1>1. PICK c, x : c = EvalConst(e, env) /\ x = OptExpr(e, env)
  OBVIOUS
<1>2. c = NodeConst(e, env) /\ x = NodeExpr(e, env) /\ x \in T /\ c \in Consts
  BY <1>1, AllFoldWell DEF Folded, FoldsWell
<1>3. IsKnown(c) => x = Lit(c.kind, c.v)
  BY <1>1, <1>2, ExprForm
<1>4. IsKnown(c) => Type[x] = c.kind
  BY <1>2, <1>3, InferForm
<1>5. Built(T, Rank, e)
  BY DEF AllExpressions
<1>6. CASE \E kind \in Kinds, v \in Nat : e = Lit(kind, v)
  <2>1. PICK kind \in Kinds, v \in Nat : e = Lit(kind, v)
    BY <1>6
  <2>2. c = Const(kind, v)
    BY <1>2, <2>1, ConstForm
  <2>3. Type[e] = kind
    BY <2>1, InferForm
  <2> QED
    BY <1>1, <1>4, <2>2, <2>3, EntryKinds
<1>7. CASE \E n \in Names, id \in Nat : e = Var(n, id)
  <2>1. PICK n \in Names, id \in Nat : e = Var(n, id)
    BY <1>7
  <2>2. c = Lookup(env, n)
    BY <1>2, <2>1, ConstForm
  <2>3. Type[e] = kinds[<< n, id >>]
    BY <2>1, InferForm
  <2>4. Resolved(sc, n, id)
    <3>1. e.k = "var" /\ e.name = n /\ e.scope = id
      BY <2>1, KindsApart
    <3>2. e \in Inside[e]
      BY DEF AllExpressions
    <3> QED
      BY <3>1, <3>2 DEF InScope
  <2>5. IsKnown(c) => c.kind = Val(kinds, << n, id >>)
    BY <2>2, <2>4, LookupOf, ValueAspect DEF KnowsKinds
  <2>6. Val(kinds, << n, id >>) = kinds[<< n, id >>]
    <3>1. << n, id >> \in DOMAIN kinds
      BY DEF Typing
    <3> QED
      BY <3>1 DEF Val
  <2>7. ~IsKnown(c) => x = e
    BY <1>1, <1>2, <2>1, ExprForm
  <2> QED
    BY <1>1, <1>4, <2>3, <2>5, <2>6, <2>7
<1>8. ASSUME NEW l \in T, NEW r \in T, Rank[l] < Rank[e], Rank[r] < Rank[e],
             e = Add(l, r) \/ \E op \in {"==", "!="} : e = Compare(op, l, r)
      PROVE  (IsKnown(c) => c.kind = Type[e]) /\ Type[x] = Type[e]
  <2>1. PICK y, z : y = OptExpr(l, env) /\ z = OptExpr(r, env)
    OBVIOUS
  <2>2. e.k \in {"add", "cmp"} /\ e.l = l /\ e.r = r
    BY <1>8, KindsApart
  <2>3. Inside[e] = {e} \cup (Inside[l] \cup Inside[r])
    BY <2>2 DEF AllExpressions
  <2>4. InScope(Inside, l, sc) /\ InScope(Inside, r, sc)
    BY <2>3 DEF InScope
  <2>5. /\ Type[l] # "invalid" => Type[y] = Type[l]
        /\ Type[r] # "invalid" => Type[z] = Type[r]
    BY <1>8, <2>1, <2>4 DEF KeepsType
  <2>6. CASE e = Add(l, r)
    <3>1. Type[e] = "int" /\ Type[l] = "int" /\ Type[r] = "int"
      <4>1. Type[e] = IF Type[l] = "int" /\ Type[r] = "int" THEN "int" ELSE "invalid"
        BY <2>6, InferForm
      <4> QED
        BY <4>1
    <3>2. c = Unknown \/ \E v : c = Const("int", v)
      BY <1>2, <2>6, ConstForm
    <3>3. IsKnown(c) => c.kind = "int"
      BY <3>2, EntryKinds
    <3>4. ~IsKnown(c) => x = Add(y, z)
      BY <1>1, <1>2, <2>1, <2>6, ExprForm
    <3>5. ~IsKnown(c) => Type[x] = "int"
      BY <1>2, <2>5, <3>1, <3>4, InferForm
    <3> QED
      BY <1>4, <3>1, <3>3, <3>5
  <2>7. ASSUME NEW op \in {"==", "!="}, e = Compare(op, l, r)
        PROVE  (IsKnown(c) => c.kind = Type[e]) /\ Type[x] = Type[e]
    <3>1. Type[e] = "bool" /\ Type[l] # "invalid" /\ Type[l] = Type[r]
      <4>1. Type[e] = IF Type[l] = Type[r] /\ Type[l] # "invalid" THEN "bool" ELSE "invalid"
        BY <2>7, InferForm
      <4> QED
        BY <4>1
    <3>2. c = Unknown \/ \E v : c = Const("bool", v)
      BY <1>2, <2>7, ConstForm
    <3>3. IsKnown(c) => c.kind = "bool"
      BY <3>2, EntryKinds
    <3>4. ASSUME ~IsKnown(c) PROVE x = Compare(op, y, z)
      <4>1. ~IsKnown(EvalConst(e, env)) /\ e = Compare(op, l, r)
        BY <1>1, <2>7, <3>4
      <4>2. NodeExpr(e, env) = Compare(op, OptExpr(l, env), OptExpr(r, env))
        BY ONLY <4>1, ExprForm
      <4> QED
        BY <1>2, <2>1, <4>2
    <3>5. ASSUME ~IsKnown(c) PROVE Type[x] = "bool"
      <4>1. Type[x] = IF Type[y] = Type[z] /\ Type[y] # "invalid" THEN "bool" ELSE "invalid"
        BY <1>2, <3>4, <3>5, InferForm
      <4> QED
        BY <2>5, <3>1, <4>1
    <3> QED
      BY <1>4, <3>1, <3>3, <3>5
  <2> QED
    BY <1>8, <2>6, <2>7
<1> QED
  BY <1>1, <1>5, <1>6, <1>7, <1>8 DEF Built

\* Folding keeps types (optimizeExpr, optimizeBoolExpr): an expression the type
\* pass accepts has the same type when it is optimized, so that a print or a
\* comparison is compiled for the type it was written for (codegen.cpp:606: "The
\* type checker should have caught this").
THEOREM FoldingKeepsType ==
    ASSUME NEW T, NEW Rank, NEW Inside, AllExpressions(T, Rank, Inside),
           \A e \in T : Folded(e) /\ Evaluated(e), NEW kinds, NEW Type, Typing(T, kinds, Type)
    PROVE  \A e \in T : KeepsType(Inside, Type, kinds, e)
<1>1. PICK G : G = {e \in T : KeepsType(Inside, Type, kinds, e)}
  OBVIOUS
<1>2. Rank \in [T -> Nat]
  BY DEF AllExpressions
<1>3. \A e \in T : (\A d \in T : Rank[d] < Rank[e] => d \in G) => e \in G
  BY <1>1, TypeNode
<1>4. T \subseteq G
  BY <1>2, <1>3, EveryMember
<1> QED
  BY <1>1, <1>4

\* D are the sequences of statements in which the type pass finds nothing to report,
\* where every name is declared (TypeChecker::visitAssign, visitBlock).
AcceptedStatement(D, Type, kinds, st) ==
    /\ \A n, id, e : st = Assign(n, id, e) => Type[e] = kinds[<< n, id >>]
    /\ \A e : st = PrintOf(e) => Type[e] # "invalid"
    /\ \A c, b : st = If(c, b) \/ st = While(c, b) => Type[c] = "bool"
    /\ \A b : BodyOf(st, b) => b \in D
AcceptedBlocks(D, S, Type, kinds) ==
    \A q \in Seq(S) :
        q \in D <=>
            \/ q = << >>
            \/ AcceptedStatement(D, Type, kinds, Head(q)) /\ Tail(q) \in D

\* Statements p may come before whatever is accepted.
Precedes(D, S, p) == \A q \in Seq(S) : q \in D => p \o q \in D

LEMMA PrecedesParts ==
    ASSUME NEW T, NEW S, NEW Rank, AllStatements(T, S, Rank),
           NEW D, NEW Type, NEW kinds, AcceptedBlocks(D, S, Type, kinds)
    PROVE  /\ Precedes(D, S, << >>) /\ << >> \in D
           /\ \A st \in S : AcceptedStatement(D, Type, kinds, st) => Precedes(D, S, << st >>)
           /\ \A p, r \in Seq(S) : Precedes(D, S, p) /\ Precedes(D, S, r) => Precedes(D, S, p \o r)
<1>1. Precedes(D, S, << >>)
  BY ConcatParts DEF Precedes
<1>2. << >> \in D
  BY ListParts DEF AcceptedBlocks
<1>3. ASSUME NEW st \in S, AcceptedStatement(D, Type, kinds, st), NEW q \in Seq(S), q \in D
      PROVE  << st >> \o q \in D
  <2>1. PICK p : p = << st >> \o q
    OBVIOUS
  <2>2. << st >> \in Seq(S) /\ << st >> # << >> /\ Head(<< st >>) = st /\ Tail(<< st >>) = << >>
    BY ListParts
  <2>3. p \in Seq(S) /\ p # << >> /\ Head(p) = st /\ Tail(p) = << >> \o q
    BY <2>1, <2>2, ListParts, ConcatParts
  <2>4. << >> \o q = q
    BY ConcatParts
  <2>5. AcceptedStatement(D, Type, kinds, Head(p)) /\ Tail(p) \in D
    BY <1>3, <2>3, <2>4
  <2>6. p \in D <=>
           \/ p = << >>
           \/ AcceptedStatement(D, Type, kinds, Head(p)) /\ Tail(p) \in D
    BY <2>3 DEF AcceptedBlocks
  <2> QED
    BY <2>1, <2>5, <2>6
<1>4. ASSUME NEW p \in Seq(S), NEW r \in Seq(S), Precedes(D, S, p), Precedes(D, S, r), NEW q \in Seq(S), q \in D
      PROVE  (p \o r) \o q \in D
  <2>1. r \o q \in Seq(S) /\ r \o q \in D
    BY <1>4, ListParts DEF Precedes
  <2>2. p \o (r \o q) \in D
    BY <1>4, <2>1 DEF Precedes
  <2>3. (p \o r) \o q = p \o (r \o q)
    OBVIOUS
  <2> QED
    BY <2>2, <2>3
<1> QED
  BY <1>1, <1>2, <1>3, <1>4 DEF Precedes

LEMMA BodyPrecedes ==
    ASSUME NEW T, NEW S, NEW Rank, AllStatements(T, S, Rank),
           NEW D, NEW Type, NEW kinds, AcceptedBlocks(D, S, Type, kinds), NEW p \in Seq(S), p \in D
    PROVE  /\ Precedes(D, S, << Block(p) >>)
           /\ \A x \in T : Type[x] = "bool" =>
                 Precedes(D, S, << If(x, p) >>) /\ Precedes(D, S, << While(x, p) >>)
<1>1. ASSUME NEW st \in S, BodyOf(st, p), \A c, b : st = If(c, b) \/ st = While(c, b) => Type[c] = "bool"
      PROVE  Precedes(D, S, << st >>)
  <2>1. st.k \in {"block", "if", "while"} /\ st.body = p
    BY <1>1, StatementKinds DEF BodyOf
  <2>2. \A b : BodyOf(st, b) => b = p
    BY <2>1, StatementKinds DEF BodyOf
  <2>3. (\A n, id, e : st # Assign(n, id, e)) /\ (\A e : st # PrintOf(e))
    BY <2>1, StatementKinds
  <2>4. AcceptedStatement(D, Type, kinds, st)
    BY <1>1, <2>2, <2>3 DEF AcceptedStatement
  <2> QED
    BY <2>4, PrecedesParts
<1>2. Precedes(D, S, << Block(p) >>)
  <2>1. PICK st : st = Block(p)
    OBVIOUS
  <2>2. st \in S /\ BodyOf(st, p)
    BY <2>1 DEF AllStatements, StatementOver, BodyOf
  <2>3. \A c, b : st # If(c, b) /\ st # While(c, b)
    <3>1. st.k = "block"
      BY <2>1, StatementKinds
    <3> QED
      BY <3>1, StatementKinds
  <2> QED
    BY <1>1, <2>1, <2>2, <2>3
<1>3. ASSUME NEW x \in T, Type[x] = "bool", NEW st, st = If(x, p) \/ st = While(x, p)
      PROVE  Precedes(D, S, << st >>)
  <2>1. st \in S /\ BodyOf(st, p)
    BY <1>3 DEF AllStatements, StatementOver, BodyOf
  <2>2. st.cond = x
    BY <1>3, StatementKinds
  <2>3. \A c, b : st = If(c, b) \/ st = While(c, b) => c = x
    BY <2>2, StatementKinds
  <2> QED
    BY <1>1, <1>3, <2>1, <2>3
<1> QED
  BY <1>2, <1>3

StaysTyped(C, D, kinds, q) ==
    \A env, sc :
        IsEnv(env) /\ Depth(env) > 0 /\ Standing(sc) /\ KnowsKinds(env, sc, kinds)
        /\ << q, sc >> \in C /\ q \in D =>
            /\ StmtsIn(OptStmts(q, env)) \in D
            /\ KnowsKinds(Leave(EnvIn(OptStmts(q, env))), Leave(sc), kinds)

LEMMA BodyTyped ==
    ASSUME NEW T, NEW S, NEW RankT, NEW RankS, NEW Inside, Language(T, S, RankT, RankS, Inside),
           NEW C, NEW D, NEW kinds, NEW b \in Seq(S), StaysTyped(C, D, kinds, b),
           NEW env, IsEnv(env), NEW sc, Standing(sc), KnowsKinds(env, sc, kinds),
           << b, Enter(sc) >> \in C, b \in D, NEW r, r = OptStmts(b, Enter(env))
    PROVE  /\ StmtsIn(r) \in Seq(S) /\ StmtsIn(r) \in D
           /\ IsEnv(Leave(EnvIn(r))) /\ KnowsKinds(Leave(EnvIn(r)), sc, kinds)
<1>1. IsEnv(Enter(env)) /\ Depth(Enter(env)) > 0
  BY InsideParts
<1>2. IsScopes(sc) /\ Standing(Enter(sc))
  <2>1. AllStatements(T, S, RankS)
    BY DEF Language
  <2>2. \A st \in S : Standing(Enter(sc))
    BY <2>1, AfterStands
  <2>3. Block(b) \in S
    BY <2>1 DEF AllStatements, StatementOver
  <2> QED
    BY <2>2, <2>3 DEF Standing
<1>3. KnowsKinds(Enter(env), Enter(sc), kinds)
  BY <1>2, EnteredOf DEF KnowsKinds
<1>4. StmtsIn(r) \in D /\ KnowsKinds(Leave(EnvIn(r)), Leave(Enter(sc)), kinds)
  BY <1>1, <1>2, <1>3 DEF StaysTyped
<1>5. Leave(Enter(sc)) = sc
  BY <1>2, LeftAsBefore
<1>6. WalksOn(S, b)
  BY AllWalk
<1> QED
  BY <1>4, <1>5, <1>6, BodyWalks

LEMMA UnrolledTyped ==
    ASSUME NEW T, NEW S, NEW RankT, NEW RankS, NEW Inside, Language(T, S, RankT, RankS, Inside),
           NEW C, NEW D, NEW Type, NEW kinds, AcceptedBlocks(D, S, Type, kinds),
           NEW c, NEW b \in Seq(S), StaysTyped(C, D, kinds, b), NEW w \in S, w = While(c, b),
           NEW sc, Standing(sc), << b, Enter(sc) >> \in C, b \in D
    PROVE  \A j \in Nat : \A env : IsEnv(env) /\ KnowsKinds(env, sc, kinds) =>
              /\ Precedes(D, S, StmtsIn(Unrolled(w, env, j)))
              /\ KnowsKinds(EnvIn(Unrolled(w, env, j)), sc, kinds)
<1>1. AllStatements(T, S, RankS)
  BY DEF Language
<1>2. PICK K : K = {j \in Nat : \A env : IsEnv(env) /\ KnowsKinds(env, sc, kinds) =>
                                    /\ Precedes(D, S, StmtsIn(Unrolled(w, env, j)))
                                    /\ KnowsKinds(EnvIn(Unrolled(w, env, j)), sc, kinds)}
  OBVIOUS
<1>3. 0 \in K
  <2> SUFFICES ASSUME NEW env, IsEnv(env), KnowsKinds(env, sc, kinds)
               PROVE  /\ Precedes(D, S, StmtsIn(Unrolled(w, env, 0)))
                      /\ KnowsKinds(EnvIn(Unrolled(w, env, 0)), sc, kinds)
    BY <1>2
  <2>1. Becomes(NodeUnrolled(w, env, 0), << >>, env)
    BY TurnsWalk
  <2>2. Unrolled(w, env, 0) = NodeUnrolled(w, env, 0)
    BY WalkIs
  <2>3. Precedes(D, S, << >>)
    BY <1>1, PrecedesParts
  <2> QED
    BY <2>1, <2>2, <2>3 DEF Becomes
<1>4. ASSUME NEW j \in Nat, j \in K PROVE j + 1 \in K
  <2>1. j + 1 \in Nat /\ \A env : IsEnv(env) /\ KnowsKinds(env, sc, kinds) =>
            /\ Precedes(D, S, StmtsIn(Unrolled(w, env, j)))
            /\ KnowsKinds(EnvIn(Unrolled(w, env, j)), sc, kinds)
    BY <1>2, <1>4
  <2> SUFFICES ASSUME NEW env, IsEnv(env), KnowsKinds(env, sc, kinds)
               PROVE  /\ Precedes(D, S, StmtsIn(Unrolled(w, env, j + 1)))
                      /\ KnowsKinds(EnvIn(Unrolled(w, env, j + 1)), sc, kinds)
    BY <1>2, <2>1
  <2>2. PICK r : r = OptStmts(b, Enter(env))
    OBVIOUS
  <2>3. /\ StmtsIn(r) \in Seq(S) /\ StmtsIn(r) \in D
        /\ IsEnv(Leave(EnvIn(r))) /\ KnowsKinds(Leave(EnvIn(r)), sc, kinds)
    BY <2>2, BodyTyped
  <2>4. PICK u : u = Unrolled(w, Leave(EnvIn(r)), j)
    OBVIOUS
  <2>5. Precedes(D, S, StmtsIn(u)) /\ KnowsKinds(EnvIn(u), sc, kinds)
    BY <2>1, <2>3, <2>4
  <2>6. StmtsIn(u) \in Seq(S)
    <3>1. WalksOn(S, b)
      BY AllWalk
    <3> QED
      BY <2>3, <2>4, <3>1, UnrolledWalks DEF Walks
  <2>7. Becomes(NodeUnrolled(w, env, j + 1), << Block(StmtsIn(r)) >> \o StmtsIn(u), EnvIn(u))
    BY <2>2, <2>4, TurnsWalk
  <2>8. Unrolled(w, env, j + 1) = NodeUnrolled(w, env, j + 1)
    BY <2>1, WalkIs
  <2>9. PICK k : k = << Block(StmtsIn(r)) >>
    OBVIOUS
  <2>10. Precedes(D, S, k)
    BY <1>1, <2>3, <2>9, BodyPrecedes
  <2>11. k \in Seq(S)
    <3>1. Block(StmtsIn(r)) \in S
      BY <1>1, <2>3 DEF AllStatements, StatementOver
    <3> QED
      BY <1>1, <2>9, <3>1, ListParts
  <2>12. Precedes(D, S, k \o StmtsIn(u))
    BY <1>1, <2>5, <2>6, <2>10, <2>11, PrecedesParts
  <2> QED
    BY <2>5, <2>7, <2>8, <2>9, <2>12 DEF Becomes
<1>5. Nat \subseteq K
  BY <1>3, <1>4, EveryNumber
<1> QED
  BY <1>2, <1>5

\* A statement the type pass accepts becomes statements it accepts.
LEMMA HeadTyped ==
    ASSUME NEW T, NEW S, NEW RankT, NEW RankS, NEW Inside, Language(T, S, RankT, RankS, Inside),
           NEW kinds, NEW Type, Typing(T, kinds, Type),
           NEW C, NEW D, AcceptedBlocks(D, S, Type, kinds),
           NEW st \in S, \A b \in Seq(S) : BodyOf(st, b) => StaysTyped(C, D, kinds, b),
           NEW env, IsEnv(env), Depth(env) > 0, NEW sc, Standing(sc), KnowsKinds(env, sc, kinds),
           MeansWell(C, Inside, st, sc), AcceptedStatement(D, Type, kinds, st),
           NEW a, a = NodeOptStmt(st, env)
    PROVE  Precedes(D, S, StmtsIn(a)) /\ KnowsKinds(EnvIn(a), After(st, sc), kinds)
<1>1. AllStatements(T, S, RankS) /\ AllExpressions(T, RankT, Inside) /\ StatementOver(T, S, st)
  BY DEF Language, AllStatements
<1>2. \A e \in T : \A v : IsEnv(v) =>
          OptExpr(e, v) \in T /\ EvalConst(OptExpr(e, v), v) = EvalConst(e, v) /\ EvalConst(e, v) \in Consts
  BY AllFoldWell DEF Language, FoldsWell
<1>3. \A e \in T : KeepsType(Inside, Type, kinds, e)
  BY FoldingKeepsType DEF Language
<1>4. IsScopes(sc) /\ Precedes(D, S, << >>)
  BY <1>1, PrecedesParts DEF Standing
<1>5. ASSUME NEW v, IsEnv(v), KnowsKinds(v, sc, kinds), NEW b \in Seq(S), BodyOf(st, b),
             NEW r, r = OptStmts(b, Enter(v))
      PROVE  /\ StmtsIn(r) \in Seq(S) /\ StmtsIn(r) \in D
             /\ IsEnv(Leave(EnvIn(r))) /\ KnowsKinds(Leave(EnvIn(r)), sc, kinds)
  <2>1. << b, Enter(sc) >> \in C /\ b \in D /\ StaysTyped(C, D, kinds, b)
    BY <1>5 DEF MeansWell, AcceptedStatement
  <2> QED
    BY <1>5, <2>1, BodyTyped
<1>6. \A names : IsEnv(AfterBody(env, names)) /\ KnowsKinds(AfterBody(env, names), sc, kinds)
  BY <1>4, EnvParts, AfterBodyOf, UntouchedSame DEF KnowsKinds
<1>7. CASE \E n \in Names, id \in Nat : st = Decl(n, id)
  <2>1. PICK n \in Names, id \in Nat : st = Decl(n, id)
    BY <1>7
  <2>2. StmtsIn(a) = << st >> /\ EnvIn(a) = DeclareVar(env, n)
    BY <2>1, SimpleWalk DEF Becomes
  <2>3. After(st, sc) = Declared(sc, n, id)
    <3>1. st.k = "decl"
      BY <2>1, StatementKinds
    <3> QED
      BY <2>1, <3>1 DEF After, Decl
  <2>4. KnowsKinds(DeclareVar(env, n), Declared(sc, n, id), kinds)
    BY <1>4, DeclaredOf DEF KnowsKinds
  <2> QED
    BY <1>1, <2>2, <2>3, <2>4, PrecedesParts
<1>8. CASE \E n \in Names, id \in Nat, e \in T : st = Assign(n, id, e)
  <2>1. PICK n \in Names, id \in Nat, e \in T : st = Assign(n, id, e)
    BY <1>8
  <2>2. PICK x, c : x = OptExpr(e, env) /\ c = EvalConst(x, env)
    OBVIOUS
  <2>3. PICK p : p = Assign(n, id, x)
    OBVIOUS
  <2>4. StmtsIn(a) = << p >> /\ EnvIn(a) = AssignVar(env, n, c)
    BY <2>1, <2>2, <2>3, SimpleWalk DEF Becomes
  <2>5. e \in OwnExprs(st) /\ After(st, sc) = sc
    BY <2>1, StatementKinds DEF OwnExprs, After
  <2>6. InScope(Inside, e, sc) /\ x \in T /\ Resolved(sc, n, id) /\ c = EvalConst(e, env) /\ c \in Consts
    BY <1>2, <2>1, <2>2, <2>5 DEF MeansWell
  <2>7. << n, id >> \in DOMAIN kinds /\ kinds[<< n, id >>] \in Kinds
    BY DEF Typing
  <2>8. Type[e] = kinds[<< n, id >>] /\ Type[e] # "invalid"
    BY <2>1, <2>7 DEF AcceptedStatement, Kinds
  <2>9. (IsKnown(c) => c.kind = Type[e]) /\ Type[x] = Type[e]
    BY <1>3, <1>4, <2>2, <2>6, <2>8 DEF KeepsType
  <2>10. KnowsKinds(EnvIn(a), sc, kinds)
    <3>1. PICK v : v = Val(kinds, << n, id >>)
      OBVIOUS
    <3>2. v = kinds[<< n, id >>]
      BY <2>7, <3>1 DEF Val
    <3>3. IsKnown(c) => Aspect("kind", c) = v
      BY <2>8, <2>9, <3>2, ValueAspect
    <3>4. KnowsOf("kind", AssignVar(env, n, c), sc, Put(kinds, << n, id >>, v))
      BY <1>4, <2>6, <3>1, <3>3, StoredOf DEF KnowsKinds, Resolved
    <3>5. \A key : Val(Put(kinds, << n, id >>, v), key) = Val(kinds, key)
      BY <3>1, ValPut
    <3> QED
      BY <2>4, <3>4, <3>5 DEF KnowsKinds, KnowsOf
  <2>11. p.k = "assign" /\ p.name = n /\ p.scope = id /\ p.e = x
    BY <2>3, StatementKinds
  <2>12. AcceptedStatement(D, Type, kinds, p)
    <3>1. \A m, i, y : p = Assign(m, i, y) => m = n /\ i = id /\ y = x
      BY <2>11, StatementKinds
    <3>2. (\A b : ~BodyOf(p, b)) /\ (\A y : p # PrintOf(y)) /\ (\A y, b : p # If(y, b) /\ p # While(y, b))
      BY <2>11, StatementKinds DEF BodyOf
    <3> QED
      BY <2>8, <2>9, <3>1, <3>2 DEF AcceptedStatement
  <2>13. p \in S
    BY <1>1, <2>3, <2>6 DEF AllStatements, StatementOver
  <2> QED
    BY <1>1, <2>4, <2>5, <2>10, <2>12, <2>13, PrecedesParts
<1>9. CASE \E e \in T : st = PrintOf(e)
  <2>1. PICK e \in T : st = PrintOf(e)
    BY <1>9
  <2>2. PICK x : x = OptExpr(e, env)
    OBVIOUS
  <2>3. PICK p : p = PrintOf(x)
    OBVIOUS
  <2>4. StmtsIn(a) = << p >> /\ EnvIn(a) = env
    BY <2>1, <2>2, <2>3, SimpleWalk DEF Becomes
  <2>5. e \in OwnExprs(st) /\ After(st, sc) = sc
    BY <2>1, StatementKinds DEF OwnExprs, After
  <2>6. InScope(Inside, e, sc) /\ x \in T /\ Type[e] # "invalid"
    BY <1>2, <2>1, <2>2, <2>5 DEF MeansWell, AcceptedStatement
  <2>7. Type[x] = Type[e]
    BY <1>3, <1>4, <2>2, <2>6 DEF KeepsType
  <2>8. p.k = "print" /\ p.e = x
    BY <2>3, StatementKinds
  <2>9. AcceptedStatement(D, Type, kinds, p)
    <3>1. \A y : p = PrintOf(y) => y = x
      BY <2>8, StatementKinds
    <3>2. /\ (\A b : ~BodyOf(p, b)) /\ (\A m, i, y : p # Assign(m, i, y))
          /\ (\A y, b : p # If(y, b) /\ p # While(y, b))
      BY <2>8, StatementKinds DEF BodyOf
    <3> QED
      BY <2>6, <2>7, <3>1, <3>2 DEF AcceptedStatement
  <2>10. p \in S
    BY <1>1, <2>3, <2>6 DEF AllStatements, StatementOver
  <2> QED
    BY <1>1, <2>4, <2>5, <2>9, <2>10, PrecedesParts
<1>10. CASE \E b \in Seq(S) : st = Block(b)
  <2>1. PICK b \in Seq(S) : st = Block(b)
    BY <1>10
  <2>2. PICK r : r = OptStmts(b, Enter(env))
    OBVIOUS
  <2>3. StmtsIn(r) \in Seq(S) /\ StmtsIn(r) \in D /\ KnowsKinds(Leave(EnvIn(r)), sc, kinds)
    BY <1>5, <2>1, <2>2 DEF BodyOf
  <2>4. StmtsIn(a) = << Block(StmtsIn(r)) >> /\ EnvIn(a) = Leave(EnvIn(r))
    BY <2>1, <2>2, BlockWalk DEF Becomes
  <2>5. After(st, sc) = sc
    BY <2>1, StatementKinds DEF After
  <2> QED
    BY <1>1, <2>3, <2>4, <2>5, BodyPrecedes
<1>11. ASSUME NEW c \in T, NEW b \in Seq(S), st = If(c, b) \/ st = While(c, b), NEW v, IsEnv(v), KnowsKinds(v, sc, kinds),
              NEW x, x = OptExpr(c, v)
       PROVE  x \in T /\ Type[x] = "bool" /\ After(st, sc) = sc
  <2>1. c \in OwnExprs(st) /\ After(st, sc) = sc
    BY <1>11, StatementKinds DEF OwnExprs, After
  <2>2. x \in T /\ InScope(Inside, c, sc) /\ Type[c] = "bool"
    BY <1>2, <1>11, <2>1 DEF MeansWell, AcceptedStatement
  <2>3. Type[x] = Type[c]
    BY <1>3, <1>4, <1>11, <2>2 DEF KeepsType
  <2> QED
    BY <2>1, <2>2, <2>3
<1>12. ASSUME NEW c \in T, NEW b \in Seq(S), st = If(c, b)
       PROVE  Precedes(D, S, StmtsIn(a)) /\ KnowsKinds(EnvIn(a), After(st, sc), kinds)
  <2>1. PICK r : r = OptStmts(b, Enter(env))
    OBVIOUS
  <2>2. StmtsIn(r) \in Seq(S) /\ StmtsIn(r) \in D /\ KnowsKinds(Leave(EnvIn(r)), sc, kinds)
    BY <1>5, <1>12, <2>1 DEF BodyOf
  <2>3. PICK x : x = OptExpr(c, env)
    OBVIOUS
  <2>4. x \in T /\ Type[x] = "bool" /\ After(st, sc) = sc
    BY <1>11, <1>12, <2>3
  <2>5. Precedes(D, S, << Block(StmtsIn(r)) >>) /\ Precedes(D, S, << If(x, StmtsIn(r)) >>)
    BY <1>1, <2>2, <2>4, BodyPrecedes
  <2>6. /\ IsFalse(x) => Becomes(NodeOptStmt(st, env), << >>, env)
        /\ ~IsFalse(x) /\ IsTrue(x) =>
              Becomes(NodeOptStmt(st, env), << Block(StmtsIn(r)) >>, Leave(EnvIn(r)))
        /\ ~IsFalse(x) /\ ~IsTrue(x) =>
              Becomes(NodeOptStmt(st, env), << If(x, StmtsIn(r)) >>, AfterBody(env, Assigned(b)))
    BY <1>12, <2>1, <2>3, BlockWalk
  <2> QED
    BY <1>4, <1>6, <2>2, <2>4, <2>5, <2>6 DEF Becomes
<1>13. ASSUME NEW c \in T, NEW b \in Seq(S), st = While(c, b)
       PROVE  Precedes(D, S, StmtsIn(a)) /\ KnowsKinds(EnvIn(a), After(st, sc), kinds)
  <2>1. PICK stable : stable = AfterBody(env, Assigned(b))
    OBVIOUS
  <2>2. IsEnv(stable) /\ KnowsKinds(stable, sc, kinds)
    BY <1>6, <2>1
  <2>3. PICK r : r = OptStmts(b, Enter(stable))
    OBVIOUS
  <2>4. BodyOf(st, b)
    BY <1>13 DEF BodyOf
  <2>5. StmtsIn(r) \in Seq(S) /\ StmtsIn(r) \in D
    BY <1>5, <2>2, <2>3, <2>4
  <2>6. PICK x : x = OptExpr(c, stable)
    OBVIOUS
  <2>7. x \in T /\ Type[x] = "bool" /\ After(st, sc) = sc
    BY <1>11, <1>13, <2>2, <2>6
  <2>8. /\ IsFalse(x) => Becomes(NodeOptStmt(st, env), << >>, env)
        /\ ~IsFalse(x) /\ Turns(st, env) # {} =>
              NodeOptStmt(st, env) = Unrolled(st, env, TurnsLeft(st, env))
        /\ ~IsFalse(x) /\ Turns(st, env) = {} =>
              Becomes(NodeOptStmt(st, env), << While(x, StmtsIn(r)) >>, stable)
    BY <1>13, <2>1, <2>3, <2>6, WhileWalk
  <2>9. CASE IsFalse(x)
    BY <1>4, <2>7, <2>8, <2>9 DEF Becomes
  <2>10. CASE ~IsFalse(x) /\ Turns(st, env) = {}
    <3>1. Precedes(D, S, << While(x, StmtsIn(r)) >>)
      BY <1>1, <2>5, <2>7, BodyPrecedes
    <3> QED
      BY <2>2, <2>7, <2>8, <2>10, <3>1 DEF Becomes
  <2>11. CASE ~IsFalse(x) /\ Turns(st, env) # {}
    <3>1. TurnsLeft(st, env) \in Nat
      BY <1>13, <2>11, TurnsParts
    <3>2. StaysTyped(C, D, kinds, b) /\ << b, Enter(sc) >> \in C /\ b \in D
      BY <2>4 DEF MeansWell, AcceptedStatement
    <3>3. \A j \in Nat : \A v : IsEnv(v) /\ KnowsKinds(v, sc, kinds) =>
              /\ Precedes(D, S, StmtsIn(Unrolled(st, v, j)))
              /\ KnowsKinds(EnvIn(Unrolled(st, v, j)), sc, kinds)
      BY <1>13, <3>2, UnrolledTyped
    <3> QED
      BY <2>7, <2>8, <2>11, <3>1, <3>3
  <2> QED
    BY <2>9, <2>10, <2>11
<1> QED
  BY <1>1, <1>7, <1>8, <1>9, <1>10, <1>12, <1>13 DEF StatementOver

LEMMA AllStayTyped ==
    ASSUME NEW T, NEW S, NEW RankT, NEW RankS, NEW Inside, Language(T, S, RankT, RankS, Inside),
           NEW kinds, NEW Type, Typing(T, kinds, Type),
           NEW C, Lexical(C, S, Inside), NEW D, AcceptedBlocks(D, S, Type, kinds)
    PROVE  \A q \in Seq(S) : StaysTyped(C, D, kinds, q)
<1>1. AllStatements(T, S, RankS) /\ RankS \in [Seq(S) -> Nat]
  BY DEF Language, AllStatements
<1>2. PICK Q : Q = Seq(S)
  OBVIOUS
<1>3. PICK W : W = {q \in Q : StaysTyped(C, D, kinds, q)}
  OBVIOUS
<1>4. ASSUME NEW q \in Q, \A b \in Q : RankS[b] < RankS[q] => b \in W PROVE q \in W
  <2> SUFFICES ASSUME NEW env, IsEnv(env), Depth(env) > 0, NEW sc, Standing(sc), KnowsKinds(env, sc, kinds),
                      << q, sc >> \in C, q \in D
               PROVE  /\ StmtsIn(OptStmts(q, env)) \in D
                      /\ KnowsKinds(Leave(EnvIn(OptStmts(q, env))), Leave(sc), kinds)
    BY <1>3 DEF StaysTyped
  <2>1. CASE q = << >>
    <3>1. StmtsIn(OptStmts(q, env)) = q /\ EnvIn(OptStmts(q, env)) = env
      BY <2>1, WalkIs DEF Becomes
    <3>2. KnowsKinds(Leave(env), Leave(sc), kinds)
      BY LeftOf DEF KnowsKinds, Standing
    <3> QED
      BY <3>1, <3>2
  <2>2. CASE q # << >>
    <3>1. PICK st, rest : st = Head(q) /\ rest = Tail(q)
      OBVIOUS
    <3>2. /\ st \in S /\ rest \in Seq(S) /\ RankS[rest] < RankS[q]
          /\ \A b : BodyOf(st, b) => RankS[b] < RankS[q]
      BY <1>1, <1>2, <2>2, <3>1, ListParts
    <3>3. \A b \in Seq(S) : RankS[b] < RankS[q] => StaysTyped(C, D, kinds, b)
      BY <1>2, <1>3, <1>4
    <3>4. MeansWell(C, Inside, st, sc) /\ << rest, After(st, sc) >> \in C
      BY <1>2, <2>2, <3>1 DEF Lexical
    <3>5. AcceptedStatement(D, Type, kinds, st) /\ rest \in D
      BY <1>2, <2>2, <3>1 DEF AcceptedBlocks
    <3>6. PICK a : a = NodeOptStmt(st, env)
      OBVIOUS
    <3>7. IsEnv(EnvIn(a)) /\ Depth(EnvIn(a)) = Depth(env)
      <4>1. \A b \in Seq(S) : BodyOf(st, b) => WalksOn(S, b)
        BY AllWalk
      <4>2. Walks(S, env, a)
        BY <3>2, <3>6, <4>1, HeadWalks
      <4> QED
        BY <4>2 DEF Walks
    <3>8. Precedes(D, S, StmtsIn(a)) /\ KnowsKinds(EnvIn(a), After(st, sc), kinds)
      <4>1. \A b \in Seq(S) : BodyOf(st, b) => StaysTyped(C, D, kinds, b)
        BY <3>2, <3>3
      <4> QED
        BY <3>2, <3>4, <3>5, <3>6, <4>1, HeadTyped
    <3>9. PICK d : d = OptStmts(rest, EnvIn(a))
      OBVIOUS
    <3>10. Standing(After(st, sc)) /\ StaysTyped(C, D, kinds, rest)
      BY <1>1, <3>2, <3>3, AfterStands
    <3>11. StmtsIn(d) \in D /\ KnowsKinds(Leave(EnvIn(d)), Leave(After(st, sc)), kinds)
      BY <3>4, <3>5, <3>7, <3>8, <3>9, <3>10 DEF StaysTyped
    <3>12. StmtsIn(d) \in Seq(S)
      <4>1. WalksOn(S, rest)
        BY <3>2, AllWalk
      <4> QED
        BY <3>7, <3>9, <4>1 DEF WalksOn, Walks
    <3>13. StmtsIn(OptStmts(q, env)) = StmtsIn(a) \o StmtsIn(d) /\ EnvIn(OptStmts(q, env)) = EnvIn(d)
      BY <1>2, <2>2, <3>1, <3>6, <3>9, WalkIs DEF Becomes
    <3>14. Leave(After(st, sc)) = Leave(sc)
      <4>1. CASE st.k = "decl"
        <5>1. PICK n \in Names, id \in Nat : st = Decl(n, id)
          BY <1>1, <3>2, <4>1, StatementKinds DEF AllStatements, StatementOver
        <5>2. After(st, sc) = Declared(sc, n, id)
          BY <4>1, <5>1 DEF After, Decl
        <5> QED
          BY <5>2, LeftAsBefore DEF Standing
      <4>2. CASE st.k # "decl"
        BY <4>2 DEF After
      <4> QED
        BY <4>1, <4>2
    <3> QED
      BY <3>8, <3>11, <3>12, <3>13, <3>14 DEF Precedes
  <2> QED
    BY <2>1, <2>2
<1>5. Q \subseteq W
  <2>1. RankS \in [Q -> Nat] /\ \A q \in Q : (\A b \in Q : RankS[b] < RankS[q] => b \in W) => q \in W
    BY <1>1, <1>2, <1>4
  <2> QED
    BY ONLY <2>1, EveryMember
<1> QED
  BY <1>2, <1>3, <1>5

\* The type pass runs before the optimizer, and the generator goes by the types it
\* reads off the optimized tree: in a program in which the type pass finds nothing
\* to report (TypeChecker::visitBlock) and every name has the id of the declaration
\* it means, it would find nothing to report when the program is optimized, either.
THEOREM TypesStay ==
    ASSUME NEW T, NEW S, NEW RankT, NEW RankS, NEW Inside, Language(T, S, RankT, RankS, Inside),
           NEW kinds, NEW Type, Typing(T, kinds, Type),
           NEW C, Lexical(C, S, Inside), NEW D, AcceptedBlocks(D, S, Type, kinds),
           NEW q \in Seq(S), << q, Enter(<< >>) >> \in C, q \in D
    PROVE  StmtsIn(OptBlock(q, << >>)) \in D
<1>1. PICK e : e = Enter(<< >>)
  OBVIOUS
<1>2. IsEnv(e) /\ Depth(e) > 0 /\ Standing(e)
  BY <1>1, Outside DEF Standing
<1>3. StaysTyped(C, D, kinds, q)
  BY AllStayTyped
<1>4. KnowsKinds(e, e, kinds)
  <2>1. IsEnv(<< >>) /\ IsScopes(<< >>) /\ Depth(<< >>) = 0
    BY Outside DEF Depth
  <2>2. KnowsOf("kind", << >>, << >>, kinds)
    BY <2>1 DEF KnowsOf
  <2> QED
    BY <1>1, <2>1, <2>2, EnteredOf DEF KnowsKinds
<1>5. PICK r : r = OptStmts(q, e)
  OBVIOUS
<1>6. StmtsIn(r) \in D
  BY <1>1, <1>2, <1>3, <1>4, <1>5 DEF StaysTyped
<1>7. StmtsIn(OptBlock(q, << >>)) = StmtsIn(r)
  BY <1>1, <1>5, ResultParts DEF OptBlock, Becomes
<1> QED
  BY <1>6, <1>7
=============================================================================
