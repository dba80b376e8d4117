--------------------------- MODULE CodegenProofs ---------------------------
(***************************************************************************)
(* Proofs about Codegen for function bodies of every size: every set of    *)
(* names, every nesting and number of items, as long as declarations are   *)
(* items of lists of expressions (~Scattered) and the slots the compiler   *)
(* counts fit an operand byte.                                             *)
(***************************************************************************)
EXTENDS Codegen, FiniteSetTheorems, TLAPS

(* A position of the parser: where an operand begins.  `depth` is that of  *)
(* the stack, `count` that of the locals in scope, and `from` are all the  *)
(* stacks there may be.                                                    *)
Positions == [depth : Nat, count : Nat, scope : Nat, from : SUBSET Seq(Nat)]

FunctionStart == [depth |-> 1, count |-> 0, scope |-> 1, from |-> {<<Temporary>>}]

(* The stacks have n values above those of the position p. *)
Over(stacks, p, n) ==
  \A s \in stacks : /\ s \in Seq(Nat) /\ Len(s) = p.depth + n
                    /\ SubSeq(s, 1, p.depth) \in p.from

(* The stacks at p have the locals that are in scope there. *)
Holds(p, locals) ==
  /\ p.count <= Len(locals)
  /\ Over(p.from, p, 0)
  /\ \A i \in 1 .. p.count :
       /\ locals[i].slot < p.depth /\ locals[i].depth <= p.scope
       /\ \A s \in p.from : s[locals[i].slot + 1] = locals[i].variable

(* What is at p is still there at q. *)
Extends(p, q) ==
  /\ p.depth <= q.depth /\ p.count <= q.count /\ p.scope <= q.scope
  /\ Over(q.from, p, q.depth - p.depth)

(* The context x began at p, and its next operand begins at q. *)
BeganList(x, p, q, locals) ==
  /\ \E of \in Lists, begun \in BOOLEAN : x = [of |-> of, begun |-> begun]
  /\ q.scope = IF x.of = "function" THEN p.scope ELSE p.scope + 1
  /\ q.depth - p.depth = q.count - p.count
  /\ \A i \in p.count + 1 .. q.count : locals[i].depth = q.scope

BeganMatch(x, p, q) ==
  /\ \E part \in {"subject", "guard", "body", "arms"}, bound \in BOOLEAN,
        tested \in BOOLEAN, fails, ends \in SUBSET Seq(Nat) :
       x = [of |-> "match", part |-> part, base |-> p.depth, bound |-> bound,
            tested |-> tested, fails |-> fails, ends |-> ends]
  /\ Over(x.fails, p, 2) /\ Over(x.ends, p, 1)
  /\ q.scope = p.scope
  /\ q.count = IF x.bound THEN p.count + 1 ELSE p.count
  /\ q.depth = IF x.part \in {"guard", "body"} THEN p.depth + 1 ELSE p.depth
  /\ x.part \in {"subject", "arms"} => ~x.bound

BeganOther(x, p, q, locals) ==
  \/ x = [of |-> "binary"] /\ q.depth = p.depth + 1
  \/ /\ \E name \in Names, mutable \in BOOLEAN :
          x = [of |-> "declaration", name |-> name, mutable |-> mutable]
     /\ q.depth = p.depth
  \/ x = [of |-> "return", before |-> p.depth] /\ q.depth = p.depth
  \/ /\ \E i \in 1 .. p.count : x = [of |-> "assignment", local |-> locals[i]]
     /\ q.depth = p.depth
  \/ /\ \E end \in SUBSET Seq(Nat) : x = [of |-> "logic", end |-> end] /\ Over(end, p, 1)
     /\ q.depth = p.depth
  \/ /\ \E count \in Nat, begun \in BOOLEAN :
          x = [of |-> "call", count |-> count, begun |-> begun]
     /\ q.depth = p.depth + 1 + x.count
  \/ /\ \E fields \in Nat \ {0} : x = [of |-> "map", fields |-> fields, base |-> p.depth]
     /\ q.depth = p.depth + 2 * x.fields - 1
  \/ /\ \E part \in {"condition", "then", "else"}, jump \in SUBSET Seq(Nat) :
          /\ x = [of |-> "if", part |-> part, base |-> p.depth, jump |-> jump]
          /\ Over(jump, p, 1)
     /\ q.depth = p.depth
  \/ /\ \E part \in {"condition", "body"}, exit, breaks \in SUBSET Seq(Nat) :
          /\ x = [of |-> "while", part |-> part, base |-> p.depth, start |-> p.from,
                  exit |-> exit, breaks |-> breaks]
          /\ Over(exit, p, 1) /\ Over(breaks, p, 0)
     /\ q.depth = p.depth

Began(x, p, q, locals) ==
  \/ BeganList(x, p, q, locals)
  \/ BeganMatch(x, p, q)
  \/ BeganOther(x, p, q, locals) /\ q.scope = p.scope /\ q.count = p.count

Before(g, k) == IF k = 1 THEN FunctionStart ELSE g[k - 1]

IsSequence(s) == s \in Seq({s[i] : i \in DOMAIN s})

(* The contexts began one within the other, at the positions g. *)
Linked(cs, g, locals) ==
  /\ IsSequence(cs) /\ g \in Seq(Positions) /\ Len(g) = Len(cs) /\ Len(g) >= 1
  /\ \A k \in 1 .. Len(g) : /\ Holds(g[k], locals)
                            /\ Began(cs[k], Before(g, k), g[k], locals)
  /\ \A j, k \in 1 .. Len(g) : j <= k => Extends(g[j], g[k])
  /\ \A k \in 1 .. Len(g) :
       /\ cs[k].of = "function" <=> k = 1
       /\ cs[k].of = "declaration" => cs[k - 1].of \in Lists

(* The compiler that has emitted what leads to the stacks *)
Code(depth, stacks, locals, scope) ==
  [depth |-> depth, scopeDepth |-> scope, locals |-> locals,
   stacks |-> stacks, strayed |-> {}]

(* The compiler c is at the position p, or above the value of an operand   *)
(* that began there.                                                       *)
IsAt(c, p, next) ==
  /\ next \in {"operand", "operator", "end"}
  /\ c = Code(c.depth, c.stacks, c.locals, p.scope)
  /\ c.stacks \in SUBSET Seq(Nat) /\ c.locals \in Seq(Locals)
  /\ Len(c.locals) = p.count
  /\ IF next = "operand" THEN c.depth = p.depth /\ c.stacks = p.from
     ELSE c.depth = p.depth + 1 /\ Over(c.stacks, p, 1)

Sound(c, cs, next) ==
  \E g : Linked(cs, g, c.locals) /\ IsAt(c, g[Len(g)], next)

CodegenInv == Sound(compiler, contexts, expects) /\ Len(contexts) <= NestingMax
-----------------------------------------------------------------------------
(* Sequences *)

LEMMA IsSequenceOf == \A S, s : s \in Seq(S) => IsSequence(s)
  <1> SUFFICES ASSUME NEW S, NEW s \in Seq(S) PROVE IsSequence(s)
    OBVIOUS
  <1> DEFINE R == {s[i] : i \in DOMAIN s}
  <1>1. Len(s) \in Nat /\ s \in [1 .. Len(s) -> S] /\ DOMAIN s = 1 .. Len(s)
    OBVIOUS
  <1>2. s \in [1 .. Len(s) -> R]
    BY <1>1
  <1>3. s \in Seq(R)
    BY <1>1, <1>2, SMTT(30)
  <1>4. QED
    BY <1>3 DEF IsSequence

LEMMA Prefix ==
  ASSUME NEW S, NEW s \in Seq(S), NEW t \in 0 .. Len(s)
  PROVE  /\ SubSeq(s, 1, t) \in Seq(S) /\ Len(SubSeq(s, 1, t)) = t
         /\ \A i \in 1 .. t : SubSeq(s, 1, t)[i] = s[i]
  OBVIOUS

(* What Append and Front do to sequences of anything. *)
LEMMA Appended ==
  ASSUME NEW s, IsSequence(s), NEW x
  PROVE  /\ IsSequence(Append(s, x)) /\ Len(s) \in Nat /\ Len(Append(s, x)) = Len(s) + 1
         /\ Append(s, x)[Len(s) + 1] = x
         /\ \A i \in 1 .. Len(s) : Append(s, x)[i] = s[i]
  <1> DEFINE S == {s[i] : i \in DOMAIN s} \cup {x}
  <1>1. s \in Seq(S)
    <2> DEFINE R == {s[i] : i \in DOMAIN s}
    <2>1. s \in Seq(R) /\ R \subseteq S
      BY DEF IsSequence
    <2> HIDE DEF R, S
    <2>2. QED
      BY <2>1
  <1>2. x \in S
    OBVIOUS
  <1> HIDE DEF S
  <1>3. Append(s, x) \in Seq(S)
    BY <1>1, <1>2
  <1>4. /\ Len(s) \in Nat /\ Len(Append(s, x)) = Len(s) + 1
        /\ Append(s, x)[Len(s) + 1] = x
        /\ \A i \in 1 .. Len(s) : Append(s, x)[i] = s[i]
    BY <1>1, <1>2
  <1>5. QED
    BY <1>3, <1>4, IsSequenceOf

LEMMA FrontOf ==
  ASSUME NEW s, IsSequence(s), Len(s) # 0
  PROVE  /\ IsSequence(Front(s)) /\ Len(s) \in Nat \ {0} /\ Len(Front(s)) = Len(s) - 1
         /\ \A i \in 1 .. Len(s) - 1 : Front(s)[i] = s[i]
  <1> DEFINE S == {s[i] : i \in DOMAIN s}
  <1>1. s \in Seq(S)
    BY DEF IsSequence
  <1> HIDE DEF S
  <1>2. Len(s) \in Nat \ {0}
    BY <1>1
  <1>3. Len(s) - 1 \in 0 .. Len(s)
    BY <1>2
  <1>4. /\ Front(s) \in Seq(S) /\ Len(Front(s)) = Len(s) - 1
        /\ \A i \in 1 .. Len(s) - 1 : Front(s)[i] = s[i]
    BY <1>1, <1>3, Prefix DEF Front
  <1>5. QED
    BY <1>2, <1>4, IsSequenceOf

LEMMA Rejoined ==
  ASSUME NEW s, IsSequence(s), Len(s) # 0
  PROVE  Append(Front(s), Last(s)) = s
  <1> DEFINE S == {s[i] : i \in DOMAIN s}
  <1>1. s \in Seq(S)
    BY DEF IsSequence
  <1> HIDE DEF S
  <1>2. Len(s) \in Nat \ {0}
    BY <1>1
  <1>3. Len(s) - 1 \in 0 .. Len(s) /\ Last(s) \in S
    BY <1>1, <1>2 DEF Last
  <1>4. /\ Front(s) \in Seq(S) /\ Len(Front(s)) = Len(s) - 1
        /\ \A i \in 1 .. Len(s) - 1 : Front(s)[i] = s[i]
    BY <1>1, <1>3, Prefix DEF Front
  <1>5. /\ Append(Front(s), Last(s)) \in Seq(S) /\ Len(Append(Front(s), Last(s))) = Len(s)
        /\ \A i \in 1 .. Len(s) : Append(Front(s), Last(s))[i] = s[i]
    BY <1>2, <1>3, <1>4 DEF Last
  <1>6. QED
    BY <1>1, <1>5

LEMMA TwoAppended ==
  ASSUME NEW s, IsSequence(s), NEW x, NEW y
  PROVE  s \o <<x, y>> = Append(Append(s, x), y)
  <1> DEFINE S == {s[i] : i \in DOMAIN s} \cup {x, y}
  <1>1. s \in Seq(S)
    <2> DEFINE R == {s[i] : i \in DOMAIN s}
    <2>1. s \in Seq(R) /\ R \subseteq S
      BY DEF IsSequence
    <2> HIDE DEF R, S
    <2>2. QED
      BY <2>1
  <1>2. x \in S /\ y \in S
    OBVIOUS
  <1> HIDE DEF S
  <1>3. Len(s) \in Nat /\ <<x, y>> \in Seq(S) /\ Len(<<x, y>>) = 2
    BY <1>1, <1>2
  <1>4. s \o <<x, y>> \in Seq(S) /\ Len(s \o <<x, y>>) = Len(s) + 2
    BY <1>1, <1>3
  <1>5. Append(Append(s, x), y) \in Seq(S) /\ Len(Append(Append(s, x), y)) = Len(s) + 2
    BY <1>1, <1>2
  <1>6. \A i \in 1 .. Len(s) + 2 : (s \o <<x, y>>)[i] = Append(Append(s, x), y)[i]
    <2>1. \A i \in 1 .. Len(s) : (s \o <<x, y>>)[i] = s[i] /\ Append(Append(s, x), y)[i] = s[i]
      BY <1>1, <1>2, <1>3
    <2>2. (s \o <<x, y>>)[Len(s) + 1] = x /\ (s \o <<x, y>>)[Len(s) + 2] = y
      BY <1>1, <1>2, <1>3
    <2>3. Append(Append(s, x), y)[Len(s) + 1] = x /\ Append(Append(s, x), y)[Len(s) + 2] = y
      BY <1>1, <1>2, <1>3
    <2>4. QED
      BY <1>3, <2>1, <2>2, <2>3
  <1>7. QED
    BY <1>4, <1>5, <1>6

(* A beginning of a beginning is one. *)
LEMMA Beginning ==
  ASSUME NEW s \in Seq(Nat), NEW m \in Nat, NEW n \in Nat, m <= n, n <= Len(s)
  PROVE  /\ SubSeq(s, 1, n) \in Seq(Nat) /\ Len(SubSeq(s, 1, n)) = n
         /\ SubSeq(SubSeq(s, 1, n), 1, m) = SubSeq(s, 1, m)
         /\ \A i \in 1 .. n : SubSeq(s, 1, n)[i] = s[i]
  <1>1. /\ SubSeq(s, 1, n) \in Seq(Nat) /\ Len(SubSeq(s, 1, n)) = n
        /\ \A i \in 1 .. n : SubSeq(s, 1, n)[i] = s[i]
    OBVIOUS
  <1>2. /\ SubSeq(s, 1, m) \in Seq(Nat) /\ Len(SubSeq(s, 1, m)) = m
        /\ \A i \in 1 .. m : SubSeq(s, 1, m)[i] = s[i]
    OBVIOUS
  <1> DEFINE t == SubSeq(s, 1, n)
  <1>3. /\ SubSeq(t, 1, m) \in Seq(Nat) /\ Len(SubSeq(t, 1, m)) = m
        /\ \A i \in 1 .. m : SubSeq(t, 1, m)[i] = t[i]
    <2> HIDE DEF t
    <2>1. t \in Seq(Nat) /\ m <= Len(t)
      BY <1>1 DEF t
    <2>2. QED
      BY <2>1
  <1>4. \A i \in 1 .. m : SubSeq(t, 1, m)[i] = SubSeq(s, 1, m)[i]
    BY <1>1, <1>2, <1>3
  <1>5. SubSeq(t, 1, m) = SubSeq(s, 1, m)
    <2> HIDE DEF t
    <2>1. QED
      BY <1>2, <1>3, <1>4
  <1>6. QED
    BY <1>1, <1>5
-----------------------------------------------------------------------------
(* Positions *)

LEMMA OverBelow ==
  ASSUME NEW p \in Positions, NEW q \in Positions, Extends(p, q), NEW n \in Nat,
         NEW T, Over(T, q, n)
  PROVE  Over(T, p, q.depth - p.depth + n)
  <1> SUFFICES ASSUME NEW s \in T
               PROVE  /\ s \in Seq(Nat) /\ Len(s) = p.depth + (q.depth - p.depth + n)
                      /\ SubSeq(s, 1, p.depth) \in p.from
    BY DEF Over
  <1>1. p.depth \in Nat /\ q.depth \in Nat
    BY DEF Positions
  <1>2. s \in Seq(Nat) /\ Len(s) = q.depth + n /\ SubSeq(s, 1, q.depth) \in q.from
    BY DEF Over
  <1>3. p.depth <= q.depth /\ Over(q.from, p, q.depth - p.depth)
    BY DEF Extends
  <1>4. SubSeq(SubSeq(s, 1, q.depth), 1, p.depth) \in p.from
    BY <1>2, <1>3 DEF Over
  <1>5. SubSeq(SubSeq(s, 1, q.depth), 1, p.depth) = SubSeq(s, 1, p.depth)
    BY <1>1, <1>2, <1>3, Beginning
  <1>6. p.depth + (q.depth - p.depth + n) = q.depth + n
    BY <1>1
  <1>7. QED
    BY <1>2, <1>4, <1>5, <1>6

LEMMA ExtendsSelf ==
  ASSUME NEW p \in Positions, NEW L, Holds(p, L) PROVE Extends(p, p)
  <1>1. p.depth \in Nat /\ p.count \in Nat /\ p.scope \in Nat /\ Over(p.from, p, 0)
    BY DEF Positions, Holds
  <1>2. p.depth - p.depth = 0
    BY <1>1
  <1>3. QED
    BY <1>1, <1>2 DEF Extends

LEMMA ExtendsFurther ==
  ASSUME NEW p \in Positions, NEW q \in Positions, NEW r \in Positions,
         Extends(p, q), Extends(q, r)
  PROVE  Extends(p, r)
  <1>1. /\ p.depth \in Nat /\ q.depth \in Nat /\ r.depth \in Nat
        /\ p.count \in Nat /\ q.count \in Nat /\ r.count \in Nat
        /\ p.scope \in Nat /\ q.scope \in Nat /\ r.scope \in Nat
    BY DEF Positions
  <1>2. q.depth <= r.depth /\ p.depth <= q.depth /\ Over(r.from, q, r.depth - q.depth)
    BY DEF Extends
  <1>3. r.depth - q.depth \in Nat
    BY <1>1, <1>2
  <1>4. Over(r.from, p, q.depth - p.depth + (r.depth - q.depth))
    BY <1>2, <1>3, OverBelow
  <1>5. q.depth - p.depth + (r.depth - q.depth) = r.depth - p.depth
    BY <1>1
  <1>6. p.depth <= r.depth /\ p.count <= r.count /\ p.scope <= r.scope
    BY <1>1 DEF Extends
  <1>7. QED
    BY <1>4, <1>5, <1>6 DEF Extends

(* Above what is at p, in an inner scope perhaps, is a position. *)
LEMMA Above ==
  ASSUME NEW p \in Positions, NEW L \in Seq(Locals), Holds(p, L),
         NEW n \in Nat, NEW T \in SUBSET Seq(Nat), Over(T, p, n),
         NEW z \in Nat, p.scope <= z,
         NEW q, q = [depth |-> p.depth + n, count |-> p.count, scope |-> z, from |-> T]
  PROVE  q \in Positions /\ Holds(q, L) /\ Extends(p, q)
  <1>1. p.depth \in Nat /\ p.count \in Nat /\ p.scope \in Nat /\ p.count <= Len(L)
    BY DEF Positions, Holds
  <1>2. /\ q.depth = p.depth + n /\ q.count = p.count /\ q.scope = z /\ q.from = T
        /\ q.depth \in Nat
    BY <1>1
  <1>3. q \in Positions
    BY <1>1 DEF Positions
  <1>4. \A s \in T : /\ s \in Seq(Nat) /\ Len(s) = q.depth /\ SubSeq(s, 1, p.depth) \in p.from
    BY <1>2 DEF Over
  <1>5. Over(q.from, q, 0)
    <2>1. ASSUME NEW s \in T PROVE SubSeq(s, 1, q.depth) = s
      BY <1>2, <1>4
    <2>2. q.depth + 0 = q.depth
      BY <1>2
    <2>3. QED
      BY <1>2, <1>4, <2>1, <2>2 DEF Over
  <1>6. ASSUME NEW i \in 1 .. q.count
        PROVE  /\ L[i].slot < q.depth /\ L[i].depth <= q.scope
               /\ \A s \in q.from : s[L[i].slot + 1] = L[i].variable
    <2>1. i \in 1 .. p.count /\ i \in 1 .. Len(L)
      BY <1>1, <1>2
    <2>2. L[i] \in Locals
      BY <2>1
    <2>3. L[i].slot \in Nat /\ L[i].depth \in Nat
      BY <2>2 DEF Locals
    <2>4. /\ L[i].slot < p.depth /\ L[i].depth <= p.scope
          /\ \A s \in p.from : s[L[i].slot + 1] = L[i].variable
      BY <2>1 DEF Holds
    <2>5. ASSUME NEW s \in T PROVE s[L[i].slot + 1] = L[i].variable
      <3>1. /\ s \in Seq(Nat) /\ Len(s) = q.depth /\ p.depth <= Len(s)
            /\ SubSeq(s, 1, p.depth) \in p.from /\ L[i].slot + 1 \in 1 .. p.depth
        BY <1>1, <1>2, <1>4, <2>3, <2>4, SMTT(30)
      <3>2. SubSeq(s, 1, p.depth)[L[i].slot + 1] = s[L[i].slot + 1]
        <4>1. p.depth \in 0 .. Len(s)
          BY <1>1, <3>1
        <4>2. QED
          BY <3>1, <4>1, Prefix
      <3>3. QED
        BY <2>4, <3>1, <3>2
    <2>6. QED
      BY <1>1, <1>2, <2>3, <2>4, <2>5, SMTT(30)
  <1>7. Holds(q, L)
    BY <1>1, <1>2, <1>5, <1>6 DEF Holds
  <1>8. Extends(p, q)
    <2>1. q.depth - p.depth = n
      BY <1>1, <1>2
    <2>2. QED
      BY <1>1, <1>2, <2>1 DEF Extends
  <1>9. QED
    BY <1>3, <1>7, <1>8
-----------------------------------------------------------------------------
(* Contexts: what one begins, becomes or leaves *)

LEMMA LinkedFacts ==
  ASSUME NEW cs, NEW g, NEW L, Linked(cs, g, L)
  PROVE  /\ IsSequence(cs) /\ IsSequence(g) /\ g \in Seq(Positions)
         /\ Len(g) \in Nat \ {0} /\ Len(cs) = Len(g)
         /\ \A k \in 1 .. Len(g) : g[k] \in Positions /\ Holds(g[k], L)
         /\ Last(g) = g[Len(g)] /\ Last(g) \in Positions /\ Holds(Last(g), L)
         /\ Last(cs) = cs[Len(g)]
         /\ Began(Last(cs), Before(g, Len(g)), Last(g), L)
         /\ Last(cs).of = "function" <=> Len(g) = 1
         /\ Len(g) # 1 => /\ Before(g, Len(g)) = g[Len(g) - 1]
                          /\ Len(g) - 1 \in 1 .. Len(g)
                          /\ Extends(g[Len(g) - 1], Last(g))
                          /\ Last(cs).of = "declaration" => cs[Len(g) - 1].of \in Lists
  <1>1. /\ IsSequence(cs) /\ g \in Seq(Positions) /\ Len(g) = Len(cs) /\ Len(g) >= 1
        /\ \A k \in 1 .. Len(g) : /\ Holds(g[k], L)
                                  /\ Began(cs[k], Before(g, k), g[k], L)
        /\ \A j, k \in 1 .. Len(g) : j <= k => Extends(g[j], g[k])
        /\ \A k \in 1 .. Len(g) :
             /\ cs[k].of = "function" <=> k = 1
             /\ cs[k].of = "declaration" => cs[k - 1].of \in Lists
    BY DEF Linked
  <1>2. Len(g) \in Nat \ {0} /\ \A k \in 1 .. Len(g) : g[k] \in Positions
    BY <1>1
  <1>3. IsSequence(g)
    BY <1>1, IsSequenceOf
  <1>4. Len(g) \in 1 .. Len(g) /\ (Len(g) # 1 => Len(g) - 1 \in 1 .. Len(g))
    <2>1. \A n \in Nat \ {0} : n \in 1 .. n /\ (n # 1 => n - 1 \in 1 .. n)
      OBVIOUS
    <2>2. QED
      BY <1>2, <2>1
  <1>5. Last(g) = g[Len(g)] /\ Last(cs) = cs[Len(g)]
    BY <1>1 DEF Last
  <1>6. Len(g) # 1 => Extends(g[Len(g) - 1], g[Len(g)])
    BY <1>1, <1>2, <1>4
  <1>7. Len(g) # 1 => Before(g, Len(g)) = g[Len(g) - 1]
    BY DEF Before
  <1>8. QED
    BY <1>1, <1>2, <1>3, <1>4, <1>5, <1>6, <1>7

LEMMA Entered ==
  ASSUME NEW cs, NEW g, NEW L, Linked(cs, g, L),
         NEW x, NEW q \in Positions, Holds(q, L), Began(x, Last(g), q, L),
         Extends(Last(g), q), x.of # "function",
         x.of = "declaration" => Last(cs).of \in Lists
  PROVE  Linked(Append(cs, x), Append(g, q), L)
  <1> DEFINE K == Len(g)
             c2 == Append(cs, x)
             g2 == Append(g, q)
  <1>1. /\ K \in Nat \ {0} /\ Len(cs) = K /\ IsSequence(cs) /\ g \in Seq(Positions)
        /\ Last(g) = g[K] /\ Last(cs) = cs[K]
        /\ \A k \in 1 .. K : g[k] \in Positions
    BY LinkedFacts
  <1>2. /\ IsSequence(c2) /\ Len(c2) = K + 1 /\ c2[K + 1] = x
        /\ \A i \in 1 .. K : c2[i] = cs[i]
    BY <1>1, Appended
  <1>3. /\ g2 \in Seq(Positions) /\ Len(g2) = K + 1 /\ g2[K + 1] = q
        /\ \A i \in 1 .. K : g2[i] = g[i]
    BY <1>1
  <1>4. /\ \A k \in 1 .. K : Holds(g[k], L) /\ Began(cs[k], Before(g, k), g[k], L)
        /\ \A j, k \in 1 .. K : j <= k => Extends(g[j], g[k])
        /\ \A k \in 1 .. K : /\ cs[k].of = "function" <=> k = 1
                             /\ cs[k].of = "declaration" => cs[k - 1].of \in Lists
    BY DEF Linked
  <1> HIDE DEF K, c2, g2
  <1>5. \A k \in 1 .. K : Before(g2, k) = Before(g, k)
    <2>1. \A k \in 1 .. K : k # 1 => k - 1 \in 1 .. K
      BY <1>1
    <2>2. QED
      BY <1>3, <2>1 DEF Before
  <1>6. Before(g2, K + 1) = Last(g)
    <2>1. K \in 1 .. K /\ K + 1 # 1 /\ K + 1 - 1 = K
      BY <1>1
    <2>2. QED
      BY <1>1, <1>3, <2>1 DEF Before
  <1>7. \A k \in 1 .. K + 1 : k \in 1 .. K \/ k = K + 1
    BY <1>1
  <1>8. \A k \in 1 .. K + 1 : Holds(g2[k], L) /\ Began(c2[k], Before(g2, k), g2[k], L)
    BY <1>2, <1>3, <1>4, <1>5, <1>6, <1>7
  <1>9. ASSUME NEW j \in 1 .. K + 1, NEW k \in 1 .. K + 1, j <= k
        PROVE  Extends(g2[j], g2[k])
    <2>1. CASE k \in 1 .. K
      <3>1. j \in 1 .. K
        BY <1>1, <1>9, <2>1
      <3>2. QED
        BY <1>3, <1>4, <1>9, <2>1, <3>1
    <2>2. CASE k = K + 1 /\ j \in 1 .. K
      <3>1. K \in 1 .. K /\ j <= K
        BY <1>1, <2>2
      <3>2. Extends(g[j], g[K])
        BY <1>4, <2>2, <3>1
      <3>3. g2[j] = g[j] /\ g[j] \in Positions /\ g[K] \in Positions /\ g2[k] = q
        BY <1>1, <1>3, <2>2, <3>1
      <3>4. QED
        BY <1>1, <3>2, <3>3, ExtendsFurther
    <2>3. CASE k = K + 1 /\ j = K + 1
      BY <1>3, <2>3, ExtendsSelf
    <2>4. QED
      BY <1>7, <2>1, <2>2, <2>3
  <1>10. ASSUME NEW k \in 1 .. K + 1
         PROVE  /\ c2[k].of = "function" <=> k = 1
                /\ c2[k].of = "declaration" => c2[k - 1].of \in Lists
    <2>1. CASE k \in 1 .. K
      <3>1. c2[k] = cs[k] /\ cs[k].of = "function" <=> k = 1
        BY <1>2, <1>4, <2>1
      <3>2. ASSUME cs[k].of = "declaration" PROVE c2[k - 1].of \in Lists
        <4>1. k # 1 /\ cs[k - 1].of \in Lists
          BY <1>4, <2>1, <3>2
        <4>2. k - 1 \in 1 .. K
          BY <1>1, <2>1, <4>1
        <4>3. QED
          BY <1>2, <4>1, <4>2
      <3>3. QED
        BY <1>2, <1>4, <2>1, <3>1, <3>2
    <2>2. CASE k = K + 1
      <3>1. K \in 1 .. K /\ k - 1 = K /\ k # 1
        BY <1>1, <2>2
      <3>2. c2[k] = x /\ c2[k - 1] = Last(cs)
        BY <1>1, <1>2, <2>2, <3>1
      <3>3. QED
        BY <3>1, <3>2
    <2>3. QED
      BY <1>7, <2>1, <2>2
  <1>11. Len(g2) = Len(c2) /\ Len(g2) >= 1
    BY <1>1, <1>2, <1>3
  <1>12. Linked(c2, g2, L)
    BY <1>2, <1>3, <1>8, <1>9, <1>10, <1>11 DEF Linked
  <1>13. QED
    BY <1>12 DEF c2, g2

LEMMA Left ==
  ASSUME NEW cs, NEW g, NEW L, Linked(cs, g, L), Len(g) # 1
  PROVE  Linked(Front(cs), Front(g), L) /\ Last(Front(g)) = g[Len(g) - 1]
         /\ Len(Front(g)) = Len(g) - 1 /\ Last(Front(cs)) = cs[Len(g) - 1]
  <1> DEFINE K == Len(g)
             c2 == Front(cs)
             g2 == Front(g)
  <1>1. /\ K \in Nat \ {0} /\ K # 1 /\ Len(cs) = K /\ IsSequence(cs) /\ g \in Seq(Positions)
    BY LinkedFacts
  <1>2. /\ IsSequence(c2) /\ Len(c2) = K - 1 /\ \A i \in 1 .. K - 1 : c2[i] = cs[i]
    BY <1>1, FrontOf
  <1>3. /\ g2 \in Seq(Positions) /\ Len(g2) = K - 1 /\ \A i \in 1 .. K - 1 : g2[i] = g[i]
    <2>1. K - 1 \in 0 .. K
      BY <1>1
    <2>2. QED
      BY <1>1, <2>1, Prefix DEF Front
  <1>4. /\ \A k \in 1 .. K : Holds(g[k], L) /\ Began(cs[k], Before(g, k), g[k], L)
        /\ \A j, k \in 1 .. K : j <= k => Extends(g[j], g[k])
        /\ \A k \in 1 .. K : /\ cs[k].of = "function" <=> k = 1
                             /\ cs[k].of = "declaration" => cs[k - 1].of \in Lists
    BY DEF Linked
  <1> HIDE DEF K, c2, g2
  <1>5. \A k \in 1 .. K - 1 : k \in 1 .. K /\ (k # 1 => k - 1 \in 1 .. K - 1)
    BY <1>1
  <1>6. \A k \in 1 .. K - 1 : Before(g2, k) = Before(g, k)
    BY <1>3, <1>5 DEF Before
  <1>7. \A k \in 1 .. K - 1 : Holds(g2[k], L) /\ Began(c2[k], Before(g2, k), g2[k], L)
    BY <1>2, <1>3, <1>4, <1>5, <1>6
  <1>8. \A j, k \in 1 .. K - 1 : j <= k => Extends(g2[j], g2[k])
    BY <1>3, <1>4, <1>5
  <1>9. ASSUME NEW k \in 1 .. K - 1
        PROVE  /\ c2[k].of = "function" <=> k = 1
               /\ c2[k].of = "declaration" => c2[k - 1].of \in Lists
    <2>1. c2[k] = cs[k] /\ k \in 1 .. K
      BY <1>2, <1>5
    <2>2. c2[k].of = "function" <=> k = 1
      BY <1>4, <2>1
    <2>3. ASSUME cs[k].of = "declaration" PROVE c2[k - 1].of \in Lists
      <3>1. k # 1 /\ cs[k - 1].of \in Lists
        BY <1>4, <2>1, <2>3
      <3>2. QED
        BY <1>2, <1>5, <3>1
    <2>4. QED
      BY <2>1, <2>2, <2>3
  <1>10. Len(g2) = Len(c2) /\ Len(g2) >= 1 /\ K - 1 \in 1 .. K - 1
    BY <1>1, <1>2, <1>3
  <1>11. Linked(c2, g2, L)
    BY <1>2, <1>3, <1>7, <1>8, <1>9, <1>10 DEF Linked
  <1>12. Last(g2) = g[K - 1] /\ Last(c2) = cs[K - 1]
    BY <1>2, <1>3, <1>10 DEF Last
  <1>13. QED
    BY <1>3, <1>11, <1>12 DEF c2, g2, K
(* The innermost context goes on, at another position. *)
LEMMA Became ==
  ASSUME NEW cs, NEW g, NEW L, Linked(cs, g, L),
         NEW x, NEW q \in Positions, Holds(q, L), Began(x, Before(g, Len(g)), q, L),
         Len(g) # 1 => Extends(g[Len(g) - 1], q), x.of = Last(cs).of
  PROVE  Linked(Append(Front(cs), x), Append(Front(g), q), L)
  <1>1. CASE Len(g) # 1
    <2>1. /\ Linked(Front(cs), Front(g), L) /\ Last(Front(g)) = g[Len(g) - 1]
          /\ Last(Front(cs)) = cs[Len(g) - 1]
      BY <1>1, Left
    <2>2. /\ Before(g, Len(g)) = g[Len(g) - 1] /\ Last(cs).of # "function"
          /\ Last(cs).of = "declaration" => cs[Len(g) - 1].of \in Lists
      BY <1>1, LinkedFacts
    <2>3. Began(x, Last(Front(g)), q, L) /\ Extends(Last(Front(g)), q)
      BY <1>1, <2>1, <2>2
    <2>4. QED
      BY <2>1, <2>2, <2>3, Entered
  <1>2. CASE Len(g) = 1
    <2> DEFINE c2 == Append(Front(cs), x)
               g2 == Append(Front(g), q)
    <2>1. IsSequence(cs) /\ Len(cs) = 1 /\ g \in Seq(Positions) /\ IsSequence(g)
          /\ Last(cs).of = "function"
      BY <1>2, LinkedFacts
    <2>2. IsSequence(Front(cs)) /\ Len(Front(cs)) = 0
      <3>1. Len(cs) # 0
        BY <2>1
      <3>2. IsSequence(Front(cs)) /\ Len(Front(cs)) = Len(cs) - 1
        BY <2>1, <3>1, FrontOf
      <3>3. QED
        BY <2>1, <3>2
    <2>3. IsSequence(c2) /\ Len(c2) = 1 /\ c2[1] = x
      <3>1. /\ IsSequence(c2) /\ Len(c2) = Len(Front(cs)) + 1
            /\ c2[Len(Front(cs)) + 1] = x
        BY <2>2, Appended
      <3>2. QED
        BY <2>2, <3>1
    <2>4. Front(g) \in Seq(Positions) /\ Len(Front(g)) = 0
      <3>1. 0 \in 0 .. Len(g) /\ Len(g) - 1 = 0
        BY <1>2
      <3>2. QED
        BY <2>1, <3>1, Prefix DEF Front
    <2>5. g2 \in Seq(Positions) /\ Len(g2) = 1 /\ g2[1] = q
      BY <2>4
    <2>6. Before(g2, 1) = Before(g, Len(g))
      BY <1>2 DEF Before
    <2>7. Extends(q, q)
      BY ExtendsSelf
    <2> HIDE DEF c2, g2
    <2>8. \A k \in 1 .. Len(g2) : k = 1
      BY <2>5
    <2>9. \A k \in 1 .. Len(g2) :
            /\ Holds(g2[k], L) /\ Began(c2[k], Before(g2, k), g2[k], L)
            /\ c2[k].of = "function" /\ c2[k].of # "declaration"
      BY <2>1, <2>3, <2>5, <2>6, <2>8
    <2>10. \A j, k \in 1 .. Len(g2) : Extends(g2[j], g2[k])
      BY <2>5, <2>7, <2>8
    <2>11. Linked(c2, g2, L)
      BY <2>3, <2>5, <2>8, <2>9, <2>10 DEF Linked
    <2>12. QED
      BY <2>11 DEF c2, g2
  <1>3. QED
    BY <1>1, <1>2

(* What was begun does not depend on locals declared since. *)
LEMMA Redeclared ==
  ASSUME NEW cs, NEW g, NEW L, Linked(cs, g, L), NEW M, Last(g).count <= Len(M),
         \A i \in 1 .. Last(g).count : M[i] = L[i]
  PROVE  Linked(cs, g, M)
  <1> DEFINE K == Len(g)
  <1>1. /\ K \in Nat \ {0} /\ Last(g) = g[K]
        /\ \A k \in 1 .. K : g[k] \in Positions
    BY LinkedFacts
  <1>2. /\ \A k \in 1 .. K : Holds(g[k], L) /\ Began(cs[k], Before(g, k), g[k], L)
        /\ \A j, k \in 1 .. K : j <= k => Extends(g[j], g[k])
    BY DEF Linked
  <1> HIDE DEF K
  <1>3. \A k \in 1 .. K : /\ g[k].count <= g[K].count /\ g[k].count \in Nat
                          /\ g[K].count \in Nat
    <2>1. \A k \in 1 .. K : K \in 1 .. K /\ k <= K
      BY <1>1
    <2>2. QED
      BY <1>1, <1>2, <2>1 DEF Extends, Positions
  <1>4. \A k \in 1 .. K : /\ \A i \in 1 .. g[k].count : M[i] = L[i]
                          /\ g[k].count <= Len(M)
    BY <1>1, <1>3
  <1>5. ASSUME NEW k \in 1 .. K PROVE Holds(g[k], M)
    BY <1>2, <1>4 DEF Holds
  <1>6. ASSUME NEW k \in 1 .. K PROVE Began(cs[k], Before(g, k), g[k], M)
    <2> DEFINE p == Before(g, k)
               q == g[k]
    <2>1. p \in Positions /\ p.count <= q.count /\ p.count \in Nat /\ q.count \in Nat
      <3>1. CASE k = 1
        <4>1. p = FunctionStart
          BY <3>1 DEF Before
        <4>2. <<Temporary>> \in Seq(Nat)
          BY DEF Temporary
        <4>3. FunctionStart \in Positions /\ FunctionStart.count = 0
          BY <4>2 DEF FunctionStart, Positions
        <4>4. QED
          BY <1>3, <4>1, <4>3
      <3>2. CASE k # 1
        <4>1. k - 1 \in 1 .. K /\ k - 1 <= k
          BY <1>1, <3>2
        <4>2. p = g[k - 1]
          BY <3>2 DEF Before
        <4>3. QED
          BY <1>1, <1>2, <1>3, <4>1, <4>2 DEF Extends
      <3>3. QED
        BY <3>1, <3>2
    <2>2. Began(cs[k], p, q, L) /\ \A i \in 1 .. q.count : M[i] = L[i]
      BY <1>2, <1>4
    <2> HIDE DEF p, q
    <2>3. CASE BeganList(cs[k], p, q, L)
      <3>1. \A i \in p.count + 1 .. q.count : M[i] = L[i]
        BY <2>1, <2>2
      <3>2. BeganList(cs[k], p, q, M)
        BY <2>3, <3>1 DEF BeganList
      <3>3. QED
        BY <3>2 DEF Began, p, q
    <2>4. CASE BeganMatch(cs[k], p, q)
      BY <2>4 DEF Began, p, q
    <2>5. CASE BeganOther(cs[k], p, q, L) /\ q.scope = p.scope /\ q.count = p.count
      <3>1. \A i \in 1 .. p.count : M[i] = L[i]
        BY <2>1, <2>2
      <3>2. BeganOther(cs[k], p, q, M)
        BY <2>5, <3>1 DEF BeganOther
      <3>3. QED
        BY <2>5, <3>2 DEF Began, p, q
    <2>6. QED
      BY <2>2, <2>3, <2>4, <2>5 DEF Began
  <1>7. QED
    BY <1>5, <1>6 DEF Linked, K

(* One of the contexts changes what it remembers. *)
LEMMA Marked ==
  ASSUME NEW cs, NEW g, NEW L, Linked(cs, g, L), NEW n \in 1 .. Len(g),
         NEW x, Began(x, Before(g, n), g[n], L), x.of = cs[n].of
  PROVE  Linked([cs EXCEPT ![n] = x], g, L)
  <1> DEFINE c2 == [cs EXCEPT ![n] = x]
             S == {cs[i] : i \in DOMAIN cs}
  <1>1. cs \in Seq(S) /\ Len(cs) = Len(g) /\ n \in 1 .. Len(cs)
    BY LinkedFacts DEF IsSequence
  <1>2. c2 \in Seq(S \cup {x}) /\ Len(c2) = Len(g)
        /\ \A i \in 1 .. Len(g) : c2[i] = IF i = n THEN x ELSE cs[i]
    <2> HIDE DEF S
    <2> DEFINE T == S \cup {x}
    <2>1. cs \in Seq(T) /\ x \in T
      BY <1>1
    <2> HIDE DEF T
    <2>2. c2 \in Seq(T) /\ Len(c2) = Len(g)
          /\ \A i \in 1 .. Len(g) : c2[i] = IF i = n THEN x ELSE cs[i]
      BY <1>1, <2>1
    <2>3. QED
      BY <2>2 DEF T
  <1>3. IsSequence(c2)
    BY <1>2, IsSequenceOf
  <1> HIDE DEF c2, S
  <1>4. /\ g \in Seq(Positions) /\ Len(g) >= 1
        /\ \A k \in 1 .. Len(g) : Holds(g[k], L) /\ Began(cs[k], Before(g, k), g[k], L)
        /\ \A j, k \in 1 .. Len(g) : j <= k => Extends(g[j], g[k])
        /\ \A k \in 1 .. Len(g) : /\ cs[k].of = "function" <=> k = 1
                                  /\ cs[k].of = "declaration" => cs[k - 1].of \in Lists
    BY DEF Linked
  <1>5. \A k \in 1 .. Len(g) : c2[k].of = cs[k].of
    BY <1>2
  <1>6. ASSUME NEW k \in 1 .. Len(g), c2[k].of = "declaration" PROVE c2[k - 1].of \in Lists
    <2>1. k # 1 /\ cs[k - 1].of \in Lists
      BY <1>4, <1>5, <1>6
    <2>2. k - 1 \in 1 .. Len(g)
      BY <2>1
    <2>3. QED
      BY <1>5, <2>1, <2>2
  <1>7. \A k \in 1 .. Len(g) : Began(c2[k], Before(g, k), g[k], L)
    BY <1>2, <1>4
  <1>8. \A k \in 1 .. Len(g) : c2[k].of = "function" <=> k = 1
    BY <1>4, <1>5
  <1>9. Linked(c2, g, L)
    BY <1>2, <1>3, <1>4, <1>6, <1>7, <1>8 DEF Linked
  <1>10. QED
    BY <1>9 DEF c2
-----------------------------------------------------------------------------
(* Emission: n values are above p, and the compiler counts d in all. *)
Reaches(c, p, n, d, L, z) ==
  /\ c = Code(d, c.stacks, L, z) /\ d \in Int
  /\ c.stacks \in SUBSET Seq(Nat) /\ Over(c.stacks, p, n)

Changed(c, depth, stacks) == [c EXCEPT !.depth = depth, !.stacks = stacks]

LEMMA CodeChanged ==
  \A D, E, d, T, L, z :
    /\ SetDepth(Code(d, T, L, z), D) = Code(D, T, L, z)
    /\ Changed(Code(d, T, L, z), D, E) = Code(D, E, L, z)
  <1> SUFFICES ASSUME NEW D, NEW E, NEW d, NEW T, NEW L, NEW z
               PROVE  /\ SetDepth(Code(d, T, L, z), D) = Code(D, T, L, z)
                      /\ Changed(Code(d, T, L, z), D, E) = Code(D, E, L, z)
    OBVIOUS
  <1> DEFINE a == [Code(d, T, L, z) EXCEPT !.depth = D]
  <1>1. Changed(Code(d, T, L, z), D, E) = [a EXCEPT !.stacks = E]
    BY DEF Changed
  <1>2. a = Code(D, T, L, z) /\ a = SetDepth(Code(d, T, L, z), D)
    BY DEF Code, SetDepth
  <1> HIDE DEF a
  <1>3. [a EXCEPT !.stacks = E] = Code(D, E, L, z)
    BY <1>2 DEF Code
  <1>4. QED
    BY <1>1, <1>2, <1>3

Onward(i, stacks) == IF FallsThrough(i.op) THEN {Executed(i, s) : s \in stacks} ELSE {}

LEMMA Emitted ==
  ASSUME NEW p \in Positions, NEW c, NEW n, NEW d, NEW L, NEW z, Reaches(c, p, n, d, L, z),
         NEW i
  PROVE  c ++ i = Code(d + StackEffect(i.op), Onward(i, c.stacks), L, z)
  <1>1. c = Code(d, c.stacks, L, z) /\ c.depth = d
    BY DEF Reaches, Code
  <1>2. c ++ i = Changed(c, c.depth + StackEffect(i.op), Onward(i, c.stacks))
    BY DEF ++, Changed, Onward
  <1>3. QED
    BY <1>1, <1>2, CodeChanged

(* What an instruction does to each stack it does to all of them. *)
LEMMA Executes ==
  ASSUME NEW p \in Positions, NEW c, NEW n, NEW d, NEW L, NEW z, Reaches(c, p, n, d, L, z),
         NEW i, NEW m, NEW e \in Int, FallsThrough(i.op), d + StackEffect(i.op) = e,
         \A s \in c.stacks : /\ Executed(i, s) \in Seq(Nat) /\ Len(Executed(i, s)) = p.depth + m
                             /\ SubSeq(Executed(i, s), 1, p.depth) \in p.from
  PROVE  Reaches(c ++ i, p, m, e, L, z)
  <1> DEFINE T == Onward(i, c.stacks)
  <1>1. c ++ i = Code(e, T, L, z)
    BY Emitted
  <1>2. T \in SUBSET Seq(Nat) /\ Over(T, p, m)
    <2>1. T = {Executed(i, s) : s \in c.stacks}
      BY DEF Onward
    <2> HIDE DEF T
    <2>2. QED
      BY <2>1 DEF Over
  <1> HIDE DEF T
  <1>3. (c ++ i).stacks = T
    BY <1>1 DEF Code
  <1>4. QED
    BY <1>1, <1>2, <1>3 DEF Reaches

(* A stack above p, and what is pushed on it or popped off it. *)
LEMMA PushedAbove ==
  ASSUME NEW p \in Positions, NEW s \in Seq(Nat), NEW n \in Nat, Len(s) = p.depth + n,
         NEW v \in Nat
  PROVE  /\ Append(s, v) \in Seq(Nat) /\ Len(Append(s, v)) = p.depth + (n + 1)
         /\ SubSeq(Append(s, v), 1, p.depth) = SubSeq(s, 1, p.depth)
  <1>1. p.depth \in Nat /\ p.depth \in 0 .. Len(s) /\ p.depth \in 0 .. Len(s) + 1
    BY DEF Positions
  <1>2. /\ Append(s, v) \in Seq(Nat) /\ Len(Append(s, v)) = Len(s) + 1
        /\ \A i \in 1 .. Len(s) : Append(s, v)[i] = s[i]
    OBVIOUS
  <1>3. /\ SubSeq(s, 1, p.depth) \in Seq(Nat) /\ Len(SubSeq(s, 1, p.depth)) = p.depth
        /\ \A i \in 1 .. p.depth : SubSeq(s, 1, p.depth)[i] = s[i]
    BY <1>1, Prefix
  <1> DEFINE t == Append(s, v)
  <1>4. t \in Seq(Nat) /\ p.depth \in 0 .. Len(t)
    BY <1>1, <1>2
  <1> HIDE DEF t
  <1>5. /\ SubSeq(t, 1, p.depth) \in Seq(Nat) /\ Len(SubSeq(t, 1, p.depth)) = p.depth
        /\ \A i \in 1 .. p.depth : SubSeq(t, 1, p.depth)[i] = t[i]
    BY <1>4, Prefix
  <1>6. \A i \in 1 .. p.depth : i \in 1 .. Len(s) /\ t[i] = s[i]
    BY <1>1, <1>2 DEF t
  <1>7. SubSeq(t, 1, p.depth) = SubSeq(s, 1, p.depth)
    BY <1>3, <1>5, <1>6
  <1>8. Len(t) = p.depth + (n + 1)
    <2>1. Len(t) = Len(s) + 1
      BY <1>2 DEF t
    <2>2. QED
      BY <1>1, <2>1
  <1>9. QED
    BY <1>4, <1>7, <1>8 DEF t

LEMMA PoppedAbove ==
  ASSUME NEW p \in Positions, NEW s \in Seq(Nat), NEW n \in Nat, Len(s) = p.depth + n,
         NEW m \in 0 .. n
  PROVE  /\ Popped(s, m) \in Seq(Nat) /\ Len(Popped(s, m)) = p.depth + (n - m)
         /\ SubSeq(Popped(s, m), 1, p.depth) = SubSeq(s, 1, p.depth)
  <1>1. p.depth \in Nat /\ m \in Nat /\ n - m \in Nat
    BY DEF Positions
  <1>2. Len(s) - m = p.depth + (n - m) /\ Len(s) - m \in Nat /\ Len(s) - m <= Len(s)
        /\ p.depth <= Len(s) - m
    BY <1>1
  <1>3. /\ SubSeq(s, 1, Len(s) - m) \in Seq(Nat) /\ Len(SubSeq(s, 1, Len(s) - m)) = Len(s) - m
        /\ SubSeq(SubSeq(s, 1, Len(s) - m), 1, p.depth) = SubSeq(s, 1, p.depth)
    BY <1>1, <1>2, Beginning
  <1>4. QED
    BY <1>2, <1>3 DEF Popped

LEMMA ReachesFacts ==
  ASSUME NEW p \in Positions, NEW c, NEW n, NEW d, NEW L, NEW z, Reaches(c, p, n, d, L, z)
  PROVE  /\ d \in Int /\ c.depth = d /\ c.locals = L /\ c.scopeDepth = z /\ c.strayed = {}
         /\ c.stacks \in SUBSET Seq(Nat) /\ Over(c.stacks, p, n)
         /\ \A s \in c.stacks : /\ s \in Seq(Nat) /\ Len(s) = p.depth + n
                                /\ SubSeq(s, 1, p.depth) \in p.from
  BY DEF Reaches, Code, Over

LEMMA EmitsPush ==
  ASSUME NEW p \in Positions, NEW c, NEW n \in Nat, NEW d, NEW L, NEW z,
         Reaches(c, p, n, d, L, z), NEW op \in {"Constant", "Nil", "GetLocal", "Dup"}
  PROVE  Reaches(c ++ Op(op), p, n + 1, d + 1, L, z)
  <1> DEFINE i == Op(op)
  <1>1. i.op = op /\ FallsThrough(i.op) /\ StackEffect(i.op) = 1
    BY DEF Op, OpArg, FallsThrough, StackEffect
  <1>2. \A s : Executed(i, s) = Append(s, 0)
    BY DEF Executed, Op, OpArg, Pushed, Temporary
  <1> HIDE DEF i
  <1>3. d \in Int /\ d + 1 \in Int
    BY ReachesFacts
  <1>4. ASSUME NEW s \in c.stacks
        PROVE  /\ Executed(i, s) \in Seq(Nat) /\ Len(Executed(i, s)) = p.depth + (n + 1)
               /\ SubSeq(Executed(i, s), 1, p.depth) \in p.from
    <2>1. s \in Seq(Nat) /\ Len(s) = p.depth + n /\ SubSeq(s, 1, p.depth) \in p.from
      BY ReachesFacts
    <2>2. /\ Append(s, 0) \in Seq(Nat) /\ Len(Append(s, 0)) = p.depth + (n + 1)
          /\ SubSeq(Append(s, 0), 1, p.depth) = SubSeq(s, 1, p.depth)
      BY <2>1, PushedAbove
    <2>3. QED
      BY <1>2, <2>1, <2>2
  <1>5. Reaches(c ++ i, p, n + 1, d + 1, L, z)
    BY <1>1, <1>3, <1>4, Executes
  <1>6. QED
    BY <1>5 DEF i

LEMMA EmitsPop ==
  ASSUME NEW p \in Positions, NEW c, NEW n \in Nat \ {0}, NEW d, NEW L, NEW z,
         Reaches(c, p, n, d, L, z)
  PROVE  Reaches(c ++ Op("Pop"), p, n - 1, d - 1, L, z)
  <1> DEFINE i == Op("Pop")
  <1>1. i.op = "Pop" /\ FallsThrough(i.op) /\ StackEffect(i.op) = -1
    BY DEF Op, OpArg, FallsThrough, StackEffect
  <1>2. \A s : Executed(i, s) = Popped(s, 1)
    BY DEF Executed, Op, OpArg
  <1> HIDE DEF i
  <1>3. d \in Int /\ d - 1 \in Int /\ d + (-1) = d - 1 /\ 1 \in 0 .. n
    BY ReachesFacts
  <1>4. ASSUME NEW s \in c.stacks
        PROVE  /\ Executed(i, s) \in Seq(Nat) /\ Len(Executed(i, s)) = p.depth + (n - 1)
               /\ SubSeq(Executed(i, s), 1, p.depth) \in p.from
    <2>1. s \in Seq(Nat) /\ Len(s) = p.depth + n /\ SubSeq(s, 1, p.depth) \in p.from
      BY ReachesFacts
    <2>2. /\ Popped(s, 1) \in Seq(Nat) /\ Len(Popped(s, 1)) = p.depth + (n - 1)
          /\ SubSeq(Popped(s, 1), 1, p.depth) = SubSeq(s, 1, p.depth)
      BY <1>3, <2>1, PoppedAbove
    <2>3. QED
      BY <1>2, <2>1, <2>2
  <1>5. Reaches(c ++ i, p, n - 1, d - 1, L, z)
    BY <1>1, <1>3, <1>4, Executes
  <1>6. QED
    BY <1>5 DEF i
LEMMA ReplacedAbove ==
  ASSUME NEW p \in Positions, NEW s \in Seq(Nat), NEW n \in Nat, Len(s) = p.depth + n,
         NEW m \in 0 .. n, NEW v \in Nat
  PROVE  /\ Append(Popped(s, m), v) \in Seq(Nat)
         /\ Len(Append(Popped(s, m), v)) = p.depth + (n - m + 1)
         /\ SubSeq(Append(Popped(s, m), v), 1, p.depth) = SubSeq(s, 1, p.depth)
  <1> DEFINE t == Popped(s, m)
  <1>1. /\ t \in Seq(Nat) /\ Len(t) = p.depth + (n - m)
        /\ SubSeq(t, 1, p.depth) = SubSeq(s, 1, p.depth)
    BY PoppedAbove
  <1>2. n - m \in Nat
    OBVIOUS
  <1> HIDE DEF t
  <1>3. /\ Append(t, v) \in Seq(Nat) /\ Len(Append(t, v)) = p.depth + (n - m + 1)
        /\ SubSeq(Append(t, v), 1, p.depth) = SubSeq(t, 1, p.depth)
    BY <1>1, <1>2, PushedAbove
  <1>4. QED
    BY <1>1, <1>3 DEF t

(* Instructions that take m values and put one there *)
Replaces(i, stacks, m) ==
  \A s \in stacks : \E v \in Nat : Executed(i, s) = Append(Popped(s, m), v)

LEMMA EmitsReplacing ==
  ASSUME NEW p \in Positions, NEW c, NEW n \in Nat, NEW d, NEW L, NEW z,
         Reaches(c, p, n, d, L, z), NEW i, NEW m \in 0 .. n, FallsThrough(i.op),
         StackEffect(i.op) \in Int, Replaces(i, c.stacks, m)
  PROVE  Reaches(c ++ i, p, n - m + 1, d + StackEffect(i.op), L, z)
  <1>1. d \in Int /\ d + StackEffect(i.op) \in Int
    BY ReachesFacts
  <1>2. ASSUME NEW s \in c.stacks
        PROVE  /\ Executed(i, s) \in Seq(Nat) /\ Len(Executed(i, s)) = p.depth + (n - m + 1)
               /\ SubSeq(Executed(i, s), 1, p.depth) \in p.from
    <2>1. s \in Seq(Nat) /\ Len(s) = p.depth + n /\ SubSeq(s, 1, p.depth) \in p.from
      BY ReachesFacts
    <2>2. PICK v \in Nat : Executed(i, s) = Append(Popped(s, m), v)
      BY DEF Replaces
    <2>3. /\ Append(Popped(s, m), v) \in Seq(Nat)
          /\ Len(Append(Popped(s, m), v)) = p.depth + (n - m + 1)
          /\ SubSeq(Append(Popped(s, m), v), 1, p.depth) = SubSeq(s, 1, p.depth)
      BY <2>1, ReplacedAbove
    <2>4. QED
      BY <2>1, <2>2, <2>3
  <1>3. QED
    BY <1>1, <1>2, Executes

LEMMA EmitsEqual ==
  ASSUME NEW p \in Positions, NEW c, NEW n \in Nat, n >= 2, NEW d, NEW L, NEW z,
         Reaches(c, p, n, d, L, z)
  PROVE  Reaches(c ++ Op("Equal"), p, n - 1, d - 1, L, z)
  <1> DEFINE i == Op("Equal")
  <1>1. FallsThrough(i.op) /\ StackEffect(i.op) = -1 /\ -1 \in Int
    BY DEF Op, OpArg, FallsThrough, StackEffect
  <1>2. Replaces(i, c.stacks, 2)
    BY DEF Replaces, Executed, Op, OpArg, Pushed, Temporary
  <1> HIDE DEF i
  <1>3. Reaches(c ++ i, p, n - 2 + 1, d + (-1), L, z)
    BY <1>1, <1>2, EmitsReplacing
  <1>4. n - 2 + 1 = n - 1 /\ d + (-1) = d - 1
    BY ReachesFacts
  <1>5. QED
    BY <1>3, <1>4 DEF i

LEMMA EmitsGetProperty ==
  ASSUME NEW p \in Positions, NEW c, NEW n \in Nat \ {0}, NEW d, NEW L, NEW z,
         Reaches(c, p, n, d, L, z)
  PROVE  Reaches(c ++ Op("GetProperty"), p, n, d, L, z)
  <1> DEFINE i == Op("GetProperty")
  <1>1. FallsThrough(i.op) /\ StackEffect(i.op) = 0
    BY DEF Op, OpArg, FallsThrough, StackEffect
  <1>2. Replaces(i, c.stacks, 1)
    BY DEF Replaces, Executed, Op, OpArg, Pushed, Temporary
  <1> HIDE DEF i
  <1>3. Reaches(c ++ i, p, n - 1 + 1, d + 0, L, z)
    BY <1>1, <1>2, EmitsReplacing
  <1>4. n - 1 + 1 = n /\ d + 0 = d
    BY ReachesFacts
  <1>5. QED
    BY <1>3, <1>4 DEF i

LEMMA EmitsCall ==
  ASSUME NEW p \in Positions, NEW c, NEW n \in Nat, NEW k \in Nat, k + 1 <= n,
         NEW d, NEW L, NEW z, Reaches(c, p, n, d, L, z)
  PROVE  Reaches(c ++ OpArg("Call", k), p, n - k, d, L, z)
  <1> DEFINE i == OpArg("Call", k)
  <1>1. FallsThrough(i.op) /\ StackEffect(i.op) = 0 /\ k + 1 \in 0 .. n
    BY DEF OpArg, FallsThrough, StackEffect
  <1>2. Replaces(i, c.stacks, k + 1)
    BY DEF Replaces, Executed, OpArg, Pushed, Temporary
  <1> HIDE DEF i
  <1>3. Reaches(c ++ i, p, n - (k + 1) + 1, d + 0, L, z)
    BY <1>1, <1>2, EmitsReplacing
  <1>4. n - (k + 1) + 1 = n - k /\ d + 0 = d
    BY ReachesFacts
  <1>5. QED
    BY <1>3, <1>4 DEF i

LEMMA EmitsMakeMap ==
  ASSUME NEW p \in Positions, NEW c, NEW n \in Nat, NEW k \in Nat, 2 * k <= n,
         NEW d, NEW L, NEW z, Reaches(c, p, n, d, L, z)
  PROVE  Reaches(c ++ OpArg("MakeMap", k), p, n - 2 * k + 1, d, L, z)
  <1> DEFINE i == OpArg("MakeMap", k)
  <1>1. FallsThrough(i.op) /\ StackEffect(i.op) = 0 /\ 2 * k \in 0 .. n
    BY DEF OpArg, FallsThrough, StackEffect
  <1>2. Replaces(i, c.stacks, 2 * k)
    BY DEF Replaces, Executed, OpArg, Pushed, Temporary
  <1> HIDE DEF i
  <1>3. Reaches(c ++ i, p, n - 2 * k + 1, d + 0, L, z)
    BY <1>1, <1>2, EmitsReplacing
  <1>4. d + 0 = d
    BY ReachesFacts
  <1>5. QED
    BY <1>3, <1>4 DEF i

LEMMA EmitsCloseScope ==
  ASSUME NEW p \in Positions, NEW c, NEW n \in Nat, NEW k \in Nat, k + 1 <= n,
         NEW d, NEW L, NEW z, Reaches(c, p, n, d, L, z)
  PROVE  Reaches(c ++ OpArg("CloseScope", k), p, n - k, d, L, z)
  <1> DEFINE i == OpArg("CloseScope", k)
  <1>1. FallsThrough(i.op) /\ StackEffect(i.op) = 0 /\ k + 1 \in 0 .. n
    BY DEF OpArg, FallsThrough, StackEffect
  <1>2. \A s : Executed(i, s) = Append(Popped(s, k + 1), Last(s))
    BY DEF Executed, OpArg
  <1> HIDE DEF i
  <1>3. \A s \in c.stacks : Last(s) \in Nat
    <2>1. \A s \in c.stacks : s \in Seq(Nat) /\ Len(s) = p.depth + n
      BY ReachesFacts
    <2>2. p.depth \in Nat
      BY DEF Positions
    <2>3. QED
      BY <2>1, <2>2 DEF Last
  <1>4. Replaces(i, c.stacks, k + 1)
    BY <1>2, <1>3 DEF Replaces
  <1>b. Reaches(c ++ i, p, n - (k + 1) + 1, d + 0, L, z)
    BY <1>1, <1>4, EmitsReplacing
  <1>5. n - (k + 1) + 1 = n - k /\ d + 0 = d
    BY ReachesFacts
  <1>6. QED
    BY <1>5, <1>b DEF i

LEMMA EmitsSwap ==
  ASSUME NEW p \in Positions, NEW c, NEW n \in Nat, n >= 2, NEW d, NEW L, NEW z,
         Reaches(c, p, n, d, L, z)
  PROVE  Reaches(c ++ Op("Swap"), p, n, d, L, z)
  <1> DEFINE i == Op("Swap")
  <1>1. FallsThrough(i.op) /\ StackEffect(i.op) = 0
    BY DEF Op, OpArg, FallsThrough, StackEffect
  <1>2. \A s : Executed(i, s) = Popped(s, 2) \o <<Last(s), s[Len(s) - 1]>>
    BY DEF Executed, Op, OpArg
  <1> HIDE DEF i
  <1>3. d \in Int /\ d + 0 = d
    BY ReachesFacts
  <1>4. ASSUME NEW s \in c.stacks
        PROVE  /\ Executed(i, s) \in Seq(Nat) /\ Len(Executed(i, s)) = p.depth + n
               /\ SubSeq(Executed(i, s), 1, p.depth) \in p.from
    <2>1. s \in Seq(Nat) /\ Len(s) = p.depth + n /\ SubSeq(s, 1, p.depth) \in p.from
      BY ReachesFacts
    <2>2. Last(s) \in Nat /\ s[Len(s) - 1] \in Nat
      <3>1. p.depth \in Nat /\ Len(s) \in 1 .. Len(s) /\ Len(s) - 1 \in 1 .. Len(s)
        BY <2>1 DEF Positions
      <3>2. QED
        BY <2>1, <3>1, SMTT(30) DEF Last
    <2> DEFINE t == Append(Popped(s, 2), Last(s))
               u == Append(t, s[Len(s) - 1])
    <2>3. /\ Popped(s, 2) \in Seq(Nat)
          /\ t \in Seq(Nat) /\ Len(t) = p.depth + (n - 2 + 1)
          /\ SubSeq(t, 1, p.depth) = SubSeq(s, 1, p.depth)
      <3>1. 2 \in 0 .. n
        OBVIOUS
      <3>2. Popped(s, 2) \in Seq(Nat)
        BY <2>1, <3>1, PoppedAbove
      <3>3. /\ t \in Seq(Nat) /\ Len(t) = p.depth + (n - 2 + 1)
            /\ SubSeq(t, 1, p.depth) = SubSeq(s, 1, p.depth)
        BY <2>1, <2>2, <3>1, ReplacedAbove, ZenonT(60)
      <3>4. QED
        BY <3>2, <3>3
    <2>4. Executed(i, s) = u
      <3>1. IsSequence(Popped(s, 2))
        BY <2>3, IsSequenceOf
      <3>2. Popped(s, 2) \o <<Last(s), s[Len(s) - 1]>> = u
        BY <3>1, TwoAppended
      <3>3. QED
        BY <1>2, <3>2
    <2> HIDE DEF t
    <2>5. /\ u \in Seq(Nat) /\ Len(u) = p.depth + (n - 2 + 1 + 1)
          /\ SubSeq(u, 1, p.depth) = SubSeq(t, 1, p.depth)
      <3>1. n - 2 + 1 \in Nat
        OBVIOUS
      <3>2. QED
        BY <2>2, <2>3, <3>1, PushedAbove
    <2>6. n - 2 + 1 + 1 = n
      OBVIOUS
    <2>7. QED
      BY <2>1, <2>3, <2>4, <2>5, <2>6
  <1>5. Reaches(c ++ i, p, n, d, L, z)
    BY <1>1, <1>3, <1>4, Executes
  <1>6. QED
    BY <1>5 DEF i

LEMMA EmitsTest ==
  ASSUME NEW p \in Positions, NEW c, NEW n, NEW d, NEW L, NEW z, Reaches(c, p, n, d, L, z),
         NEW op \in {"JumpIfFalse", "JumpIfTrue"}
  PROVE  Reaches(c ++ Op(op), p, n, d, L, z) /\ (c ++ Op(op)).stacks = c.stacks
  <1> DEFINE i == Op(op)
  <1>1. FallsThrough(i.op) /\ StackEffect(i.op) = 0 /\ \A s : Executed(i, s) = s
    BY DEF Op, OpArg, FallsThrough, StackEffect, Executed
  <1>2. d \in Int /\ d + 0 = d /\ c = Code(d, c.stacks, L, z)
    BY DEF Reaches
  <1> HIDE DEF i
  <1>3. Onward(i, c.stacks) = c.stacks
    BY <1>1 DEF Onward
  <1>4. c ++ i = c
    <2>1. c ++ i = Code(d + StackEffect(i.op), Onward(i, c.stacks), L, z)
      BY Emitted
    <2>2. QED
      BY <1>1, <1>2, <1>3, <2>1
  <1>5. QED
    BY <1>4 DEF i

LEMMA EmitsJump ==
  ASSUME NEW p \in Positions, NEW c, NEW n, NEW d, NEW L, NEW z, Reaches(c, p, n, d, L, z),
         NEW op \in {"Jump", "Return"}, NEW q, NEW m
  PROVE  Reaches(c ++ Op(op), q, m, d, L, z)
  <1> DEFINE i == Op(op)
  <1>1. ~FallsThrough(i.op) /\ StackEffect(i.op) = 0
    BY DEF Op, OpArg, FallsThrough, StackEffect
  <1>2. d \in Int /\ d + 0 = d
    BY DEF Reaches
  <1> HIDE DEF i
  <1>3. c ++ i = Code(d, {}, L, z)
    <2>1. c ++ i = Code(d + StackEffect(i.op), Onward(i, c.stacks), L, z)
      BY Emitted
    <2>2. Onward(i, c.stacks) = {}
      BY <1>1 DEF Onward
    <2>3. QED
      BY <1>1, <1>2, <2>1, <2>2
  <1>4. (c ++ i).stacks = {}
    BY <1>3 DEF Code
  <1>5. Reaches(c ++ i, q, m, d, L, z)
    BY <1>2, <1>3, <1>4 DEF Reaches, Over
  <1>6. QED
    BY <1>5 DEF i

LEMMA SetsDepth ==
  ASSUME NEW p, NEW c, NEW n, NEW d, NEW L, NEW z, Reaches(c, p, n, d, L, z), NEW e \in Int
  PROVE  Reaches(SetDepth(c, e), p, n, e, L, z) /\ SetDepth(c, e).stacks = c.stacks
  <1>1. c = Code(d, c.stacks, L, z)
    BY DEF Reaches
  <1>2. SetDepth(c, e) = Code(e, c.stacks, L, z)
    BY <1>1, CodeChanged
  <1>3. SetDepth(c, e).stacks = c.stacks
    BY <1>2 DEF Code
  <1>4. QED
    BY <1>2, <1>3 DEF Reaches

LEMMA CodePatched ==
  ASSUME NEW d, NEW T, NEW L, NEW z, NEW jump
  PROVE  Patched(Code(d, T, L, z), jump) = Code(d, T \cup jump, L, z)
  <1> DEFINE U == T \cup jump
  <1>1. Patched(Code(d, T, L, z), jump) = [Code(d, T, L, z) EXCEPT !.stacks = U]
    BY DEF Patched, Code
  <1> HIDE DEF U
  <1>2. [Code(d, T, L, z) EXCEPT !.stacks = U] = Code(d, U, L, z)
    BY DEF Code
  <1>3. QED
    BY <1>1, <1>2 DEF U

LEMMA Patches ==
  ASSUME NEW p, NEW c, NEW n, NEW d, NEW L, NEW z, Reaches(c, p, n, d, L, z),
         NEW jump \in SUBSET Seq(Nat), Over(jump, p, n)
  PROVE  Reaches(Patched(c, jump), p, n, d, L, z)
  <1> DEFINE T == c.stacks \cup jump
  <1>1. c = Code(d, c.stacks, L, z) /\ d \in Int
    BY DEF Reaches
  <1>2. T \in SUBSET Seq(Nat) /\ Over(T, p, n)
    BY DEF Reaches, Over
  <1>3. Patched(c, jump) = Code(d, T, L, z)
    BY <1>1, CodePatched
  <1> HIDE DEF T
  <1>4. Patched(c, jump).stacks = T
    BY <1>3 DEF Code
  <1>5. QED
    BY <1>1, <1>2, <1>3, <1>4 DEF Reaches

LEMMA EmitsPopN ==
  ASSUME NEW p \in Positions, NEW c, NEW n \in Nat, NEW k \in 0 .. n, NEW d, NEW L, NEW z,
         Reaches(c, p, n, d, L, z)
  PROVE  Reaches(c ++ OpArg("PopN", k), p, n - k, d, L, z)
  <1> DEFINE i == OpArg("PopN", k)
  <1>1. FallsThrough(i.op) /\ StackEffect(i.op) = 0
    BY DEF OpArg, FallsThrough, StackEffect
  <1>2. \A s : Executed(i, s) = Popped(s, k)
    BY DEF Executed, OpArg
  <1> HIDE DEF i
  <1>3. d \in Int /\ d + 0 = d
    BY ReachesFacts
  <1>4. ASSUME NEW s \in c.stacks
        PROVE  /\ Executed(i, s) \in Seq(Nat) /\ Len(Executed(i, s)) = p.depth + (n - k)
               /\ SubSeq(Executed(i, s), 1, p.depth) \in p.from
    <2>1. s \in Seq(Nat) /\ Len(s) = p.depth + n /\ SubSeq(s, 1, p.depth) \in p.from
      BY ReachesFacts
    <2>2. /\ Popped(s, k) \in Seq(Nat) /\ Len(Popped(s, k)) = p.depth + (n - k)
          /\ SubSeq(Popped(s, k), 1, p.depth) = SubSeq(s, 1, p.depth)
      BY <2>1, PoppedAbove
    <2>3. QED
      BY <1>2, <2>1, <2>2
  <1>5. Reaches(c ++ i, p, n - k, d, L, z)
    BY <1>1, <1>3, <1>4, Executes
  <1>6. QED
    BY <1>5 DEF i

LEMMA Unwinds ==
  ASSUME NEW p \in Positions, NEW c, NEW n \in Nat, NEW k \in 0 .. n, NEW d, NEW L, NEW z,
         Reaches(c, p, n, d, L, z)
  PROVE  Reaches(Unwound(c, k), p, n - k, d - k, L, z)
  <1>1. d \in Int /\ c.depth = d
    BY ReachesFacts
  <1>2. CASE k = 0
    <2>1. Unwound(c, k) = c
      BY <1>2 DEF Unwound
    <2>2. n - k = n /\ d - k = d
      BY <1>1, <1>2
    <2>3. QED
      BY <2>1, <2>2
  <1>3. CASE k = 1
    <2>1. Unwound(c, k) = c ++ Op("Pop")
      BY <1>3 DEF Unwound
    <2>2. n \in Nat \ {0} /\ n - k = n - 1 /\ d - k = d - 1
      BY <1>3
    <2>3. QED
      BY <2>1, <2>2, EmitsPop
  <1>4. CASE k > 1
    <2>1. Unwound(c, k) = SetDepth(c ++ OpArg("PopN", k), d - k)
      BY <1>1, <1>4 DEF Unwound
    <2>2. d - k \in Int
      BY <1>1
    <2>3. Reaches(c ++ OpArg("PopN", k), p, n - k, d, L, z)
      BY EmitsPopN
    <2>4. QED
      BY <2>1, <2>2, <2>3, SetsDepth
  <1>5. QED
    BY <1>2, <1>3, <1>4

(* An assignment writes the slot of the variable: what a stack is, for us, *)
(* stays.                                                                  *)
LEMMA EmitsSetLocal ==
  ASSUME NEW p \in Positions, NEW c, NEW n \in Nat, NEW d, NEW L, NEW z,
         Reaches(c, p, n, d, L, z), NEW slot \in Nat, slot < p.depth, NEW v,
         \A s \in p.from : s[slot + 1] = v
  PROVE  Reaches(c ++ [op |-> "SetLocal", slot |-> slot, arg |-> v], p, n, d, L, z)
  <1> DEFINE i == [op |-> "SetLocal", slot |-> slot, arg |-> v]
  <1>1. FallsThrough(i.op) /\ StackEffect(i.op) = 0
    BY DEF FallsThrough, StackEffect
  <1>2. \A s : Executed(i, s) = [s EXCEPT ![slot + 1] = v]
    BY DEF Executed
  <1> HIDE DEF i
  <1>3. d \in Int /\ d + 0 = d
    BY ReachesFacts
  <1>4. ASSUME NEW s \in c.stacks
        PROVE  /\ Executed(i, s) \in Seq(Nat) /\ Len(Executed(i, s)) = p.depth + n
               /\ SubSeq(Executed(i, s), 1, p.depth) \in p.from
    <2>1. s \in Seq(Nat) /\ Len(s) = p.depth + n /\ SubSeq(s, 1, p.depth) \in p.from
      BY ReachesFacts
    <2>2. p.depth \in Nat /\ p.depth \in 0 .. Len(s) /\ slot + 1 \in 1 .. p.depth
      BY <2>1 DEF Positions
    <2>3. SubSeq(s, 1, p.depth)[slot + 1] = s[slot + 1]
      BY <2>1, <2>2, Prefix
    <2>4. s[slot + 1] = v
      BY <2>1, <2>3
    <2>5. [s EXCEPT ![slot + 1] = v] = s
      BY <2>1, <2>4
    <2>6. QED
      BY <1>2, <2>1, <2>5
  <1>5. Reaches(c ++ i, p, n, d, L, z)
    BY <1>1, <1>3, <1>4, Executes
  <1>6. QED
    BY <1>5 DEF i

LEMMA GoesBack ==
  ASSUME NEW p, NEW c, NEW n, NEW d, NEW L, NEW z, Reaches(c, p, n, d, L, z),
         NEW start, c.stacks \subseteq start, NEW q, NEW m
  PROVE  Reaches(EmitLoop(c, start), q, m, d, L, z)
  <1> DEFINE e == EmitLoop(c, start)
  <1>1. c = Code(d, c.stacks, L, z) /\ d \in Int
    BY DEF Reaches
  <1>2. c.stacks \ start = {}
    OBVIOUS
  <1>3. e = [c EXCEPT !.stacks = {}, !.strayed = c.strayed \cup (c.stacks \ start)]
    BY DEF EmitLoop
  <1>4. c.strayed \cup (c.stacks \ start) = {} /\ c.strayed = {}
    BY <1>1, <1>2 DEF Code
  <1>5. e = [c EXCEPT !.stacks = {}, !.strayed = {}]
    BY <1>3, <1>4
  <1> HIDE DEF e
  <1>6. \A T : [Code(d, T, L, z) EXCEPT !.stacks = {}, !.strayed = {}]
               = Code(d, {}, L, z)
    <2> SUFFICES ASSUME NEW T
                 PROVE  [Code(d, T, L, z) EXCEPT !.stacks = {}, !.strayed = {}]
                        = Code(d, {}, L, z)
      OBVIOUS
    <2> DEFINE a == [Code(d, T, L, z) EXCEPT !.stacks = {}]
    <2>1. [Code(d, T, L, z) EXCEPT !.stacks = {}, !.strayed = {}] = [a EXCEPT !.strayed = {}]
      OBVIOUS
    <2>2. a = Code(d, {}, L, z)
      BY DEF Code
    <2> HIDE DEF a
    <2>3. [a EXCEPT !.strayed = {}] = Code(d, {}, L, z)
      BY <2>2 DEF Code
    <2>4. QED
      BY <2>1, <2>3 DEF a
  <1>7. e = Code(d, {}, L, z)
    BY <1>1, <1>5, <1>6
  <1>8. e.stacks = {}
    BY <1>7 DEF Code
  <1>9. QED
    BY <1>1, <1>7, <1>8 DEF Reaches, Over, e
-----------------------------------------------------------------------------
(* What is above a position, and where the compiler is with it. *)

LEMMA Below ==
  ASSUME NEW p \in Positions, NEW q \in Positions, Extends(p, q), NEW c, NEW n \in Nat,
         NEW d, NEW L, NEW z, Reaches(c, q, n, d, L, z)
  PROVE  Reaches(c, p, q.depth - p.depth + n, d, L, z)
  <1>1. Over(c.stacks, q, n)
    BY DEF Reaches
  <1>2. Over(c.stacks, p, q.depth - p.depth + n)
    BY <1>1, OverBelow
  <1>3. QED
    BY <1>2 DEF Reaches

(* The compiler at the innermost position, or above a value there. *)
LEMMA Now ==
  ASSUME NEW c, NEW cs, NEW next, NEW g, Linked(cs, g, c.locals), IsAt(c, g[Len(g)], next)
  PROVE  /\ next \in {"operand", "operator", "end"}
         /\ c.locals \in Seq(Locals) /\ Len(c.locals) = Last(g).count
         /\ next = "operand" =>
              /\ c.stacks = Last(g).from /\ c.depth = Last(g).depth
              /\ Reaches(c, Last(g), 0, Last(g).depth, c.locals, Last(g).scope)
         /\ next # "operand" =>
              /\ c.depth = Last(g).depth + 1
              /\ Reaches(c, Last(g), 1, Last(g).depth + 1, c.locals, Last(g).scope)
  <1> DEFINE p == g[Len(g)]
  <1>1. p \in Positions /\ Holds(p, c.locals) /\ Last(g) = p
    BY LinkedFacts
  <1> HIDE DEF p
  <1>2. p.depth \in Nat /\ p.depth + 1 \in Nat /\ Over(p.from, p, 0)
    BY <1>1 DEF Positions, Holds
  <1>3. IsAt(c, p, next)
    BY DEF p
  <1>4. /\ next \in {"operand", "operator", "end"}
        /\ c = Code(c.depth, c.stacks, c.locals, p.scope)
        /\ c.stacks \in SUBSET Seq(Nat) /\ c.locals \in Seq(Locals)
        /\ Len(c.locals) = p.count
        /\ next = "operand" => c.depth = p.depth /\ c.stacks = p.from
        /\ next # "operand" => c.depth = p.depth + 1 /\ Over(c.stacks, p, 1)
    BY <1>3 DEF IsAt
  <1>5. ASSUME next = "operand"
        PROVE  Reaches(c, p, 0, p.depth, c.locals, p.scope)
    <2>1. Over(c.stacks, p, 0) /\ c = Code(p.depth, c.stacks, c.locals, p.scope)
      BY <1>2, <1>4, <1>5
    <2>2. QED
      BY <1>2, <1>4, <2>1 DEF Reaches
  <1>6. ASSUME next # "operand"
        PROVE  Reaches(c, p, 1, p.depth + 1, c.locals, p.scope)
    <2>1. Over(c.stacks, p, 1) /\ c = Code(p.depth + 1, c.stacks, c.locals, p.scope)
      BY <1>4, <1>6
    <2>2. QED
      BY <1>2, <1>4, <2>1 DEF Reaches
  <1>7. QED
    BY <1>1, <1>4, <1>5, <1>6

(* The value of an operand is above the innermost position. *)
LEMMA Yields ==
  ASSUME NEW c, NEW cs, NEW g, NEW L, Linked(cs, g, L), L \in Seq(Locals),
         Len(L) = Last(g).count,
         Reaches(c, Last(g), 1, Last(g).depth + 1, L, Last(g).scope),
         NEW next \in {"operator", "end"}
  PROVE  Sound(c, cs, next)
  <1>1. Last(g) = g[Len(g)] /\ Last(g) \in Positions
    BY LinkedFacts
  <1> DEFINE p == Last(g)
  <1> HIDE DEF p
  <1>2. Reaches(c, p, 1, p.depth + 1, L, p.scope) /\ p \in Positions /\ Len(L) = p.count
    BY <1>1 DEF p
  <1>3. c.locals = L /\ c.depth = p.depth + 1
    BY <1>2, ReachesFacts
  <1>4. IsAt(c, p, next)
    BY <1>2, <1>3 DEF IsAt, Reaches
  <1>5. QED
    BY <1>1, <1>3, <1>4 DEF Sound, p

(* An operand begins at the innermost position. *)
LEMMA Starts ==
  ASSUME NEW c, NEW cs, NEW g, NEW L, Linked(cs, g, L), L \in Seq(Locals),
         Len(L) = Last(g).count, NEW n, Last(g).from = c.stacks,
         Reaches(c, Last(g), n, Last(g).depth, L, Last(g).scope)
  PROVE  Sound(c, cs, "operand")
  <1>1. Last(g) = g[Len(g)] /\ Last(g) \in Positions
    BY LinkedFacts
  <1> DEFINE p == Last(g)
  <1> HIDE DEF p
  <1>2. /\ Reaches(c, p, n, p.depth, L, p.scope) /\ p \in Positions /\ Len(L) = p.count
        /\ p.from = c.stacks
    BY <1>1 DEF p
  <1>3. c.locals = L /\ c.depth = p.depth
    BY <1>2, ReachesFacts
  <1>4. IsAt(c, p, "operand")
    BY <1>2, <1>3 DEF IsAt, Reaches
  <1>5. QED
    BY <1>1, <1>3, <1>4 DEF Sound, p

(* The position above n values at p *)
Atop(p, n, z, stacks) ==
  [depth |-> p.depth + n, count |-> p.count, scope |-> z, from |-> stacks]

LEMMA AtopFacts ==
  ASSUME NEW p \in Positions, NEW L \in Seq(Locals), Holds(p, L), NEW c, NEW n \in Nat,
         NEW d, NEW z \in Nat, p.scope <= z, Reaches(c, p, n, d, L, z)
  PROVE  LET q == Atop(p, n, z, c.stacks)
         IN /\ q \in Positions /\ Holds(q, L) /\ Extends(p, q)
            /\ q.depth = p.depth + n /\ q.count = p.count /\ q.scope = z
            /\ q.from = c.stacks /\ Over(c.stacks, q, 0)
            /\ Reaches(c, q, 0, d, L, z)
  <1> DEFINE q == Atop(p, n, z, c.stacks)
  <1>1. q = [depth |-> p.depth + n, count |-> p.count, scope |-> z, from |-> c.stacks]
    BY DEF Atop
  <1>2. /\ q.depth = p.depth + n /\ q.count = p.count /\ q.scope = z /\ q.from = c.stacks
    BY <1>1
  <1>3. c.stacks \in SUBSET Seq(Nat) /\ Over(c.stacks, p, n)
    BY DEF Reaches
  <1> HIDE DEF q
  <1>4. q \in Positions /\ Holds(q, L) /\ Extends(p, q)
    BY <1>1, <1>3, Above
  <1>5. Over(c.stacks, q, 0)
    BY <1>2, <1>4 DEF Holds
  <1>6. Reaches(c, q, 0, d, L, z)
    BY <1>5 DEF Reaches
  <1>7. QED
    BY <1>2, <1>4, <1>5, <1>6 DEF q

(* A context begins above n values at the innermost position. *)
LEMMA Begins ==
  ASSUME NEW c, NEW cs, NEW g, NEW L, Linked(cs, g, L), L \in Seq(Locals),
         Len(L) = Last(g).count, NEW n \in Nat, NEW z \in Nat, Last(g).scope <= z,
         Reaches(c, Last(g), n, Last(g).depth + n, L, z),
         NEW x, Began(x, Last(g), Atop(Last(g), n, z, c.stacks), L), x.of # "function",
         x.of = "declaration" => Last(cs).of \in Lists
  PROVE  Sound(c, Append(cs, x), "operand")
  <1> DEFINE p == Last(g)
             q == Atop(p, n, z, c.stacks)
             h == Append(g, q)
  <1>1. p \in Positions /\ Holds(p, L) /\ IsSequence(g)
    BY LinkedFacts
  <1> HIDE DEF p
  <1>2. /\ q \in Positions /\ Holds(q, L) /\ Extends(p, q)
        /\ q.depth = p.depth + n /\ q.count = p.count /\ q.scope = z
        /\ q.from = c.stacks /\ Reaches(c, q, 0, p.depth + n, L, z)
    BY <1>1, AtopFacts DEF p
  <1>3. Began(x, p, q, L) /\ Len(L) = p.count
    BY DEF p
  <1> HIDE DEF q
  <1>4. Linked(Append(cs, x), h, L)
    BY <1>2, <1>3, Entered DEF p
  <1>5. Last(h) = q
    BY <1>1, Appended DEF Last
  <1> HIDE DEF h
  <1>6. QED
    BY <1>2, <1>3, <1>4, <1>5, Starts

(* A context ends, and its value is above the position where it began. *)
LEMMA Leaves ==
  ASSUME NEW c, NEW cs, NEW g, NEW L, Linked(cs, g, L), L \in Seq(Locals), Len(g) # 1,
         NEW p, p = Before(g, Len(g)), Len(L) = p.count,
         Reaches(c, p, 1, p.depth + 1, L, p.scope), NEW next \in {"operator", "end"}
  PROVE  Sound(c, Front(cs), next)
  <1>1. /\ Linked(Front(cs), Front(g), L) /\ Last(Front(g)) = g[Len(g) - 1]
    BY Left
  <1>2. p = Last(Front(g))
    BY <1>1, LinkedFacts
  <1>3. QED
    BY <1>1, <1>2, Yields

(* A context other than a function's began at the position before its own. *)
LEMMA Inside ==
  ASSUME NEW cs, NEW g, NEW L, Linked(cs, g, L), Last(cs).of # "function"
  PROVE  LET p == Before(g, Len(g))
         IN /\ Len(g) # 1 /\ p \in Positions /\ Holds(p, L) /\ Extends(p, Last(g))
            /\ p = g[Len(g) - 1] /\ Began(Last(cs), p, Last(g), L)
            /\ Last(g) \in Positions /\ Holds(Last(g), L)
            /\ p.depth \in Nat /\ p.count \in Nat /\ p.scope \in Nat
            /\ Last(g).depth \in Nat /\ Last(g).count \in Nat /\ Last(g).scope \in Nat
            /\ p.depth <= Last(g).depth /\ p.count <= Last(g).count
  <1>1. /\ Len(g) # 1 /\ Before(g, Len(g)) = g[Len(g) - 1] /\ Len(g) - 1 \in 1 .. Len(g)
        /\ Extends(g[Len(g) - 1], Last(g))
    BY LinkedFacts
  <1>2. /\ \A k \in 1 .. Len(g) : g[k] \in Positions /\ Holds(g[k], L)
        /\ Last(g) \in Positions /\ Holds(Last(g), L)
        /\ Began(Last(cs), Before(g, Len(g)), Last(g), L)
    BY LinkedFacts
  <1> DEFINE p == Before(g, Len(g))
             q == Last(g)
  <1>3. p \in Positions /\ Holds(p, L) /\ Extends(p, q) /\ q \in Positions
    BY <1>1, <1>2
  <1> HIDE DEF p, q
  <1>4. /\ p.depth \in Nat /\ p.count \in Nat /\ p.scope \in Nat
        /\ q.depth \in Nat /\ q.count \in Nat /\ q.scope \in Nat
        /\ p.depth <= q.depth /\ p.count <= q.count
    BY <1>3 DEF Positions, Extends
  <1>5. QED
    BY <1>1, <1>2, <1>3, <1>4 DEF p, q

(* The innermost context goes on at the position q. *)
LEMMA Becomes ==
  ASSUME NEW c, NEW cs, NEW g, NEW L, Linked(cs, g, L), L \in Seq(Locals),
         NEW x, NEW q \in Positions, Holds(q, L), Began(x, Before(g, Len(g)), q, L),
         Len(g) # 1 => Extends(g[Len(g) - 1], q), x.of = Last(cs).of,
         Len(L) = q.count, q.from = c.stacks, Reaches(c, q, 0, q.depth, L, q.scope)
  PROVE  /\ Linked(Append(Front(cs), x), Append(Front(g), q), L)
         /\ Last(Append(Front(g), q)) = q /\ Last(Append(Front(cs), x)) = x
         /\ Sound(c, Append(Front(cs), x), "operand")
  <1> DEFINE h == Append(Front(g), q)
             y == Append(Front(cs), x)
  <1>1. Linked(y, h, L)
    BY Became
  <1>2. /\ IsSequence(g) /\ IsSequence(cs) /\ Len(g) # 0 /\ Len(cs) # 0
    BY LinkedFacts
  <1>3. IsSequence(Front(g)) /\ IsSequence(Front(cs))
    BY <1>2, FrontOf
  <1>4. Last(h) = q /\ Last(y) = x
    BY <1>3, Appended DEF Last
  <1> HIDE DEF h, y
  <1>5. Sound(c, y, "operand")
    BY <1>1, <1>4, Starts
  <1>6. QED
    BY <1>1, <1>4, <1>5 DEF h, y
-----------------------------------------------------------------------------
(* Each kind of context, where it began and what it remembers *)

LEMMA Kind ==
  ASSUME NEW x, NEW p, NEW q, NEW L, Began(x, p, q, L)
  PROVE  /\ x.of \in Lists => BeganList(x, p, q, L)
         /\ x.of = "match" => BeganMatch(x, p, q)
         /\ x.of \notin Lists \cup {"match"} =>
              BeganOther(x, p, q, L) /\ q.scope = p.scope /\ q.count = p.count
  <1>1. BeganList(x, p, q, L) => x.of \in Lists
    BY DEF BeganList
  <1>2. BeganMatch(x, p, q) => x.of = "match"
    BY DEF BeganMatch
  <1>3. BeganOther(x, p, q, L) => x.of \notin Lists \cup {"match"}
    BY DEF BeganOther, Lists
  <1>4. "match" \notin Lists
    BY DEF Lists
  <1>5. QED
    BY <1>1, <1>2, <1>3, <1>4 DEF Began

LEMMA KindSimple ==
  ASSUME NEW x, NEW p, NEW q, NEW L, BeganOther(x, p, q, L)
  PROVE  /\ x.of = "binary" => q.depth = p.depth + 1
         /\ x.of = "declaration" =>
              x.name \in Names /\ x.mutable \in BOOLEAN /\ q.depth = p.depth
         /\ x.of = "return" => x.before = p.depth /\ q.depth = p.depth
         /\ x.of = "assignment" =>
              (\E i \in 1 .. p.count : x.local = L[i]) /\ q.depth = p.depth
         /\ x.of = "logic" =>
              x.end \in SUBSET Seq(Nat) /\ Over(x.end, p, 1) /\ q.depth = p.depth
  BY DEF BeganOther

LEMMA KindCall ==
  ASSUME NEW x, NEW p, NEW q, NEW L, BeganOther(x, p, q, L), x.of = "call"
  PROVE  /\ x = [of |-> "call", count |-> x.count, begun |-> x.begun]
         /\ x.count \in Nat /\ x.begun \in BOOLEAN
         /\ q.depth = p.depth + 1 + x.count
  BY DEF BeganOther

LEMMA KindMap ==
  ASSUME NEW x, NEW p, NEW q, NEW L, BeganOther(x, p, q, L), x.of = "map"
  PROVE  /\ x = [of |-> "map", fields |-> x.fields, base |-> p.depth]
         /\ x.fields \in Nat \ {0} /\ x.base = p.depth
         /\ q.depth = p.depth + 2 * x.fields - 1
  BY DEF BeganOther

LEMMA KindIf ==
  ASSUME NEW x, NEW p, NEW q, NEW L, BeganOther(x, p, q, L), x.of = "if"
  PROVE  /\ x = [of |-> "if", part |-> x.part, base |-> p.depth, jump |-> x.jump]
         /\ x.jump \in SUBSET Seq(Nat) /\ Over(x.jump, p, 1) /\ x.base = p.depth
         /\ q.depth = p.depth
  BY DEF BeganOther

LEMMA KindWhile ==
  ASSUME NEW x, NEW p, NEW q, NEW L, BeganOther(x, p, q, L), x.of = "while"
  PROVE  /\ x = [of |-> "while", part |-> x.part, base |-> p.depth, start |-> p.from,
                 exit |-> x.exit, breaks |-> x.breaks]
         /\ x.part \in {"condition", "body"}
         /\ x.exit \in SUBSET Seq(Nat) /\ x.breaks \in SUBSET Seq(Nat)
         /\ Over(x.exit, p, 1) /\ Over(x.breaks, p, 0)
         /\ x.start = p.from /\ x.base = p.depth /\ q.depth = p.depth
  BY DEF BeganOther

LEMMA KindMatch ==
  ASSUME NEW x, NEW p, NEW q, BeganMatch(x, p, q)
  PROVE  /\ x = [of |-> "match", part |-> x.part, base |-> p.depth, bound |-> x.bound,
                 tested |-> x.tested, fails |-> x.fails, ends |-> x.ends]
         /\ x.part \in {"subject", "guard", "body", "arms"}
         /\ x.bound \in BOOLEAN /\ x.tested \in BOOLEAN
         /\ x.fails \in SUBSET Seq(Nat) /\ x.ends \in SUBSET Seq(Nat)
         /\ x.base = p.depth
  BY DEF BeganMatch
-----------------------------------------------------------------------------
(* Scopes *)

LEMMA FreshIsNat ==
  ASSUME NEW c, c.locals \in Seq(Locals) PROVE Fresh(c) \in Nat
  <1> DEFINE n == Len(c.locals)
             f == [i \in 1 .. n |-> c.locals[i].variable]
             used == {f[i] : i \in 1 .. n}
  <1>1. n \in Nat /\ DOMAIN c.locals = 1 .. n
    OBVIOUS
  <1>2. used = {c.locals[i].variable : i \in DOMAIN c.locals}
    BY <1>1
  <1>3. IsFiniteSet(1 .. n) /\ Cardinality(1 .. n) = n
        /\ IsFiniteSet(1 .. n + 1) /\ Cardinality(1 .. n + 1) = n + 1
    <2>1. \A m \in Nat : IsFiniteSet(1 .. m) /\ Cardinality(1 .. m) = m
      <3> TAKE m \in Nat
      <3>1. /\ IsFiniteSet(1 .. m)
            /\ Cardinality(1 .. m) = IF 1 > m THEN 0 ELSE m - 1 + 1
        BY FS_Interval
      <3>2. QED
        BY <3>1
    <2> HIDE DEF n
    <2>2. n + 1 \in Nat
      BY <1>1
    <2>3. QED
      BY <1>1, <2>1, <2>2
  <1>4. IsFiniteSet(used) /\ Cardinality(used) <= n
    <2>1. f \in Surjection(1 .. n, used)
      BY DEF Surjection
    <2> HIDE DEF f, used, n
    <2>2. QED
      BY <1>3, <2>1, FS_Surjection
  <1>5. Cardinality(used) \in Nat
    BY <1>4, FS_CardinalityType
  <1>6. \E v \in 1 .. n + 1 : v \notin used
    <2> SUFFICES ASSUME 1 .. n + 1 \subseteq used PROVE FALSE
      OBVIOUS
    <2> HIDE DEF used, n
    <2>1. Cardinality(1 .. n + 1) <= Cardinality(used)
      BY <1>4, FS_Subset
    <2>2. QED
      BY <1>1, <1>3, <1>4, <1>5, <2>1
  <1>7. Fresh(c) = CHOOSE v \in 1 .. n + 1 : v \notin used
    BY <1>2 DEF Fresh
  <1> HIDE DEF used, n
  <1>8. Fresh(c) \in 1 .. n + 1
    BY <1>6, <1>7
  <1>9. QED
    BY <1>1, <1>8

(* c with other locals and stacks, or in another scope *)
Scoped(c, locals, stacks) == [c EXCEPT !.locals = locals, !.stacks = stacks]
Moved(c, scope, locals) == [c EXCEPT !.scopeDepth = scope, !.locals = locals]

LEMMA CodeScoped ==
  \A M, U, d, T, L, y, z :
    /\ Scoped(Code(d, T, L, z), M, U) = Code(d, U, M, z)
    /\ Moved(Code(d, T, L, z), y, M) = Code(d, T, M, y)
    /\ [Code(d, T, L, z) EXCEPT !.scopeDepth = y] = Code(d, T, L, y)
  <1> SUFFICES ASSUME NEW M, NEW U, NEW d, NEW T, NEW L, NEW y, NEW z
               PROVE  /\ Scoped(Code(d, T, L, z), M, U) = Code(d, U, M, z)
                      /\ Moved(Code(d, T, L, z), y, M) = Code(d, T, M, y)
                      /\ [Code(d, T, L, z) EXCEPT !.scopeDepth = y] = Code(d, T, L, y)
    OBVIOUS
  <1> DEFINE a == [Code(d, T, L, z) EXCEPT !.locals = M]
             b == [Code(d, T, L, z) EXCEPT !.scopeDepth = y]
  <1>1. a = Code(d, T, M, z) /\ b = Code(d, T, L, y)
    BY DEF Code
  <1>2. Scoped(Code(d, T, L, z), M, U) = [a EXCEPT !.stacks = U]
    BY DEF Scoped
  <1>3. Moved(Code(d, T, L, z), y, M) = [b EXCEPT !.locals = M]
    BY DEF Moved
  <1> HIDE DEF a, b
  <1>4. [a EXCEPT !.stacks = U] = Code(d, U, M, z)
    BY <1>1 DEF Code
  <1>5. [b EXCEPT !.locals = M] = Code(d, T, M, y)
    BY <1>1 DEF Code
  <1>6. QED
    BY <1>1, <1>2, <1>3, <1>4, <1>5 DEF b

LEMMA EntersScope ==
  ASSUME NEW p, NEW c, NEW n, NEW d, NEW L, NEW z \in Nat, Reaches(c, p, n, d, L, z)
  PROVE  Reaches(BeginScope(c), p, n, d, L, z + 1) /\ BeginScope(c).stacks = c.stacks
  <1>1. c = Code(d, c.stacks, L, z)
    BY DEF Reaches
  <1>2. c.scopeDepth = z
    BY <1>1 DEF Code
  <1> DEFINE y == z + 1
  <1>3. BeginScope(c) = [c EXCEPT !.scopeDepth = y]
    BY <1>2 DEF BeginScope
  <1> HIDE DEF y
  <1>4. BeginScope(c) = Code(d, c.stacks, L, y)
    BY <1>1, <1>3, CodeScoped
  <1>5. BeginScope(c).stacks = c.stacks
    BY <1>4 DEF Code
  <1>6. QED
    BY <1>4, <1>5 DEF Reaches, y

LEMMA OutsideIsUnique ==
  ASSUME NEW c, NEW L \in Seq(Locals), c.locals = L, NEW z \in Nat, c.scopeDepth = z,
         NEW m \in 0 .. Len(L), \A i \in 1 .. m : L[i].depth < z,
         \A i \in m + 1 .. Len(L) : L[i].depth >= z
  PROVE  Outside(c) = m
  <1> DEFINE Is(n) == /\ n = 0 \/ L[n].depth < z
                      /\ \A i \in n + 1 .. Len(L) : L[i].depth >= z
  <1>1. Outside(c) = CHOOSE n \in 0 .. Len(L) : Is(n)
    BY DEF Outside
  <1>2. Is(m)
    OBVIOUS
  <1>3. ASSUME NEW n \in 0 .. Len(L), Is(n) PROVE n = m
    <2>1. \A i \in 1 .. Len(L) : L[i].depth \in Nat
      <3>1. \A i \in 1 .. Len(L) : L[i] \in Locals
        OBVIOUS
      <3>2. QED
        BY <3>1 DEF Locals
    <2>2. CASE n < m
      <3>1. m \in n + 1 .. Len(L) /\ m \in 1 .. m /\ m \in 1 .. Len(L)
        BY <2>2
      <3>2. L[m].depth >= z /\ L[m].depth < z /\ L[m].depth \in Nat
        BY <1>3, <2>1, <3>1
      <3>3. QED
        BY <3>2
    <2>3. CASE n > m
      <3>1. n \in m + 1 .. Len(L) /\ n # 0 /\ n \in 1 .. Len(L)
        BY <2>3
      <3>2. L[n].depth >= z /\ L[n].depth < z /\ L[n].depth \in Nat
        BY <1>3, <2>1, <3>1
      <3>3. QED
        BY <3>2
    <2>4. QED
      BY <2>2, <2>3
  <1> HIDE DEF Is
  <1>4. QED
    BY <1>1, <1>2, <1>3

(* endScope: the locals of the scope go, the value above them stays. *)
LEMMA LeavesScope ==
  ASSUME NEW p \in Positions, NEW q \in Positions, Extends(p, q), q.scope = p.scope + 1,
         NEW L \in Seq(Locals), Holds(p, L), Len(L) = q.count,
         q.depth - p.depth = q.count - p.count,
         \A i \in p.count + 1 .. q.count : L[i].depth = q.scope,
         NEW c, Reaches(c, q, 1, q.depth + 1, L, q.scope)
  PROVE  /\ Reaches(EndScope(c), p, 1, p.depth + 1, SubSeq(L, 1, p.count), p.scope)
         /\ SubSeq(L, 1, p.count) \in Seq(Locals) /\ Len(SubSeq(L, 1, p.count)) = p.count
         /\ \A i \in 1 .. p.count : SubSeq(L, 1, p.count)[i] = L[i]
  <1> DEFINE m == p.count
             k == q.count - p.count
             M == SubSeq(L, 1, m)
             d == q.depth + 1
  <1>1. /\ p.depth \in Nat /\ p.count \in Nat /\ p.scope \in Nat
        /\ q.depth \in Nat /\ q.count \in Nat /\ q.scope \in Nat
        /\ p.depth <= q.depth /\ p.count <= q.count
    BY DEF Positions, Extends
  <1>2. c.locals = L /\ c.scopeDepth = q.scope /\ c.depth = d /\ d \in Int
    BY ReachesFacts
  <1>3. m \in 0 .. Len(L)
    BY <1>1
  <1>4. Outside(c) = m
    <2>1. \A i \in 1 .. m : L[i].depth < q.scope
      <3>1. \A i \in 1 .. m : L[i] \in Locals /\ L[i].depth <= p.scope
        BY <1>1, <1>3 DEF Holds
      <3>2. \A i \in 1 .. m : L[i].depth \in Nat
        BY <3>1 DEF Locals
      <3>3. QED
        BY <1>1, <3>1, <3>2, SMTT(30)
    <2>2. \A i \in m + 1 .. Len(L) : L[i].depth >= q.scope
      BY <1>1
    <2> HIDE DEF m
    <2>3. QED
      BY <1>1, <1>2, <1>3, <2>1, <2>2, OutsideIsUnique
  <1>5. M \in Seq(Locals) /\ Len(M) = m /\ \A i \in 1 .. m : M[i] = L[i]
    <2> HIDE DEF m
    <2>1. QED
      BY <1>3, Prefix
  <1> DEFINE y == p.scope
             left == Moved(c, y, M)
  <1>6. EndScope(c) = IF k = 0 THEN left
                      ELSE SetDepth(left ++ OpArg("CloseScope", k), d - k)
    <2>1. q.scope - 1 = y /\ Len(c.locals) - Outside(c) = k
      BY <1>1, <1>2, <1>4
    <2> HIDE DEF k, y, d, m
    <2>2. left = [c EXCEPT !.scopeDepth = @ - 1, !.locals = SubSeq(@, 1, Outside(c))]
      BY <1>2, <1>4, <2>1 DEF Moved
    <2>3. QED
      BY <1>2, <2>1, <2>2 DEF EndScope
  <1>7. Reaches(left, q, 1, d, M, y)
    <2>1. c = Code(d, c.stacks, L, q.scope)
      BY DEF Reaches
    <2> HIDE DEF y, M, d
    <2>2. left = Code(d, c.stacks, M, y)
      BY <2>1, CodeScoped
    <2>3. left.stacks = c.stacks
      BY <2>2 DEF Code
    <2>4. QED
      BY <1>2, <2>2, <2>3 DEF Reaches, d
  <1> HIDE DEF left
  <1>8. Reaches(left, p, k + 1, d, M, y)
    <2>1. q.depth - p.depth + 1 = k + 1
      BY <1>1
    <2> HIDE DEF k, M, y, d
    <2>2. Reaches(left, p, q.depth - p.depth + 1, d, M, y)
      BY <1>7, Below
    <2>3. QED
      BY <2>1, <2>2
  <1>9. Reaches(EndScope(c), p, 1, p.depth + 1, M, y)
    <2>1. /\ k \in Nat /\ k + 1 \in Nat /\ k + 1 - k = 1 /\ k + 1 <= k + 1
          /\ d - k = p.depth + 1
          /\ k = 0 => k + 1 = 1 /\ d = p.depth + 1
      <3>1. k = q.depth - p.depth /\ k \in Nat
        BY <1>1
      <3> HIDE DEF k
      <3>2. k + 1 \in Nat /\ k + 1 - k = 1 /\ k + 1 <= k + 1
        BY <3>1
      <3>3. d - k = p.depth + 1
        BY <1>1, <3>1, SMTT(30)
      <3>4. ASSUME k = 0 PROVE k + 1 = 1 /\ d = p.depth + 1
        <4>1. q.depth - p.depth = 0
          BY <3>1, <3>4
        <4>2. q.depth = p.depth
          BY <1>1, <4>1
        <4>3. QED
          BY <3>4, <4>2
      <3>5. QED
        BY <3>1, <3>2, <3>3, <3>4
    <2>2. p.depth + 1 \in Int
      BY <1>1
    <2> HIDE DEF k, M, y, d
    <2>3. CASE k = 0
      BY <1>6, <1>8, <2>1, <2>3
    <2>4. CASE k # 0
      <3> DEFINE n == k + 1
      <3>a. n \in Nat /\ k + 1 <= n /\ Reaches(left, p, n, d, M, y)
        BY <1>8, <2>1
      <3>b. n - k = 1
        BY <2>1
      <3> HIDE DEF n
      <3>c. Reaches(left ++ OpArg("CloseScope", k), p, n - k, d, M, y)
        BY <2>1, <3>a, EmitsCloseScope
      <3>1. Reaches(left ++ OpArg("CloseScope", k), p, 1, d, M, y)
        BY <3>b, <3>c
      <3>2. QED
        BY <1>6, <2>1, <2>2, <2>4, <3>1, SetsDepth
    <2>5. QED
      BY <2>3, <2>4
  <1>10. QED
    BY <1>5, <1>9

(* c is at q, where a local more than at p is in scope. *)
Binds(c, p, d, L, q, M) ==
  /\ Reaches(c, q, 0, d, M, p.scope) /\ q.from = c.stacks
  /\ Holds(q, M) /\ Extends(p, q)
  /\ q.depth = p.depth + 1 /\ q.count = p.count + 1 /\ q.scope = p.scope
  /\ Len(M) = p.count + 1 /\ \A i \in 1 .. p.count : M[i] = L[i]
  /\ M[p.count + 1].depth = p.scope

(* declareLocal: the value on top is from here on that of the local. *)
LEMMA Declares ==
  ASSUME NEW p \in Positions, NEW L \in Seq(Locals), Holds(p, L), Len(L) = p.count,
         NEW c, NEW d, Reaches(c, p, 1, d, L, p.scope),
         NEW name \in Names, NEW mutable \in BOOLEAN
  PROVE  \E M \in Seq(Locals), q \in Positions :
           Binds(DeclareAtSlot(c, name, p.depth, mutable), p, d, L, q, M)
  <1> DEFINE v == Fresh(c)
             local == [name |-> name, depth |-> p.scope, slot |-> p.depth,
                       mutable |-> mutable, variable |-> v]
             M == Append(L, local)
             T == {Append(Front(s), v) : s \in c.stacks}
             e == DeclareAtSlot(c, name, p.depth, mutable)
             q == [depth |-> p.depth + 1, count |-> p.count + 1, scope |-> p.scope,
                   from |-> T]
             r == [depth |-> p.depth + 1, count |-> p.count, scope |-> p.scope, from |-> T]
  <1>1. p.depth \in Nat /\ p.count \in Nat /\ p.scope \in Nat
    BY DEF Positions
  <1>2. c.locals = L /\ c.scopeDepth = p.scope /\ d \in Int /\ c = Code(d, c.stacks, L, p.scope)
    <2>1. c.locals = L /\ c.scopeDepth = p.scope /\ d \in Int
      BY ReachesFacts
    <2>2. c = Code(d, c.stacks, L, p.scope)
      BY DEF Reaches
    <2>3. QED
      BY <2>1, <2>2
  <1>3. v \in Nat
    BY <1>2, FreshIsNat
  <1>4. e = Code(d, T, M, p.scope)
    <2>1. e = [c EXCEPT !.locals = M, !.stacks = T]
      BY <1>2 DEF DeclareAtSlot
    <2> HIDE DEF M, T, e
    <2>2. e = Scoped(c, M, T)
      BY <2>1 DEF Scoped
    <2>3. QED
      BY <1>2, <2>2, CodeScoped
  <1>5. /\ local \in Locals /\ local.slot = p.depth /\ local.depth = p.scope
        /\ local.variable = v
    <2>1. local \in Locals
      <3> HIDE DEF v
      <3>1. QED
        BY <1>1, <1>3, Zenon DEF Locals
    <2>2. QED
      BY <2>1
  <1>6. ASSUME NEW t \in T
        PROVE  /\ t \in Seq(Nat) /\ Len(t) = p.depth + 1 /\ t[p.depth + 1] = v
               /\ SubSeq(t, 1, p.depth) \in p.from
    <2> HIDE DEF v
    <2>1. PICK s \in c.stacks : t = Append(Front(s), v)
      OBVIOUS
    <2>2. s \in Seq(Nat) /\ Len(s) = p.depth + 1 /\ SubSeq(s, 1, p.depth) \in p.from
      BY ReachesFacts
    <2>3. t = Append(Popped(s, 1), v) /\ 1 \in 0 .. 1
      BY <2>1 DEF Front, Popped
    <2>4. /\ Append(Popped(s, 1), v) \in Seq(Nat)
          /\ Len(Append(Popped(s, 1), v)) = p.depth + (1 - 1 + 1)
          /\ SubSeq(Append(Popped(s, 1), v), 1, p.depth) = SubSeq(s, 1, p.depth)
      BY <1>3, <2>2, <2>3, ReplacedAbove, ZenonT(60)
    <2>5. /\ Popped(s, 1) \in Seq(Nat) /\ Len(Popped(s, 1)) = p.depth + (1 - 1)
      BY <2>2, <2>3, PoppedAbove
    <2>6. Len(Popped(s, 1)) = p.depth /\ 1 - 1 + 1 = 1
      BY <1>1, <2>5
    <2>7. t[p.depth + 1] = v
      BY <1>3, <2>3, <2>5, <2>6
    <2>8. QED
      BY <2>2, <2>3, <2>4, <2>6, <2>7
  <1>7. T \in SUBSET Seq(Nat) /\ Over(T, p, 1)
    <2> HIDE DEF T
    <2>1. QED
      BY <1>6 DEF Over
  <1> HIDE DEF v, T, e
  <1>8. r \in Positions /\ Holds(r, L) /\ Extends(p, r)
    <2>1. p.scope <= p.scope
      BY <1>1
    <2> HIDE DEF r
    <2>2. QED
      BY <1>1, <1>7, <2>1, Above DEF r
  <1>9. /\ q.depth = p.depth + 1 /\ q.count = p.count + 1 /\ q.scope = p.scope /\ q.from = T
        /\ r.depth = p.depth + 1 /\ r.count = p.count /\ r.scope = p.scope /\ r.from = T
    OBVIOUS
  <1>10. q \in Positions
    BY <1>1, <1>7 DEF Positions
  <1> HIDE DEF q, r, local
  <1>11. /\ M \in Seq(Locals) /\ Len(M) = p.count + 1 /\ M[p.count + 1] = local
         /\ \A i \in 1 .. p.count : M[i] = L[i]
    BY <1>1, <1>5
  <1> HIDE DEF M
  <1>12. Over(T, q, 0)
    <2>1. Over(T, r, 0)
      BY <1>8, <1>9 DEF Holds
    <2>2. QED
      BY <1>9, <2>1 DEF Over
  <1>13. Holds(q, M)
    <2>1. ASSUME NEW i \in 1 .. q.count
          PROVE  /\ M[i].slot < q.depth /\ M[i].depth <= q.scope
                 /\ \A s \in q.from : s[M[i].slot + 1] = M[i].variable
      <3>1. CASE i = p.count + 1
        <4>1. M[i].slot = p.depth /\ M[i].depth = p.scope /\ M[i].variable = v
          BY <1>5, <1>11, <3>1
        <4>2. QED
          BY <1>1, <1>6, <1>9, <4>1
      <3>2. CASE i # p.count + 1
        <4>1. i \in 1 .. r.count /\ M[i] = L[i]
          BY <1>1, <1>9, <1>11, <3>2
        <4>2. QED
          BY <1>8, <1>9, <4>1 DEF Holds
      <3>3. QED
        BY <3>1, <3>2
    <2>2. q.count <= Len(M)
      BY <1>1, <1>9, <1>11
    <2>3. QED
      BY <1>9, <1>12, <2>1, <2>2 DEF Holds
  <1>14. Extends(p, q)
    <2>1. Over(T, p, r.depth - p.depth) /\ p.depth <= r.depth
      BY <1>8, <1>9 DEF Extends
    <2>2. p.count <= q.count /\ p.scope <= q.scope
      BY <1>1, <1>9
    <2>3. QED
      BY <1>9, <2>1, <2>2 DEF Extends
  <1>15. e.stacks = T
    BY <1>4 DEF Code
  <1>16. Reaches(e, q, 0, d, M, p.scope)
    BY <1>2, <1>4, <1>7, <1>12, <1>15 DEF Reaches
  <1>17. M[p.count + 1].depth = p.scope
    BY <1>5, <1>11
  <1>18. QED
    <2>1. Binds(e, p, d, L, q, M)
      BY <1>9, <1>11, <1>13, <1>14, <1>15, <1>16, <1>17 DEF Binds
    <2>2. QED
      BY <1>10, <1>11, <2>1 DEF e

LEMMA Greatest ==
  ASSUME NEW N \in Nat, NEW D \in SUBSET (1 .. N), D # {}
  PROVE  \E n \in D : \A m \in D : m <= n
  <1> DEFINE R == OpToRel(<, Nat)
             E == {N - n : n \in D}
  <1>1. IsWellFoundedOn(R, Nat)
    BY NatLessThanWellFounded
  <1>2. \A x, y \in Nat : x < y => <<x, y>> \in R
    BY Zenon DEF OpToRel
  <1>3. E \subseteq Nat /\ E # {}
    <2>1. \A n \in D : N - n \in Nat
      OBVIOUS
    <2>2. QED
      BY <2>1
  <1> HIDE DEF R
  <1>4. PICK x \in E : \A y \in E : <<y, x>> \notin R
    <2> HIDE DEF E
    <2>1. QED
      BY <1>1, <1>3, WFMin
  <1>5. \A y \in E : ~ (y < x)
    <2> HIDE DEF E
    <2>1. QED
      BY <1>2, <1>3, <1>4, Zenon
  <1>6. PICK n \in D : x = N - n
    BY <1>4
  <1>7. ASSUME NEW m \in D PROVE m <= n
    <2>1. ~ (N - m < N - n)
      BY <1>5, <1>6
    <2>2. QED
      BY <1>6, <2>1
  <1>8. QED
    BY <1>7

(* The innermost loop is one of the contexts. *)
LEMMA LoopIsOne ==
  ASSUME IsSequence(contexts), Loops # {}
  PROVE  Loop \in 1 .. Len(contexts) /\ contexts[Loop].of = "while"
  <1>1. Len(contexts) \in Nat /\ DOMAIN contexts = 1 .. Len(contexts)
    <2> DEFINE S == {contexts[i] : i \in DOMAIN contexts}
    <2>1. contexts \in Seq(S)
      BY DEF IsSequence
    <2> HIDE DEF S
    <2>2. QED
      BY <2>1
  <1>2. Loops \in SUBSET (1 .. Len(contexts))
    BY <1>1 DEF Loops
  <1>3. \E n \in Loops : \A m \in Loops : m <= n
    BY <1>1, <1>2, Greatest
  <1>4. Loop \in Loops
    BY <1>3 DEF Loop
  <1>5. QED
    BY <1>2, <1>4 DEF Loops
-----------------------------------------------------------------------------
(* The compiler stands at the last of the positions g, or above a value    *)
(* there.                                                                  *)
Stands(g) == Linked(contexts, g, compiler.locals) /\ IsAt(compiler, g[Len(g)], expects)

LEMMA AtPosition ==
  ASSUME NEW g, Stands(g)
  PROVE  /\ Linked(contexts, g, compiler.locals) /\ compiler.locals \in Seq(Locals)
         /\ Len(compiler.locals) = Last(g).count
         /\ Last(g) \in Positions /\ Holds(Last(g), compiler.locals)
         /\ Last(g).depth \in Nat /\ Last(g).count \in Nat /\ Last(g).scope \in Nat
         /\ Last(contexts) = Top
         /\ Operand =>
              /\ compiler.stacks = Last(g).from /\ compiler.depth = Last(g).depth
              /\ Reaches(compiler, Last(g), 0, Last(g).depth, compiler.locals,
                         Last(g).scope)
         /\ Ended =>
              /\ compiler.depth = Last(g).depth + 1
              /\ Reaches(compiler, Last(g), 1, Last(g).depth + 1, compiler.locals,
                         Last(g).scope)
  <1>1. Linked(contexts, g, compiler.locals) /\ IsAt(compiler, g[Len(g)], expects)
    BY DEF Stands
  <1>2. Last(g) \in Positions /\ Holds(Last(g), compiler.locals)
    BY <1>1, LinkedFacts
  <1>3. Last(g).depth \in Nat /\ Last(g).count \in Nat /\ Last(g).scope \in Nat
    BY <1>2 DEF Positions
  <1>4. /\ compiler.locals \in Seq(Locals) /\ Len(compiler.locals) = Last(g).count
        /\ expects = "operand" =>
             /\ compiler.stacks = Last(g).from /\ compiler.depth = Last(g).depth
             /\ Reaches(compiler, Last(g), 0, Last(g).depth, compiler.locals,
                        Last(g).scope)
        /\ expects # "operand" =>
             /\ compiler.depth = Last(g).depth + 1
             /\ Reaches(compiler, Last(g), 1, Last(g).depth + 1, compiler.locals,
                        Last(g).scope)
    BY <1>1, Now
  <1>5. QED
    BY <1>1, <1>2, <1>3, <1>4 DEF Operand, Ended, Top

(* In a context that binds no locals *)
LEMMA AtInner ==
  ASSUME NEW g, Stands(g), Top.of \notin Lists \cup {"match"}
  PROVE  LET p == Before(g, Len(g))
         IN /\ Linked(contexts, g, compiler.locals) /\ compiler.locals \in Seq(Locals)
            /\ Len(g) # 1 /\ p \in Positions /\ Holds(p, compiler.locals)
            /\ p.depth \in Nat /\ p.count \in Nat /\ p.scope \in Nat
            /\ Last(g).depth \in Nat /\ p.depth <= Last(g).depth
            /\ BeganOther(Top, p, Last(g), compiler.locals)
            /\ Last(g).scope = p.scope /\ Last(g).count = p.count
            /\ Len(compiler.locals) = p.count /\ Last(contexts) = Top
            /\ Ended =>
                 /\ compiler.depth = Last(g).depth + 1
                 /\ Reaches(compiler, p, Last(g).depth - p.depth + 1, Last(g).depth + 1,
                            compiler.locals, p.scope)
            /\ Operand =>
                 /\ compiler.depth = Last(g).depth
                 /\ Reaches(compiler, p, Last(g).depth - p.depth + 0, Last(g).depth,
                            compiler.locals, p.scope)
  <1> DEFINE p == Before(g, Len(g))
             q == Last(g)
             L == compiler.locals
  <1>1. /\ Linked(contexts, g, L) /\ L \in Seq(Locals) /\ Len(L) = q.count
        /\ Last(contexts) = Top
        /\ Ended => compiler.depth = q.depth + 1
                    /\ Reaches(compiler, q, 1, q.depth + 1, L, q.scope)
        /\ Operand => compiler.depth = q.depth
                      /\ Reaches(compiler, q, 0, q.depth, L, q.scope)
    BY AtPosition
  <1>2. Top.of # "function"
    BY DEF Lists
  <1>3. /\ Len(g) # 1 /\ p \in Positions /\ Holds(p, L) /\ Extends(p, q)
        /\ Began(Top, p, q, L) /\ q \in Positions
        /\ p.depth \in Nat /\ p.count \in Nat /\ p.scope \in Nat
        /\ q.depth \in Nat /\ p.depth <= q.depth
    BY <1>1, <1>2, Inside
  <1>4. BeganOther(Top, p, q, L) /\ q.scope = p.scope /\ q.count = p.count
    BY <1>3, Kind
  <1> HIDE DEF p, q, L
  <1>5. Ended => Reaches(compiler, p, q.depth - p.depth + 1, q.depth + 1, L, q.scope)
    BY <1>1, <1>3, Below
  <1>6. Operand => Reaches(compiler, p, q.depth - p.depth + 0, q.depth, L, q.scope)
    BY <1>1, <1>3, Below
  <1>7. QED
    BY <1>1, <1>3, <1>4, <1>5, <1>6 DEF p, q, L

(* What makes a value of nothing *)
LEMMA PushesValue ==
  ASSUME NEW g, Stands(g), Operand, NEW op \in {"Constant", "Nil", "GetLocal"}
  PROVE  Sound(compiler ++ Op(op), contexts, "operator")
  <1> DEFINE p == Last(g)
             L == compiler.locals
             c == compiler ++ Op(op)
  <1>1. /\ Linked(contexts, g, L) /\ L \in Seq(Locals) /\ Len(L) = p.count
        /\ p \in Positions /\ Reaches(compiler, p, 0, p.depth, L, p.scope)
    BY AtPosition
  <1>2. Reaches(c, p, 0 + 1, p.depth + 1, L, p.scope)
    <2> HIDE DEF p, L
    <2>1. QED
      BY <1>1, EmitsPush
  <1>3. Reaches(c, p, 1, p.depth + 1, L, p.scope)
    BY <1>2
  <1> HIDE DEF L
  <1>4. QED
    BY <1>1, <1>3, Yields

(* A context that begins before anything is emitted for it *)
LEMMA BeginsHere ==
  ASSUME NEW g, Stands(g), Operand, NEW x,
         Began(x, Last(g), Last(g), compiler.locals), x.of # "function",
         x.of = "declaration" => Top.of \in Lists
  PROVE  Sound(compiler, Append(contexts, x), "operand")
  <1> DEFINE p == Last(g)
             L == compiler.locals
  <1>1. /\ Linked(contexts, g, L) /\ L \in Seq(Locals) /\ Len(L) = p.count
        /\ p \in Positions /\ Reaches(compiler, p, 0, p.depth, L, p.scope)
        /\ p.depth \in Nat /\ p.scope \in Nat /\ compiler.stacks = p.from
        /\ Last(contexts) = Top
    BY AtPosition
  <1>2. Atop(p, 0, p.scope, compiler.stacks) = p
    <2> HIDE DEF p
    <2>1. p.depth + 0 = p.depth
      BY <1>1
    <2>2. QED
      BY <1>1, <2>1 DEF Atop, Positions
  <1>3. /\ Reaches(compiler, p, 0, p.depth + 0, L, p.scope) /\ p.scope <= p.scope
        /\ Began(x, p, Atop(p, 0, p.scope, compiler.stacks), L)
    <2>1. p.depth + 0 = p.depth /\ p.scope <= p.scope
      BY <1>1
    <2>2. QED
      BY <1>1, <1>2, <2>1
  <1> HIDE DEF L
  <1>4. QED
    BY <1>1, <1>3, Begins

SoundNext == Sound(compiler', contexts', expects')

LEMMA StepLiteral ==
  ASSUME NEW g, Stands(g), Literal PROVE SoundNext
  BY PushesValue DEF Literal, Goes, SoundNext

LEMMA StepVariable ==
  ASSUME NEW g, Stands(g), NEW name \in Names, Variable(name) PROVE SoundNext
  BY PushesValue DEF Variable, Goes, SoundNext

(* The local that Resolved gives is in scope. *)
LEMMA StepBeginAssignment ==
  ASSUME NEW g, Stands(g), NEW name \in Names, BeginAssignment(name) PROVE SoundNext
  <1> DEFINE p == Last(g)
             L == compiler.locals
  <1>1. Operand /\ compiler' = compiler /\ expects' = "operand"
    BY DEF BeginAssignment, Operand
  <1>2. PICK local \in Resolved(name) :
          contexts' = Append(contexts, [of |-> "assignment", local |-> local])
    BY DEF BeginAssignment, Enter
  <1> DEFINE x == [of |-> "assignment", local |-> local]
  <1>3. L \in Seq(Locals) /\ Len(L) = p.count
    BY AtPosition
  <1>4. \E i \in 1 .. p.count : local = L[i]
    <2>1. \E i \in DOMAIN L : local = L[i]
      BY DEF Resolved
    <2>2. DOMAIN L = 1 .. p.count
      BY <1>3
    <2>3. QED
      BY <2>1, <2>2
  <1>5. BeganOther(x, p, p, L)
    BY <1>4 DEF BeganOther
  <1>6. Began(x, p, p, L) /\ x.of = "assignment"
    BY <1>5 DEF Began
  <1> HIDE DEF x
  <1>7. Sound(compiler, Append(contexts, x), "operand")
    BY <1>1, <1>6, BeginsHere
  <1>8. QED
    BY <1>1, <1>2, <1>7 DEF SoundNext, x

LEMMA StepBeginDeclaration ==
  ASSUME NEW g, Stands(g), ~Scattered, NEW name \in Names, NEW mutable \in BOOLEAN,
         BeginDeclaration(name, mutable)
  PROVE  SoundNext
  <1> DEFINE p == Last(g)
             L == compiler.locals
             x == [of |-> "declaration", name |-> name, mutable |-> mutable]
  <1>1. /\ Operand /\ compiler' = compiler /\ expects' = "operand"
        /\ contexts' = Append(contexts, x) /\ Top.of \in Lists
    BY DEF BeginDeclaration, Operand, Enter
  <1>2. BeganOther(x, p, p, L)
    BY Zenon DEF BeganOther
  <1>3. Began(x, p, p, L)
    BY <1>2 DEF Began
  <1>4. x.of = "declaration"
    OBVIOUS
  <1> HIDE DEF x
  <1>5. Sound(compiler, Append(contexts, x), "operand")
    BY <1>1, <1>3, <1>4, BeginsHere
  <1>6. QED
    BY <1>1, <1>5 DEF SoundNext

LEMMA StepBeginReturn ==
  ASSUME NEW g, Stands(g), BeginReturn PROVE SoundNext
  <1> DEFINE p == Last(g)
             x == [of |-> "return", before |-> compiler.depth]
  <1>1. /\ Operand /\ compiler' = compiler /\ expects' = "operand"
        /\ contexts' = Append(contexts, x)
    BY DEF BeginReturn, Operand, Enter
  <1>2. compiler.depth = p.depth
    BY <1>1, AtPosition
  <1>3. BeganOther(x, p, p, compiler.locals)
    BY <1>2 DEF BeganOther
  <1>4. Began(x, p, p, compiler.locals) /\ x.of = "return"
    BY <1>3 DEF Began
  <1> HIDE DEF x
  <1>5. Sound(compiler, Append(contexts, x), "operand")
    BY <1>1, <1>4, BeginsHere
  <1>6. QED
    BY <1>1, <1>5 DEF SoundNext

LEMMA NoStacks ==
  \A p : {} \in SUBSET Seq(Nat) /\ Over({}, p, 0) /\ Over({}, p, 1) /\ Over({}, p, 2)
  BY DEF Over

LEMMA StepBeginIf ==
  ASSUME NEW g, Stands(g), BeginIf PROVE SoundNext
  <1> DEFINE p == Last(g)
             x == Condition(compiler)
  <1>1. /\ Operand /\ compiler' = compiler /\ expects' = "operand"
        /\ contexts' = Append(contexts, x)
    BY DEF BeginIf, Operand, Enter
  <1>2. compiler.depth = p.depth
    BY <1>1, AtPosition
  <1>3. x = [of |-> "if", part |-> "condition", base |-> p.depth, jump |-> {}]
    BY <1>2 DEF Condition
  <1>4. BeganOther(x, p, p, compiler.locals)
    <2> HIDE DEF x
    <2>1. QED
      BY <1>3, NoStacks DEF BeganOther
  <1>5. Began(x, p, p, compiler.locals) /\ x.of = "if"
    BY <1>3, <1>4 DEF Began
  <1> HIDE DEF x
  <1>6. Sound(compiler, Append(contexts, x), "operand")
    BY <1>1, <1>5, BeginsHere
  <1>7. QED
    BY <1>1, <1>6 DEF SoundNext

LEMMA StepBeginWhile ==
  ASSUME NEW g, Stands(g), BeginWhile PROVE SoundNext
  <1> DEFINE p == Last(g)
             x == [of |-> "while", part |-> "condition", base |-> compiler.depth,
                   start |-> compiler.stacks, exit |-> {}, breaks |-> {}]
  <1>1. /\ Operand /\ compiler' = compiler /\ expects' = "operand"
        /\ contexts' = Append(contexts, x)
    BY DEF BeginWhile, Operand, Enter
  <1>2. compiler.depth = p.depth /\ compiler.stacks = p.from
    BY <1>1, AtPosition
  <1>3. x = [of |-> "while", part |-> "condition", base |-> p.depth,
             start |-> p.from, exit |-> {}, breaks |-> {}]
    BY <1>2
  <1>4. BeganOther(x, p, p, compiler.locals)
    <2> HIDE DEF x
    <2>1. QED
      BY <1>3, NoStacks DEF BeganOther
  <1>5. Began(x, p, p, compiler.locals) /\ x.of = "while"
    BY <1>3, <1>4 DEF Began
  <1> HIDE DEF x
  <1>6. Sound(compiler, Append(contexts, x), "operand")
    BY <1>1, <1>5, BeginsHere
  <1>7. QED
    BY <1>1, <1>6 DEF SoundNext

LEMMA StepBeginMatch ==
  ASSUME NEW g, Stands(g), BeginMatch PROVE SoundNext
  <1> DEFINE p == Last(g)
             x == [of |-> "match", part |-> "subject", base |-> compiler.depth,
                   bound |-> FALSE, tested |-> FALSE, fails |-> {}, ends |-> {}]
  <1>1. /\ Operand /\ compiler' = compiler /\ expects' = "operand"
        /\ contexts' = Append(contexts, x)
    BY DEF BeginMatch, Operand, Enter
  <1>2. compiler.depth = p.depth
    BY <1>1, AtPosition
  <1>3. x = [of |-> "match", part |-> "subject", base |-> p.depth,
             bound |-> FALSE, tested |-> FALSE, fails |-> {}, ends |-> {}]
    BY <1>2
  <1>4. BeganMatch(x, p, p)
    <2>1. /\ x.part = "subject" /\ x.bound = FALSE /\ x.fails = {} /\ x.ends = {}
      OBVIOUS
    <2> HIDE DEF x
    <2>2. \E part \in {"subject", "guard", "body", "arms"}, bound \in BOOLEAN,
             tested \in BOOLEAN, fails, ends \in SUBSET Seq(Nat) :
            x = [of |-> "match", part |-> part, base |-> p.depth, bound |-> bound,
                 tested |-> tested, fails |-> fails, ends |-> ends]
      BY <1>3, NoStacks
    <2>3. QED
      BY <2>1, <2>2, NoStacks DEF BeganMatch
  <1>5. Began(x, p, p, compiler.locals) /\ x.of = "match"
    BY <1>3, <1>4 DEF Began
  <1> HIDE DEF x
  <1>6. Sound(compiler, Append(contexts, x), "operand")
    BY <1>1, <1>5, BeginsHere
  <1>7. QED
    BY <1>1, <1>6 DEF SoundNext

LEMMA AtopFields ==
  \A p, n, z, T : /\ Atop(p, n, z, T).depth = p.depth + n
                  /\ Atop(p, n, z, T).count = p.count
                  /\ Atop(p, n, z, T).scope = z /\ Atop(p, n, z, T).from = T
  BY DEF Atop

(* The innermost context goes on above n values where it began. *)
LEMMA GoesOn ==
  ASSUME NEW c, NEW cs, NEW g, NEW L, Linked(cs, g, L), L \in Seq(Locals),
         Last(cs).of # "function", NEW p, p = Before(g, Len(g)), Len(L) = p.count,
         NEW n \in Nat, Reaches(c, p, n, p.depth + n, L, p.scope),
         NEW x, Began(x, p, Atop(p, n, p.scope, c.stacks), L), x.of = Last(cs).of
  PROVE  LET q == Atop(p, n, p.scope, c.stacks)
             h == Append(Front(g), q)
             ds == Append(Front(cs), x)
         IN /\ Linked(ds, h, L) /\ Last(h) = q /\ Last(ds) = x
            /\ Sound(c, ds, "operand")
  <1> DEFINE q == Atop(p, n, p.scope, c.stacks)
  <1>1. /\ Len(g) # 1 /\ p \in Positions /\ Holds(p, L) /\ p = g[Len(g) - 1]
        /\ p.depth \in Nat /\ p.scope \in Nat
    BY Inside
  <1>2. p.scope <= p.scope
    BY <1>1
  <1>3. /\ q \in Positions /\ Holds(q, L) /\ Extends(p, q)
        /\ q.depth = p.depth + n /\ q.count = p.count /\ q.scope = p.scope
        /\ q.from = c.stacks /\ Reaches(c, q, 0, p.depth + n, L, p.scope)
    BY <1>1, <1>2, AtopFacts
  <1>4. Began(x, Before(g, Len(g)), q, L)
    OBVIOUS
  <1> HIDE DEF q
  <1>5. Len(g) # 1 => Extends(g[Len(g) - 1], q)
    BY <1>1, <1>3
  <1>6. Len(L) = q.count /\ Reaches(c, q, 0, q.depth, L, q.scope)
    BY <1>3
  <1>7. QED
    BY <1>3, <1>4, <1>5, <1>6, Becomes DEF q

LEMMA StepBareReturn ==
  ASSUME NEW g, Stands(g), BareReturn PROVE SoundNext
  <1> DEFINE p == Last(g)
             L == compiler.locals
             b == compiler ++ Op("Nil")
             c == b ++ Op("Return")
             e == SetDepth(c, compiler.depth + 1)
  <1>1. Operand /\ compiler' = e /\ expects' = "operator" /\ contexts' = contexts
    BY DEF BareReturn, Goes, Returned
  <1>2. /\ Linked(contexts, g, L) /\ L \in Seq(Locals) /\ Len(L) = p.count
        /\ p \in Positions /\ Reaches(compiler, p, 0, p.depth, L, p.scope)
        /\ p.depth \in Nat /\ compiler.depth = p.depth
    BY <1>1, AtPosition
  <1> HIDE DEF L
  <1>3. Reaches(b, p, 0 + 1, p.depth + 1, L, p.scope)
    BY <1>2, EmitsPush
  <1> HIDE DEF b
  <1>4. Reaches(c, p, 1, p.depth + 1, L, p.scope)
    BY <1>2, <1>3, EmitsJump
  <1> HIDE DEF c
  <1>5. Reaches(e, p, 1, p.depth + 1, L, p.scope)
    BY <1>2, <1>4, SetsDepth, SMTT(30)
  <1> HIDE DEF e
  <1>6. Sound(e, contexts, "operator")
    BY <1>2, <1>5, Yields
  <1>7. QED
    BY <1>1, <1>6 DEF SoundNext

LEMMA StepEmptyMap ==
  ASSUME NEW g, Stands(g), EmptyMap PROVE SoundNext
  <1> DEFINE p == Last(g)
             L == compiler.locals
             c == compiler ++ OpArg("MakeMap", 0)
             e == SetDepth(c, compiler.depth + 1)
  <1>1. Operand /\ compiler' = e /\ expects' = "operator" /\ contexts' = contexts
    BY DEF EmptyMap, Goes, MakeMap
  <1>2. /\ Linked(contexts, g, L) /\ L \in Seq(Locals) /\ Len(L) = p.count
        /\ p \in Positions /\ Reaches(compiler, p, 0, p.depth, L, p.scope)
        /\ p.depth \in Nat /\ compiler.depth = p.depth
    BY <1>1, AtPosition
  <1> HIDE DEF L
  <1>3. Reaches(c, p, 1, p.depth, L, p.scope)
    <2>1. 0 \in Nat /\ 2 * 0 <= 0 /\ 0 - 2 * 0 + 1 = 1
      OBVIOUS
    <2>2. \A k, n \in Nat : 2 * k <= n /\ Reaches(compiler, p, n, p.depth, L, p.scope)
            => Reaches(compiler ++ OpArg("MakeMap", k), p, n - 2 * k + 1, p.depth, L, p.scope)
      BY <1>2, EmitsMakeMap
    <2>3. Reaches(c, p, 0 - 2 * 0 + 1, p.depth, L, p.scope)
      BY <1>2, <2>1, <2>2
    <2>4. QED
      BY <2>1, <2>3
  <1> HIDE DEF c
  <1>4. Reaches(e, p, 1, p.depth + 1, L, p.scope)
    BY <1>2, <1>3, SetsDepth, SMTT(30)
  <1> HIDE DEF e
  <1>5. Sound(e, contexts, "operator")
    BY <1>2, <1>4, Yields
  <1>6. QED
    BY <1>1, <1>5 DEF SoundNext

LEMMA StepEndReturn ==
  ASSUME NEW g, Stands(g), EndReturn PROVE SoundNext
  <1> DEFINE p == Before(g, Len(g))
             L == compiler.locals
             c == compiler ++ Op("Return")
             e == SetDepth(c, Top.before + 1)
  <1>1. /\ Ended /\ Top.of = "return" /\ compiler' = e /\ expects' = "operator"
        /\ contexts' = Front(contexts)
    BY DEF EndReturn, In, Goes, Returned, Leave
  <1>2. Top.of \notin Lists \cup {"match"}
    BY <1>1 DEF Lists
  <1>3. /\ Linked(contexts, g, L) /\ L \in Seq(Locals) /\ Len(g) # 1 /\ Len(L) = p.count
        /\ p \in Positions /\ BeganOther(Top, p, Last(g), L) /\ p.depth \in Nat
        /\ Reaches(compiler, p, Last(g).depth - p.depth + 1, Last(g).depth + 1, L, p.scope)
    BY <1>1, <1>2, AtInner
  <1>4. Top.before = p.depth
    BY <1>1, <1>3, KindSimple
  <1> HIDE DEF L, p
  <1>5. Reaches(c, p, 1, Last(g).depth + 1, L, p.scope)
    BY <1>3, EmitsJump
  <1> HIDE DEF c
  <1>6. Reaches(e, p, 1, p.depth + 1, L, p.scope)
    BY <1>3, <1>4, <1>5, SetsDepth
  <1> HIDE DEF e
  <1>7. Sound(e, Front(contexts), "operator")
    BY <1>3, <1>6, Leaves DEF p
  <1>8. QED
    BY <1>1, <1>7 DEF SoundNext

LEMMA ByteOf == ASSUME NEW slot \in Nat, slot < SlotWidth PROVE Byte(slot) = slot
  BY CodegenAssumption DEF Byte

LEMMA StepEndAssignment ==
  ASSUME NEW g, Stands(g), compiler.depth <= SlotWidth, EndAssignment PROVE SoundNext
  <1> DEFINE p == Before(g, Len(g))
             q == Last(g)
             L == compiler.locals
             local == Top.local
             e == compiler ++ [op |-> "SetLocal", slot |-> Byte(local.slot),
                               arg |-> local.variable]
  <1>1. /\ Ended /\ Top.of = "assignment" /\ compiler' = e /\ expects' = "operator"
        /\ contexts' = Front(contexts)
    BY DEF EndAssignment, In, Goes, Leave
  <1>2. Top.of \notin Lists \cup {"match"}
    BY <1>1 DEF Lists
  <1>3. /\ Linked(contexts, g, L) /\ L \in Seq(Locals) /\ Len(g) # 1 /\ Len(L) = p.count
        /\ p \in Positions /\ BeganOther(Top, p, q, L) /\ p.depth \in Nat
        /\ Holds(p, L) /\ p.count \in Nat
        /\ Reaches(compiler, p, q.depth - p.depth + 1, q.depth + 1, L, p.scope)
        /\ compiler.depth = q.depth + 1
    BY <1>1, <1>2, AtInner
  <1> HIDE DEF L, p
  <1>4. q.depth = p.depth /\ \E i \in 1 .. p.count : local = L[i]
    <2> DEFINE x == Top
    <2>1. BeganOther(x, p, q, L) /\ x.of = "assignment"
      BY <1>1, <1>3
    <2> HIDE DEF x, q
    <2>2. q.depth = p.depth /\ \E i \in 1 .. p.count : x.local = L[i]
      BY <2>1, KindSimple
    <2>3. QED
      BY <2>2 DEF x
  <1>5. Reaches(compiler, p, 1, p.depth + 1, L, p.scope) /\ compiler.depth = p.depth + 1
    <2>1. q.depth - p.depth + 1 = 1
      BY <1>3, <1>4
    <2>2. QED
      BY <1>3, <1>4, <2>1
  <1>6. PICK i \in 1 .. p.count : local = L[i]
    BY <1>4
  <1>7. /\ local \in Locals /\ local.slot < p.depth
        /\ \A s \in p.from : s[local.slot + 1] = local.variable
    <2>1. L[i] \in Locals
      BY <1>3, <1>6
    <2>2. /\ L[i].slot < p.depth
          /\ \A s \in p.from : s[L[i].slot + 1] = L[i].variable
      BY <1>3, <1>6 DEF Holds
    <2>3. QED
      BY <1>6, <2>1, <2>2
  <1>8. local.slot \in Nat
    BY <1>7 DEF Locals
  <1>9. Byte(local.slot) = local.slot
    <2>1. local.slot < SlotWidth
      BY <1>3, <1>5, <1>7, <1>8, CodegenAssumption
    <2>2. QED
      BY <1>8, <2>1, ByteOf
  <1> HIDE DEF local
  <1>10. Reaches(compiler ++ [op |-> "SetLocal", slot |-> local.slot,
                              arg |-> local.variable], p, 1, p.depth + 1, L, p.scope)
    BY <1>3, <1>5, <1>7, <1>8, EmitsSetLocal
  <1>11. Reaches(e, p, 1, p.depth + 1, L, p.scope)
    BY <1>9, <1>10
  <1> HIDE DEF e
  <1>12. Sound(e, Front(contexts), "operator")
    BY <1>3, <1>11, Leaves DEF p
  <1>13. QED
    BY <1>1, <1>12 DEF SoundNext
-----------------------------------------------------------------------------
(* Operators *)

LEMMA StepBeginBinary ==
  ASSUME NEW g, Stands(g), BeginBinary PROVE SoundNext
  <1> DEFINE p == Last(g)
             L == compiler.locals
             x == [of |-> "binary"]
  <1>1. /\ Ended /\ compiler' = compiler /\ expects' = "operand"
        /\ contexts' = Append(contexts, x)
    BY DEF BeginBinary, Operator, Ended, Goes, Enter
  <1>2. /\ Linked(contexts, g, L) /\ L \in Seq(Locals) /\ Len(L) = p.count
        /\ Reaches(compiler, p, 1, p.depth + 1, L, p.scope)
        /\ p.scope \in Nat /\ p.scope <= p.scope
    BY <1>1, AtPosition
  <1> DEFINE q == Atop(p, 1, p.scope, compiler.stacks)
  <1>3. q.depth = p.depth + 1 /\ q.scope = p.scope /\ q.count = p.count
    BY AtopFields
  <1> HIDE DEF q
  <1>4. Began(x, p, q, L)
    BY <1>3 DEF Began, BeganOther
  <1>5. x.of = "binary"
    OBVIOUS
  <1> HIDE DEF x, L
  <1>6. Sound(compiler, Append(contexts, x), "operand")
    BY <1>2, <1>4, <1>5, Begins DEF q
  <1>7. QED
    BY <1>1, <1>6 DEF SoundNext

LEMMA StepEndBinary ==
  ASSUME NEW g, Stands(g), EndBinary PROVE SoundNext
  <1> DEFINE p == Before(g, Len(g))
             q == Last(g)
             L == compiler.locals
             e == compiler ++ Op("Equal")
  <1>1. /\ Ended /\ Top.of = "binary" /\ compiler' = e /\ expects' = "operator"
        /\ contexts' = Front(contexts)
    BY DEF EndBinary, In, Goes, Leave
  <1>2. Top.of \notin Lists \cup {"match"}
    BY <1>1 DEF Lists
  <1>3. /\ Linked(contexts, g, L) /\ L \in Seq(Locals) /\ Len(g) # 1 /\ Len(L) = p.count
        /\ p \in Positions /\ BeganOther(Top, p, q, L) /\ p.depth \in Nat
        /\ Reaches(compiler, p, q.depth - p.depth + 1, q.depth + 1, L, p.scope)
    BY <1>1, <1>2, AtInner
  <1> HIDE DEF L, p
  <1>4. q.depth = p.depth + 1
    BY <1>1, <1>3, KindSimple
  <1>5. Reaches(compiler, p, 2, p.depth + 2, L, p.scope)
    <2>1. q.depth - p.depth + 1 = 2 /\ q.depth + 1 = p.depth + 2
      BY <1>3, <1>4
    <2>2. QED
      BY <1>3, <2>1
  <1>6. Reaches(e, p, 2 - 1, p.depth + 2 - 1, L, p.scope)
    BY <1>3, <1>5, EmitsEqual
  <1>7. Reaches(e, p, 1, p.depth + 1, L, p.scope)
    <2>1. 2 - 1 = 1 /\ p.depth + 2 - 1 = p.depth + 1
      BY <1>3
    <2>2. QED
      BY <1>6, <2>1
  <1> HIDE DEF e
  <1>8. Sound(e, Front(contexts), "operator")
    BY <1>3, <1>7, Leaves DEF p
  <1>9. QED
    BY <1>1, <1>8 DEF SoundNext

(* A test, and who does not jump drops what was tested. *)
LEMMA DropsTested ==
  ASSUME NEW p \in Positions, NEW c, NEW d, NEW L, NEW z, NEW n \in Nat \ {0},
         Reaches(c, p, n, d, L, z), NEW op \in {"JumpIfFalse", "JumpIfTrue"}
  PROVE  Reaches(c ++ Op(op) ++ Op("Pop"), p, n - 1, d - 1, L, z)
  <1> DEFINE t == c ++ Op(op)
  <1>1. Reaches(t, p, n, d, L, z)
    BY EmitsTest
  <1> HIDE DEF t
  <1>2. Reaches(t ++ Op("Pop"), p, n - 1, d - 1, L, z)
    BY <1>1, EmitsPop
  <1>3. QED
    BY <1>2 DEF t

LEMMA StepBeginLogic ==
  ASSUME NEW g, Stands(g), BeginAnd \/ BeginOr PROVE SoundNext
  <1> DEFINE p == Last(g)
             L == compiler.locals
             x == [of |-> "logic", end |-> compiler.stacks]
             else == compiler ++ Op("JumpIfFalse")
             jump == else ++ Op("Jump")
             patched == Patched(jump, compiler.stacks)
             e == compiler'
  <1>1. /\ Ended /\ expects' = "operand" /\ contexts' = Append(contexts, x)
        /\ \/ e = compiler ++ Op("JumpIfFalse") ++ Op("Pop")
           \/ e = patched ++ Op("Pop")
    BY DEF BeginAnd, BeginOr, Operator, Ended, Goes, Enter
  <1>2. /\ Linked(contexts, g, L) /\ L \in Seq(Locals) /\ Len(L) = p.count
        /\ p \in Positions /\ p.depth \in Nat
        /\ Reaches(compiler, p, 1, p.depth + 1, L, p.scope)
        /\ p.scope \in Nat /\ p.scope <= p.scope
    BY <1>1, AtPosition
  <1>3. compiler.stacks \in SUBSET Seq(Nat) /\ Over(compiler.stacks, p, 1)
    BY <1>2 DEF Reaches
  <1> HIDE DEF L
  <1>4. Reaches(compiler ++ Op("JumpIfFalse") ++ Op("Pop"), p, 1 - 1, p.depth + 1 - 1,
                L, p.scope)
    BY <1>2, DropsTested
  <1>5. Reaches(patched ++ Op("Pop"), p, 1 - 1, p.depth + 1 - 1, L, p.scope)
    <2>1. Reaches(else, p, 1, p.depth + 1, L, p.scope)
      BY <1>2, EmitsTest
    <2> HIDE DEF else
    <2>2. Reaches(jump, p, 1, p.depth + 1, L, p.scope)
      BY <1>2, <2>1, EmitsJump
    <2> HIDE DEF jump
    <2>3. Reaches(patched, p, 1, p.depth + 1, L, p.scope)
      BY <1>3, <2>2, Patches
    <2> HIDE DEF patched
    <2>4. QED
      BY <1>2, <2>3, EmitsPop
  <1> HIDE DEF patched
  <1>6. Reaches(e, p, 0, p.depth + 0, L, p.scope)
    <2>1. 1 - 1 = 0 /\ p.depth + 1 - 1 = p.depth + 0
      BY <1>2
    <2>2. QED
      BY <1>1, <1>4, <1>5, <2>1
  <1> HIDE DEF e
  <1> DEFINE q == Atop(p, 0, p.scope, e.stacks)
  <1>7. q.depth = p.depth /\ q.scope = p.scope /\ q.count = p.count
    <2>1. p.depth + 0 = p.depth
      BY <1>2
    <2>2. QED
      BY <2>1, AtopFields
  <1> HIDE DEF q
  <1>8. BeganOther(x, p, q, L)
    BY <1>3, <1>7 DEF BeganOther
  <1>9. Began(x, p, q, L) /\ x.of = "logic"
    BY <1>7, <1>8 DEF Began
  <1> HIDE DEF x
  <1>10. Sound(e, Append(contexts, x), "operand")
    BY <1>2, <1>6, <1>9, Begins DEF q
  <1>11. QED
    BY <1>1, <1>10 DEF SoundNext, e

LEMMA StepEndLogic ==
  ASSUME NEW g, Stands(g), EndLogic PROVE SoundNext
  <1> DEFINE p == Before(g, Len(g))
             q == Last(g)
             L == compiler.locals
             e == Patched(compiler, Top.end)
  <1>1. /\ Ended /\ Top.of = "logic" /\ compiler' = e /\ expects' = "operator"
        /\ contexts' = Front(contexts)
    BY DEF EndLogic, In, Goes, Leave
  <1>2. Top.of \notin Lists \cup {"match"}
    BY <1>1 DEF Lists
  <1>3. /\ Linked(contexts, g, L) /\ L \in Seq(Locals) /\ Len(g) # 1 /\ Len(L) = p.count
        /\ p \in Positions /\ BeganOther(Top, p, q, L) /\ p.depth \in Nat
        /\ Reaches(compiler, p, q.depth - p.depth + 1, q.depth + 1, L, p.scope)
    BY <1>1, <1>2, AtInner
  <1> HIDE DEF L, p
  <1>4. q.depth = p.depth /\ Top.end \in SUBSET Seq(Nat) /\ Over(Top.end, p, 1)
    BY <1>1, <1>3, KindSimple
  <1>5. Reaches(compiler, p, 1, p.depth + 1, L, p.scope)
    <2>1. q.depth - p.depth + 1 = 1
      BY <1>3, <1>4
    <2>2. QED
      BY <1>3, <1>4, <2>1
  <1>6. Reaches(e, p, 1, p.depth + 1, L, p.scope)
    BY <1>3, <1>4, <1>5, Patches
  <1> HIDE DEF e
  <1>7. Sound(e, Front(contexts), "operator")
    BY <1>3, <1>6, Leaves DEF p
  <1>8. QED
    BY <1>1, <1>7 DEF SoundNext
-----------------------------------------------------------------------------
(* Calls and maps *)

LEMMA StepBeginCall ==
  ASSUME NEW g, Stands(g), NEW method \in BOOLEAN, BeginCall(method) PROVE SoundNext
  <1> DEFINE p == Last(g)
             L == compiler.locals
             dup == compiler ++ Op("Dup")
             get == dup ++ Op("GetProperty")
             swap == get ++ Op("Swap")
             x(n) == [of |-> "call", count |-> n, begun |-> FALSE]
             e == compiler'
  <1>1. /\ Ended /\ expects' = "operand"
        /\ \/ e = compiler /\ contexts' = Append(contexts, x(0))
           \/ e = swap /\ contexts' = Append(contexts, x(1))
    BY DEF BeginCall, Operator, Ended, Goes, Enter
  <1>2. /\ Linked(contexts, g, L) /\ L \in Seq(Locals) /\ Len(L) = p.count
        /\ p \in Positions /\ p.depth \in Nat
        /\ Reaches(compiler, p, 1, p.depth + 1, L, p.scope)
        /\ p.scope \in Nat /\ p.scope <= p.scope
    BY <1>1, AtPosition
  <1> HIDE DEF L
  <1>3. Reaches(swap, p, 2, p.depth + 2, L, p.scope)
    <2>1. Reaches(dup, p, 1 + 1, p.depth + 1 + 1, L, p.scope)
      BY <1>2, EmitsPush
    <2>2. 1 + 1 = 2 /\ p.depth + 1 + 1 = p.depth + 2
      BY <1>2
    <2> HIDE DEF dup
    <2>3. Reaches(dup, p, 2, p.depth + 2, L, p.scope)
      BY <2>1, <2>2
    <2>4. Reaches(get, p, 2, p.depth + 2, L, p.scope)
      BY <1>2, <2>3, EmitsGetProperty
    <2> HIDE DEF get
    <2>5. QED
      BY <1>2, <2>4, EmitsSwap
  <1> HIDE DEF swap
  <1>4. PICK n \in {0, 1} : /\ contexts' = Append(contexts, x(n))
                            /\ Reaches(e, p, n + 1, p.depth + (n + 1), L, p.scope)
    <2>1. 0 + 1 = 1 /\ 1 + 1 = 2
      OBVIOUS
    <2>2. QED
      BY <1>1, <1>2, <1>3, <2>1
  <1> HIDE DEF e
  <1> DEFINE q == Atop(p, n + 1, p.scope, e.stacks)
  <1>5. q.depth = p.depth + 1 + x(n).count /\ q.scope = p.scope /\ q.count = p.count
    <2>1. p.depth + (n + 1) = p.depth + 1 + n
      BY <1>2
    <2>2. QED
      BY <2>1, AtopFields
  <1> HIDE DEF q
  <1>6. BeganOther(x(n), p, q, L)
    <2>1. n \in Nat
      OBVIOUS
    <2>2. QED
      BY <1>5, <2>1 DEF BeganOther
  <1>7. Began(x(n), p, q, L) /\ x(n).of = "call" /\ n + 1 \in Nat
    BY <1>5, <1>6 DEF Began
  <1> HIDE DEF x
  <1>8. Sound(e, Append(contexts, x(n)), "operand")
    BY <1>2, <1>4, <1>7, Begins DEF q
  <1>9. QED
    BY <1>1, <1>4, <1>8 DEF SoundNext, e

LEMMA StepNextArgument ==
  ASSUME NEW g, Stands(g), NextArgument PROVE SoundNext
  <1> DEFINE p == Before(g, Len(g))
             q == Last(g)
             L == compiler.locals
             k == Top.count
             x == [Top EXCEPT !.count = @ + 1, !.begun = TRUE]
  <1>1. /\ Ended /\ Top.of = "call" /\ compiler' = compiler /\ expects' = "operand"
        /\ contexts' = Append(Front(contexts), x)
    BY DEF NextArgument, In, Goes, Become
  <1>2. Top.of \notin Lists \cup {"match"}
    BY <1>1 DEF Lists
  <1>3. /\ Linked(contexts, g, L) /\ L \in Seq(Locals) /\ Len(g) # 1 /\ Len(L) = p.count
        /\ p \in Positions /\ BeganOther(Top, p, q, L) /\ p.depth \in Nat
        /\ Reaches(compiler, p, q.depth - p.depth + 1, q.depth + 1, L, p.scope)
        /\ Last(contexts) = Top
    BY <1>1, <1>2, AtInner
  <1> HIDE DEF L, p
  <1>a. Top = [of |-> "call", count |-> k, begun |-> Top.begun]
    BY <1>1, <1>3, KindCall
  <1>4. k \in Nat /\ q.depth = p.depth + 1 + k
    BY <1>1, <1>3, KindCall
  <1>5. Reaches(compiler, p, k + 2, p.depth + (k + 2), L, p.scope) /\ k + 2 \in Nat
    <2>1. q.depth - p.depth + 1 = k + 2 /\ q.depth + 1 = p.depth + (k + 2)
      BY <1>3, <1>4, SMTT(30)
    <2>2. QED
      BY <1>3, <1>4, <2>1
  <1>6. x = [of |-> "call", count |-> k + 1, begun |-> TRUE]
    <2> DEFINE z == Top
               b == z.begun
               y == [z EXCEPT !.count = k + 1]
    <2>1. z = [of |-> "call", count |-> k, begun |-> b]
      BY <1>a
    <2>2. x = [y EXCEPT !.begun = TRUE]
      OBVIOUS
    <2> HIDE DEF k, z, b
    <2>3. y = [of |-> "call", count |-> k + 1, begun |-> b]
      BY <2>1
    <2> HIDE DEF y, x
    <2>4. QED
      BY <2>2, <2>3
  <1> DEFINE r == Atop(p, k + 2, p.scope, compiler.stacks)
  <1>7. r.depth = p.depth + 1 + (k + 1) /\ r.scope = p.scope /\ r.count = p.count
    <2> HIDE DEF k
    <2>1. p.depth + (k + 2) = p.depth + 1 + (k + 1)
      BY <1>3, <1>4, SMTT(30)
    <2>2. QED
      BY <2>1, AtopFields
  <1> HIDE DEF r, x, k
  <1>8. x.count = k + 1 /\ k + 1 \in Nat /\ x.of = "call"
    BY <1>4, <1>6
  <1>9. BeganOther(x, p, r, L)
    BY <1>6, <1>7, <1>8 DEF BeganOther
  <1>10. Began(x, p, r, L)
    BY <1>7, <1>9 DEF Began
  <1>11. Sound(compiler, Append(Front(contexts), x), "operand")
    BY <1>1, <1>3, <1>5, <1>8, <1>10, GoesOn DEF p, r
  <1>12. QED
    BY <1>1, <1>11 DEF SoundNext

LEMMA StepEndCall ==
  ASSUME NEW g, Stands(g), EndCall PROVE SoundNext
  <1> DEFINE p == Before(g, Len(g))
             q == Last(g)
             L == compiler.locals
             k == Top.count
             n == k + IF Ended THEN 1 ELSE 0
             c == compiler ++ OpArg("Call", n)
             e == SetDepth(c, compiler.depth - n)
  <1>1. /\ Top.of = "call" /\ compiler' = e /\ expects' = "operator"
        /\ contexts' = Front(contexts)
    BY DEF EndCall, Goes, EmitCall, Leave
  <1>2. Top.of \notin Lists \cup {"match"}
    BY <1>1 DEF Lists
  <1>3. /\ Linked(contexts, g, L) /\ L \in Seq(Locals) /\ Len(g) # 1 /\ Len(L) = p.count
        /\ p \in Positions /\ BeganOther(Top, p, q, L) /\ p.depth \in Nat
        /\ Ended =>
             /\ compiler.depth = q.depth + 1
             /\ Reaches(compiler, p, q.depth - p.depth + 1, q.depth + 1, L, p.scope)
        /\ Operand =>
             /\ compiler.depth = q.depth
             /\ Reaches(compiler, p, q.depth - p.depth + 0, q.depth, L, p.scope)
    BY <1>2, AtInner
  <1> HIDE DEF L, p, e
  <1>4. k \in Nat /\ q.depth = p.depth + 1 + k
    BY <1>1, <1>3, KindCall
  <1>5. n \in Nat
    BY <1>4
  <1>6. Reaches(compiler, p, n + 1, p.depth + (n + 1), L, p.scope)
        /\ compiler.depth = p.depth + (n + 1)
    <2>1. CASE Ended
      <3>1. n = k + 1
        BY <2>1
      <3>2. q.depth - p.depth + 1 = n + 1 /\ q.depth + 1 = p.depth + (n + 1)
        BY <1>3, <1>4, <3>1
      <3>3. QED
        BY <1>3, <2>1, <3>2
    <2>2. CASE ~Ended
      <3>1. n = k /\ Operand
        BY <1>4, <2>2 DEF Ended, Operand
      <3>2. q.depth - p.depth + 0 = n + 1 /\ q.depth = p.depth + (n + 1)
        BY <1>3, <1>4, <3>1, SMTT(30)
      <3>3. QED
        BY <1>3, <3>1, <3>2
    <2>3. QED
      BY <2>1, <2>2
  <1> HIDE DEF n
  <1> DEFINE m == n + 1
             d == p.depth + (n + 1)
  <1>7. m \in Nat /\ n + 1 <= m /\ m - n = 1 /\ d - n = p.depth + 1 /\ p.depth + 1 \in Int
    BY <1>3, <1>5
  <1>8. Reaches(compiler, p, m, d, L, p.scope) /\ compiler.depth = d
    BY <1>6
  <1> HIDE DEF m, d
  <1>9. Reaches(c, p, m - n, d, L, p.scope)
    BY <1>3, <1>5, <1>7, <1>8, EmitsCall
  <1> HIDE DEF c
  <1>10. Reaches(e, p, 1, p.depth + 1, L, p.scope)
    BY <1>7, <1>8, <1>9, SetsDepth DEF e
  <1>11. Sound(e, Front(contexts), "operator")
    BY <1>3, <1>10, Leaves DEF p
  <1>12. QED
    BY <1>1, <1>11 DEF SoundNext

LEMMA StepBeginMap ==
  ASSUME NEW g, Stands(g), BeginMap PROVE SoundNext
  <1> DEFINE p == Last(g)
             L == compiler.locals
             e == compiler ++ Op("Constant")
             x == [of |-> "map", fields |-> 1, base |-> compiler.depth]
  <1>1. /\ Operand /\ compiler' = e /\ expects' = "operand"
        /\ contexts' = Append(contexts, x)
    BY DEF BeginMap, Goes, Enter
  <1>2. /\ Linked(contexts, g, L) /\ L \in Seq(Locals) /\ Len(L) = p.count
        /\ p \in Positions /\ p.depth \in Nat /\ compiler.depth = p.depth
        /\ Reaches(compiler, p, 0, p.depth, L, p.scope)
        /\ p.scope \in Nat /\ p.scope <= p.scope
    BY <1>1, AtPosition
  <1> HIDE DEF L
  <1>3. Reaches(e, p, 0 + 1, p.depth + 1, L, p.scope)
    BY <1>2, EmitsPush
  <1> HIDE DEF e
  <1>4. Reaches(e, p, 1, p.depth + 1, L, p.scope)
    BY <1>3
  <1> DEFINE q == Atop(p, 1, p.scope, e.stacks)
  <1>5. q.depth = p.depth + 2 * 1 - 1 /\ q.scope = p.scope /\ q.count = p.count
    <2>1. p.depth + 2 * 1 - 1 = p.depth + 1
      BY <1>2
    <2>2. QED
      BY <2>1, AtopFields
  <1> HIDE DEF q
  <1>6. x = [of |-> "map", fields |-> 1, base |-> p.depth] /\ x.of = "map" /\ x.fields = 1
    BY <1>2
  <1> HIDE DEF x
  <1>7. BeganOther(x, p, q, L)
    BY <1>5, <1>6 DEF BeganOther
  <1>8. Began(x, p, q, L)
    BY <1>5, <1>7 DEF Began
  <1>9. Sound(e, Append(contexts, x), "operand")
    BY <1>2, <1>4, <1>6, <1>8, Begins DEF q
  <1>10. QED
    BY <1>1, <1>9 DEF SoundNext

LEMMA StepNextField ==
  ASSUME NEW g, Stands(g), NextField PROVE SoundNext
  <1> DEFINE p == Before(g, Len(g))
             q == Last(g)
             L == compiler.locals
             k == Top.fields
             e == compiler ++ Op("Constant")
             x == [Top EXCEPT !.fields = @ + 1]
  <1>1. /\ Ended /\ Top.of = "map" /\ compiler' = e /\ expects' = "operand"
        /\ contexts' = Append(Front(contexts), x)
    BY DEF NextField, In, Goes, Become
  <1>2. Top.of \notin Lists \cup {"match"}
    BY <1>1 DEF Lists
  <1>3. /\ Linked(contexts, g, L) /\ L \in Seq(Locals) /\ Len(g) # 1 /\ Len(L) = p.count
        /\ p \in Positions /\ BeganOther(Top, p, q, L) /\ p.depth \in Nat
        /\ Reaches(compiler, p, q.depth - p.depth + 1, q.depth + 1, L, p.scope)
        /\ Last(contexts) = Top
    BY <1>1, <1>2, AtInner
  <1> HIDE DEF L, p
  <1>a. Top = [of |-> "map", fields |-> k, base |-> p.depth]
    BY <1>1, <1>3, KindMap
  <1>4. k \in Nat \ {0} /\ q.depth = p.depth + 2 * k - 1
    BY <1>1, <1>3, KindMap
  <1> DEFINE n == 2 * k
             m == 2 * k + 1
  <1>5. /\ q.depth - p.depth + 1 = n /\ q.depth + 1 = p.depth + n /\ n \in Nat
        /\ n + 1 = m /\ p.depth + n + 1 = p.depth + m /\ m \in Nat
        /\ p.depth + m = p.depth + 2 * (k + 1) - 1 /\ k + 1 \in Nat \ {0}
    <2> HIDE DEF k
    <2>1. QED
      BY <1>3, <1>4
  <1>6. x = [of |-> "map", fields |-> k + 1, base |-> p.depth]
    <2> HIDE DEF k, n, m
    <2>1. QED
      BY <1>a DEF k
  <1> HIDE DEF n, m
  <1>7. Reaches(compiler, p, n, p.depth + n, L, p.scope)
    BY <1>3, <1>5
  <1>8. Reaches(e, p, n + 1, p.depth + n + 1, L, p.scope)
    BY <1>3, <1>5, <1>7, EmitsPush
  <1> HIDE DEF e
  <1>9. Reaches(e, p, m, p.depth + m, L, p.scope)
    BY <1>5, <1>8
  <1> DEFINE r == Atop(p, m, p.scope, e.stacks)
  <1>10. r.depth = p.depth + 2 * (k + 1) - 1 /\ r.scope = p.scope /\ r.count = p.count
    BY <1>5, AtopFields
  <1> HIDE DEF r, x, k
  <1>11. x.fields = k + 1 /\ k + 1 \in Nat \ {0} /\ x.of = "map"
    BY <1>5, <1>6
  <1>12. BeganOther(x, p, r, L)
    BY <1>6, <1>10, <1>11 DEF BeganOther
  <1>13. Began(x, p, r, L)
    BY <1>10, <1>12 DEF Began
  <1>14. Sound(e, Append(Front(contexts), x), "operand")
    BY <1>1, <1>3, <1>5, <1>9, <1>11, <1>13, GoesOn DEF p, r
  <1>15. QED
    BY <1>1, <1>14 DEF SoundNext

LEMMA StepEndMap ==
  ASSUME NEW g, Stands(g), EndMap PROVE SoundNext
  <1> DEFINE p == Before(g, Len(g))
             q == Last(g)
             L == compiler.locals
             k == Top.fields
             c == compiler ++ OpArg("MakeMap", k)
             e == SetDepth(c, Top.base + 1)
  <1>1. /\ Ended /\ Top.of = "map" /\ compiler' = e /\ expects' = "operator"
        /\ contexts' = Front(contexts)
    BY DEF EndMap, In, Goes, MakeMap, Leave
  <1>2. Top.of \notin Lists \cup {"match"}
    BY <1>1 DEF Lists
  <1>3. /\ Linked(contexts, g, L) /\ L \in Seq(Locals) /\ Len(g) # 1 /\ Len(L) = p.count
        /\ p \in Positions /\ BeganOther(Top, p, q, L) /\ p.depth \in Nat
        /\ Reaches(compiler, p, q.depth - p.depth + 1, q.depth + 1, L, p.scope)
    BY <1>1, <1>2, AtInner
  <1> HIDE DEF L, p, e
  <1>4. /\ Top.base = p.depth
        /\ k \in Nat \ {0} /\ q.depth = p.depth + 2 * k - 1
    BY <1>1, <1>3, KindMap
  <1> HIDE DEF k
  <1> DEFINE n == 2 * k
             d == q.depth + 1
  <1>5. /\ q.depth - p.depth + 1 = n /\ n \in Nat /\ 2 * k <= n
        /\ n - 2 * k + 1 = 1 /\ p.depth + 1 \in Int /\ k \in Nat
    BY <1>3, <1>4
  <1> HIDE DEF n, d
  <1>6. Reaches(compiler, p, n, d, L, p.scope)
    BY <1>3, <1>5 DEF d
  <1>7. Reaches(c, p, n - 2 * k + 1, d, L, p.scope)
    BY <1>3, <1>5, <1>6, EmitsMakeMap
  <1> HIDE DEF c
  <1>8. Reaches(e, p, 1, p.depth + 1, L, p.scope)
    BY <1>4, <1>5, <1>7, SetsDepth DEF e
  <1>9. Sound(e, Front(contexts), "operator")
    BY <1>3, <1>8, Leaves DEF p
  <1>10. QED
    BY <1>1, <1>9 DEF SoundNext
-----------------------------------------------------------------------------
(* Lists of expressions *)

LEMMA AtList ==
  ASSUME NEW cs, NEW g, NEW L, Linked(cs, g, L), Last(cs).of \in Lists
  PROVE  BeganList(Last(cs), Before(g, Len(g)), Last(g), L)
  <1>1. Began(Last(cs), Before(g, Len(g)), Last(g), L)
    BY LinkedFacts
  <1>2. QED
    BY <1>1, Kind

LEMMA WithBegun ==
  \A y, of, a, b : y = [of |-> of, begun |-> a] =>
                     [y EXCEPT !.begun = b] = [of |-> of, begun |-> b] /\ y.of = of
  OBVIOUS

LEMMA StepNextItem ==
  ASSUME NEW g, Stands(g), NextItem PROVE SoundNext
  <1> DEFINE p == Before(g, Len(g))
             q == Last(g)
             L == compiler.locals
             e == compiler ++ Op("Pop")
             x == [Top EXCEPT !.begun = TRUE]
             r == Atop(q, 0, q.scope, e.stacks)
  <1>1. /\ Ended /\ Top.of \in Lists /\ compiler' = e /\ expects' = "operand"
        /\ contexts' = Append(Front(contexts), x)
    BY DEF NextItem, Goes, Become
  <1>2. /\ Linked(contexts, g, L) /\ L \in Seq(Locals) /\ Len(L) = q.count
        /\ Reaches(compiler, q, 1, q.depth + 1, L, q.scope)
        /\ q \in Positions /\ Holds(q, L)
        /\ q.depth \in Nat /\ q.count \in Nat /\ q.scope \in Nat
        /\ Last(contexts) = Top
    BY <1>1, AtPosition
  <1>3. BeganList(Top, p, q, L)
    BY <1>1, <1>2, AtList
  <1>4. Len(g) # 1 => /\ p = g[Len(g) - 1] /\ Extends(p, q) /\ p \in Positions
    <2>1. /\ Len(g) \in Nat \ {0} /\ \A k \in 1 .. Len(g) : g[k] \in Positions
          /\ Len(g) # 1 => /\ Before(g, Len(g)) = g[Len(g) - 1]
                           /\ Len(g) - 1 \in 1 .. Len(g)
                           /\ Extends(g[Len(g) - 1], Last(g))
      BY <1>2, LinkedFacts
    <2>2. QED
      BY <2>1
  <1>5. Reaches(e, q, 0, q.depth, L, q.scope)
    <2>1. 1 \in Nat \ {0} /\ 1 - 1 = 0 /\ q.depth + 1 - 1 = q.depth
      BY <1>2
    <2>2. Reaches(e, q, 1 - 1, q.depth + 1 - 1, L, q.scope)
      BY <1>2, <2>1, EmitsPop
    <2>3. QED
      BY <2>1, <2>2
  <1> HIDE DEF e
  <1>6. /\ r \in Positions /\ Holds(r, L) /\ Extends(q, r)
        /\ r.depth = q.depth + 0 /\ r.count = q.count /\ r.scope = q.scope
        /\ r.from = e.stacks /\ Reaches(e, r, 0, q.depth, L, q.scope)
    <2>1. q.scope <= q.scope
      BY <1>2
    <2> HIDE DEF q, L
    <2>2. QED
      BY <1>2, <1>5, <2>1, AtopFacts
  <1> HIDE DEF r, p
  <1>7. r.depth = q.depth /\ Reaches(e, r, 0, r.depth, L, r.scope)
    BY <1>2, <1>6
  <1>8. Len(g) # 1 => Extends(p, r)
    BY <1>2, <1>4, <1>6, ExtendsFurther
  <1>9. x = [of |-> Top.of, begun |-> TRUE] /\ x.of = Top.of
    <2> DEFINE y == Top
    <2>1. \E of \in Lists, begun \in BOOLEAN : y = [of |-> of, begun |-> begun]
      BY <1>3 DEF BeganList
    <2> HIDE DEF y
    <2>2. PICK of \in Lists : \E b : y = [of |-> of, begun |-> b]
      BY <2>1
    <2> DEFINE b == TRUE
    <2> HIDE DEF b
    <2>3. [y EXCEPT !.begun = b] = [of |-> of, begun |-> b] /\ y.of = of
      BY <2>2, WithBegun
    <2>4. QED
      BY <2>3, Zenon DEF y, b
  <1> HIDE DEF x
  <1>10. BeganList(x, p, r, L)
    <2>1. \E of \in Lists, begun \in BOOLEAN : x = [of |-> of, begun |-> begun]
      BY <1>1, <1>9
    <2>2. QED
      BY <1>3, <1>6, <1>7, <1>9, <2>1 DEF BeganList
  <1>11. Began(x, Before(g, Len(g)), r, L)
    BY <1>10 DEF Began, p
  <1>12. Sound(e, Append(Front(contexts), x), "operand")
    <2>1. Len(g) # 1 => Extends(g[Len(g) - 1], r)
      BY <1>4, <1>8
    <2>2. x.of = Last(contexts).of /\ Len(L) = r.count
      BY <1>2, <1>6, <1>9
    <2> HIDE DEF L, q
    <2>3. QED
      BY <1>2, <1>6, <1>7, <1>11, <2>1, <2>2, Becomes
  <1>13. QED
    BY <1>1, <1>12 DEF SoundNext

(* A list of expressions that begins in a scope of its own *)
LEMMA ListBegins ==
  ASSUME NEW p \in Positions, NEW L, NEW T, NEW of \in {"block", "body"}
  PROVE  Began([of |-> of, begun |-> FALSE], p, Atop(p, 0, p.scope + 1, T), L)
  <1> DEFINE x == [of |-> of, begun |-> FALSE]
             q == Atop(p, 0, p.scope + 1, T)
  <1>1. p.depth \in Nat /\ p.count \in Nat
    BY DEF Positions
  <1>2. q.depth = p.depth /\ q.count = p.count /\ q.scope = p.scope + 1
    <2>1. p.depth + 0 = p.depth
      BY <1>1
    <2>2. QED
      BY <2>1, AtopFields
  <1>3. /\ \E y \in Lists, begun \in BOOLEAN : x = [of |-> y, begun |-> begun]
        /\ x.of # "function"
    BY DEF Lists
  <1>4. q.depth - p.depth = q.count - p.count /\ p.count + 1 .. q.count = {}
    BY <1>1, <1>2
  <1> HIDE DEF x, q
  <1>5. BeganList(x, p, q, L)
    BY <1>2, <1>3, <1>4 DEF BeganList
  <1>6. QED
    BY <1>5 DEF Began, x, q

LEMMA StepBeginBlock ==
  ASSUME NEW g, Stands(g), BeginBlock PROVE SoundNext
  <1> DEFINE p == Last(g)
             L == compiler.locals
             e == BeginScope(compiler)
             x == [of |-> "block", begun |-> FALSE]
             z == p.scope + 1
  <1>1. /\ Operand /\ compiler' = e /\ expects' = "operand"
        /\ contexts' = Append(contexts, x)
    BY DEF BeginBlock, Enter, Operand
  <1>2. /\ Linked(contexts, g, L) /\ L \in Seq(Locals) /\ Len(L) = p.count
        /\ p \in Positions /\ Reaches(compiler, p, 0, p.depth, L, p.scope)
        /\ p.depth \in Nat /\ p.scope \in Nat
    BY <1>1, AtPosition
  <1>3. z \in Nat /\ p.scope <= z /\ p.depth + 0 = p.depth
    BY <1>2
  <1>4. Reaches(e, p, 0, p.depth + 0, L, z)
    <2> HIDE DEF L
    <2>1. Reaches(e, p, 0, p.depth, L, p.scope + 1)
      BY <1>2, EntersScope
    <2>2. QED
      BY <1>3, <2>1
  <1>5. Began(x, p, Atop(p, 0, z, e.stacks), L)
    BY <1>2, ListBegins
  <1>6. x.of = "block"
    OBVIOUS
  <1> HIDE DEF L, e, x, z
  <1>7. Sound(e, Append(contexts, x), "operand")
    BY <1>2, <1>3, <1>4, <1>5, <1>6, Begins
  <1>8. QED
    BY <1>1, <1>7 DEF SoundNext

(* Whatever comes before the closing brace, one value is left. *)
LEMMA Closes ==
  ASSUME NEW g, Stands(g), NEW c \in Closing
  PROVE  Reaches(c, Last(g), 1, Last(g).depth + 1, compiler.locals, Last(g).scope)
  <1> DEFINE p == Last(g)
             L == compiler.locals
             z == p.scope
  <1>1. /\ p \in Positions /\ p.depth \in Nat
        /\ Operand => Reaches(compiler, p, 0, p.depth, L, z)
        /\ Ended => Reaches(compiler, p, 1, p.depth + 1, L, z)
    BY AtPosition
  <1>2. \/ Operand /\ c = compiler ++ Op("Nil")
        \/ Ended /\ c = compiler
        \/ Ended /\ c = compiler ++ Op("Pop") ++ Op("Nil")
    BY DEF Closing, Ended, Operand
  <1>3. /\ 0 + 1 = 1 /\ 1 - 1 = 0 /\ 1 \in Nat \ {0}
        /\ p.depth + 1 - 1 = p.depth
    BY <1>1
  <1> HIDE DEF p, L, z
  <1>4. ASSUME NEW d, Reaches(d, p, 0, p.depth, L, z)
        PROVE  Reaches(d ++ Op("Nil"), p, 1, p.depth + 1, L, z)
    <2>1. Reaches(d ++ Op("Nil"), p, 0 + 1, p.depth + 1, L, z)
      BY <1>1, <1>4, EmitsPush
    <2>2. QED
      BY <1>3, <2>1
  <1>5. CASE Operand /\ c = compiler ++ Op("Nil")
    BY <1>1, <1>4, <1>5 DEF p, L, z
  <1>6. CASE Ended /\ c = compiler ++ Op("Pop") ++ Op("Nil")
    <2> DEFINE d == compiler ++ Op("Pop")
    <2>1. Reaches(d, p, 1 - 1, p.depth + 1 - 1, L, z)
      BY <1>1, <1>3, <1>6, EmitsPop
    <2> HIDE DEF d
    <2>2. Reaches(d, p, 0, p.depth, L, z)
      BY <1>3, <2>1
    <2>3. Reaches(d ++ Op("Nil"), p, 1, p.depth + 1, L, z)
      BY <1>4, <2>2
    <2>4. QED
      BY <1>6, <2>3 DEF d, p, L, z
  <1>7. QED
    BY <1>1, <1>2, <1>5, <1>6 DEF p, L, z

LEMMA StepEndBlock ==
  ASSUME NEW g, Stands(g), EndBlock PROVE SoundNext
  <1> DEFINE p == Before(g, Len(g))
             q == Last(g)
             L == compiler.locals
             M == SubSeq(L, 1, p.count)
  <1>1. PICK c \in Closing : /\ compiler' = EndScope(c) /\ expects' = "operator"
                             /\ contexts' = Front(contexts)
    BY DEF EndBlock, Goes, Leave
  <1>2. Top.of \in Lists /\ Top.of # "function"
    BY DEF EndBlock, Lists
  <1>3. /\ Linked(contexts, g, L) /\ L \in Seq(Locals) /\ Len(L) = q.count
        /\ Last(contexts) = Top
    BY AtPosition
  <1>4. /\ Len(g) # 1 /\ p \in Positions /\ Holds(p, L) /\ Extends(p, q)
        /\ p = g[Len(g) - 1] /\ q \in Positions /\ p.count \in Nat
    BY <1>2, <1>3, Inside
  <1>5. BeganList(Top, p, q, L)
    BY <1>2, <1>3, AtList
  <1>6. Reaches(c, q, 1, q.depth + 1, L, q.scope)
    BY Closes
  <1>7. /\ Linked(Front(contexts), Front(g), L) /\ Last(Front(g)) = p
    BY <1>3, <1>4, Left
  <1> HIDE DEF p, q, L
  <1>8. /\ q.scope = p.scope + 1 /\ q.depth - p.depth = q.count - p.count
        /\ \A i \in p.count + 1 .. q.count : L[i].depth = q.scope
    BY <1>2, <1>5 DEF BeganList
  <1>9. /\ Reaches(EndScope(c), p, 1, p.depth + 1, M, p.scope)
        /\ M \in Seq(Locals) /\ Len(M) = p.count /\ \A i \in 1 .. p.count : M[i] = L[i]
    BY <1>3, <1>4, <1>6, <1>8, LeavesScope
  <1> HIDE DEF M
  <1>10. Linked(Front(contexts), Front(g), M)
    <2>1. p.count <= Len(M)
      BY <1>4, <1>9
    <2>2. QED
      BY <1>7, <1>9, <2>1, Redeclared
  <1>11. Sound(EndScope(c), Front(contexts), "operator")
    BY <1>7, <1>9, <1>10, Yields
  <1>12. QED
    BY <1>1, <1>11 DEF SoundNext

LEMMA BeganMore ==
  ASSUME NEW x, NEW p, NEW q, NEW r, NEW M, BeganList(x, p, q, M),
         p.depth \in Nat, p.count \in Nat, q.depth \in Nat, q.count \in Nat,
         r.depth = q.depth + 1, r.count = q.count + 1, r.scope = q.scope,
         M[q.count + 1].depth = q.scope
  PROVE  BeganList(x, p, r, M)
  <1>1. r.depth - p.depth = r.count - p.count
    <2>1. q.depth - p.depth = q.count - p.count
      BY DEF BeganList
    <2>2. QED
      BY <2>1
  <1>2. \A i \in p.count + 1 .. r.count : M[i].depth = r.scope
    <2>1. \A i \in p.count + 1 .. q.count : M[i].depth = q.scope
      BY DEF BeganList
    <2>2. \A i \in p.count + 1 .. r.count : i \in p.count + 1 .. q.count \/ i = q.count + 1
      OBVIOUS
    <2>3. QED
      BY <2>1, <2>2
  <1>3. /\ \E of \in Lists, begun \in BOOLEAN : x = [of |-> of, begun |-> begun]
        /\ r.scope = IF x.of = "function" THEN p.scope ELSE p.scope + 1
    BY DEF BeganList
  <1>4. QED
    BY <1>1, <1>2, <1>3 DEF BeganList

(* A list of expressions goes on with one more local. *)
LEMMA Lengthened ==
  ASSUME NEW cs, NEW g, NEW L, Linked(cs, g, L), Last(cs).of \in Lists,
         NEW M, NEW r \in Positions, Holds(r, M), Extends(Last(g), r),
         r.depth = Last(g).depth + 1, r.count = Last(g).count + 1,
         r.scope = Last(g).scope, Len(M) = Last(g).count + 1,
         \A i \in 1 .. Last(g).count : M[i] = L[i],
         M[Last(g).count + 1].depth = Last(g).scope
  PROVE  Linked(cs, Append(Front(g), r), M) /\ Last(Append(Front(g), r)) = r
  <1> DEFINE p == Before(g, Len(g))
             q == Last(g)
             x == Last(cs)
             h == Append(Front(g), r)
  <1>1. /\ q \in Positions /\ IsSequence(cs) /\ IsSequence(g) /\ Len(g) \in Nat \ {0}
        /\ Len(cs) = Len(g)
        /\ \A k \in 1 .. Len(g) : g[k] \in Positions
        /\ Len(g) # 1 => /\ Len(g) - 1 \in 1 .. Len(g) /\ Extends(g[Len(g) - 1], q)
    BY LinkedFacts
  <1>2. q.depth \in Nat /\ q.count \in Nat /\ q.scope \in Nat
    BY <1>1 DEF Positions
  <1>3. Linked(cs, g, M)
    <2>1. Last(g).count <= Len(M)
      BY <1>2
    <2>2. QED
      BY <2>1, Redeclared
  <1>4. BeganList(x, p, q, M)
    BY <1>3, AtList
  <1>p. p.depth \in Nat /\ p.count \in Nat
    <2>1. Len(g) # 1 => Before(g, Len(g)) = g[Len(g) - 1]
      BY <1>3, LinkedFacts
    <2>2. CASE Len(g) = 1
      BY <2>2 DEF Before, FunctionStart
    <2>3. CASE Len(g) # 1
      <3>1. p \in Positions
        BY <1>1, <2>1, <2>3
      <3>2. QED
        BY <3>1 DEF Positions
    <2>4. QED
      BY <2>2, <2>3
  <1> HIDE DEF p, x
  <1>5. BeganList(x, p, r, M)
    BY <1>2, <1>4, <1>p, BeganMore
  <1>6. Began(x, Before(g, Len(g)), r, M)
    BY <1>5 DEF Began, p
  <1>7. Len(g) # 1 => Extends(g[Len(g) - 1], r)
    BY <1>1, ExtendsFurther
  <1>8. Linked(Append(Front(cs), x), h, M)
    <2>1. x.of = Last(cs).of
      BY DEF x
    <2>2. QED
      BY <1>3, <1>6, <1>7, <2>1, Became
  <1>9. Append(Front(cs), x) = cs
    BY <1>1, Rejoined DEF x
  <1>10. Last(h) = r
    <2>1. IsSequence(Front(g))
      BY <1>1, FrontOf
    <2>2. QED
      BY <2>1, Appended DEF Last
  <1>11. QED
    BY <1>8, <1>9, <1>10

LEMMA StepEndDeclaration ==
  ASSUME NEW g, Stands(g), ~Scattered, EndDeclaration PROVE SoundNext
  <1> DEFINE p == Before(g, Len(g))
             q == Last(g)
             L == compiler.locals
             name == Top.name
             mutable == Top.mutable
             c == DeclareAtSlot(compiler, name, p.depth, mutable)
             e == c ++ Op("Nil")
             ds == Front(contexts)
  <1>1. /\ Ended /\ Top.of = "declaration" /\ expects' = "end"
        /\ compiler' = DeclareAtSlot(compiler, name, compiler.depth - 1, mutable) ++ Op("Nil")
        /\ contexts' = ds
    BY DEF EndDeclaration, In, Goes, Leave, DeclareLocal
  <1>2. Top.of \notin Lists \cup {"match"}
    BY <1>1 DEF Lists
  <1>3. /\ Linked(contexts, g, L) /\ L \in Seq(Locals) /\ Len(g) # 1 /\ Len(L) = p.count
        /\ p \in Positions /\ BeganOther(Top, p, q, L) /\ p.depth \in Nat /\ Holds(p, L)
        /\ Last(contexts) = Top /\ compiler.depth = q.depth + 1
        /\ Reaches(compiler, p, q.depth - p.depth + 1, q.depth + 1, L, p.scope)
    BY <1>1, <1>2, AtInner
  <1>4. Top.name \in Names /\ Top.mutable \in BOOLEAN /\ q.depth = p.depth
    BY <1>1, <1>3, KindSimple
  <1>5. /\ Linked(ds, Front(g), L) /\ Last(Front(g)) = p /\ Last(ds).of \in Lists
    <2>1. /\ Linked(Front(contexts), Front(g), L) /\ Last(Front(g)) = g[Len(g) - 1]
          /\ Last(Front(contexts)) = contexts[Len(g) - 1]
      BY <1>3, Left
    <2>2. /\ Before(g, Len(g)) = g[Len(g) - 1]
          /\ Last(contexts).of = "declaration" => contexts[Len(g) - 1].of \in Lists
      BY <1>3, LinkedFacts
    <2>3. QED
      BY <1>1, <1>3, <2>1, <2>2
  <1> HIDE DEF p, L, ds
  <1>6. Reaches(compiler, p, 1, p.depth + 1, L, p.scope) /\ compiler.depth - 1 = p.depth
    <2>1. q.depth - p.depth + 1 = 1 /\ q.depth + 1 - 1 = p.depth
      BY <1>3, <1>4
    <2>2. QED
      BY <1>3, <1>4, <2>1
  <1>7. compiler' = e
    BY <1>1, <1>6
  <1> HIDE DEF e
  <1>b. PICK M \in Seq(Locals), r \in Positions : Binds(c, p, p.depth + 1, L, r, M)
    <2> HIDE DEF c, name, mutable
    <2>1. name \in Names /\ mutable \in BOOLEAN
      BY <1>4 DEF name, mutable
    <2>2. QED
      BY <1>3, <1>6, <2>1, Declares DEF c
  <1>8. /\ Reaches(c, r, 0, p.depth + 1, M, p.scope)
        /\ Holds(r, M) /\ Extends(p, r)
        /\ r.depth = p.depth + 1 /\ r.count = p.count + 1 /\ r.scope = p.scope
        /\ Len(M) = p.count + 1 /\ \A i \in 1 .. p.count : M[i] = L[i]
        /\ M[p.count + 1].depth = p.scope
    BY <1>b DEF Binds
  <1> HIDE DEF c
  <1> DEFINE h == Append(Front(Front(g)), r)
  <1>9. Linked(ds, h, M) /\ Last(h) = r
    BY <1>5, <1>8, Lengthened
  <1>10. Reaches(e, r, 1, r.depth + 1, M, r.scope)
    <2>1. Reaches(c, r, 0, r.depth, M, r.scope)
      BY <1>8
    <2>2. Reaches(e, r, 0 + 1, r.depth + 1, M, r.scope)
      BY <2>1, EmitsPush DEF e
    <2>3. 0 + 1 = 1
      OBVIOUS
    <2>4. QED
      BY <2>2, <2>3
  <1> HIDE DEF h
  <1>11. Sound(e, ds, "end")
    BY <1>8, <1>9, <1>10, Yields
  <1>12. QED
    BY <1>1, <1>7, <1>11 DEF SoundNext

LEMMA StepDeclareParam ==
  ASSUME NEW g, Stands(g), NEW name \in Names, DeclareParam(name) PROVE SoundNext
  <1> DEFINE q == Last(g)
             L == compiler.locals
             b == compiler ++ Op("Nil")
             e == DeclareAtSlot(b, name, q.depth, TRUE)
  <1>1. /\ Operand /\ Len(contexts) = 1 /\ expects' = "operand" /\ contexts' = contexts
        /\ compiler' = DeclareAtSlot(b, name, b.depth - 1, TRUE)
    BY DEF DeclareParam, DeclareLocal, Operand
  <1>2. /\ Linked(contexts, g, L) /\ L \in Seq(Locals) /\ Len(L) = q.count
        /\ q \in Positions /\ Reaches(compiler, q, 0, q.depth, L, q.scope)
        /\ q.depth \in Nat /\ Holds(q, L)
    BY <1>1, AtPosition
  <1>3. Last(contexts).of \in Lists
    <2>1. Last(contexts).of = "function"
      BY <1>1, <1>2, LinkedFacts
    <2>2. QED
      BY <2>1 DEF Lists
  <1>4. Reaches(b, q, 1, q.depth + 1, L, q.scope)
    <2> HIDE DEF L
    <2>1. Reaches(b, q, 0 + 1, q.depth + 1, L, q.scope)
      BY <1>2, EmitsPush
    <2>2. 0 + 1 = 1
      OBVIOUS
    <2> HIDE DEF b
    <2>3. QED
      BY <2>1, <2>2
  <1>5. compiler' = e
    <2>1. b.depth = q.depth + 1
      BY <1>2, <1>4, ReachesFacts
    <2>2. b.depth - 1 = q.depth
      BY <1>2, <2>1
    <2>3. QED
      BY <1>1, <2>2
  <1> HIDE DEF b, L
  <1>b. PICK M \in Seq(Locals), r \in Positions : Binds(e, q, q.depth + 1, L, r, M)
    <2> HIDE DEF q
    <2>1. \A m \in BOOLEAN : \E M \in Seq(Locals), r \in Positions :
             Binds(DeclareAtSlot(b, name, q.depth, m), q, q.depth + 1, L, r, M)
      BY <1>2, <1>4, Declares
    <2>2. QED
      BY <2>1, Zenon
  <1>6. /\ Reaches(e, r, 0, q.depth + 1, M, q.scope) /\ r.from = e.stacks
        /\ Holds(r, M) /\ Extends(q, r)
        /\ r.depth = q.depth + 1 /\ r.count = q.count + 1 /\ r.scope = q.scope
        /\ Len(M) = q.count + 1 /\ \A i \in 1 .. q.count : M[i] = L[i]
        /\ M[q.count + 1].depth = q.scope
    BY <1>b DEF Binds
  <1> HIDE DEF e
  <1> DEFINE h == Append(Front(g), r)
  <1>c. Last(g) = q
    OBVIOUS
  <1>7. Linked(contexts, h, M) /\ Last(h) = r
    <2> HIDE DEF q
    <2>1. QED
      BY <1>2, <1>3, <1>6, <1>c, Lengthened
  <1> HIDE DEF h
  <1>8. Reaches(e, r, 0, r.depth, M, r.scope) /\ Len(M) = r.count
    BY <1>6
  <1>9. Sound(e, contexts, "operand")
    BY <1>6, <1>7, <1>8, Starts
  <1>10. QED
    BY <1>1, <1>5, <1>9 DEF SoundNext

LEMMA StartOfFunction ==
  /\ FunctionStart \in Positions /\ Holds(FunctionStart, <<>>)
  /\ Extends(FunctionStart, FunctionStart)
  /\ NoCode = Code(1, {<<0>>}, <<>>, 1)
  <1> DEFINE p == FunctionStart
  <1>1. /\ p.depth = 1 /\ p.count = 0 /\ p.scope = 1 /\ p.from = {<<0>>}
        /\ NoCode = Code(1, {<<0>>}, <<>>, 1)
    BY DEF FunctionStart, Temporary, NoCode, Code
  <1>2. <<0>> \in Seq(Nat) /\ Len(<<0>>) = 1
    OBVIOUS
  <1>3. p \in Positions
    BY <1>2 DEF FunctionStart, Positions, Temporary
  <1>4. SubSeq(<<0>>, 1, 1) = <<0>>
    <2> DEFINE s == <<0>>
    <2>1. s \in Seq(Nat) /\ Len(s) = 1
      OBVIOUS
    <2> HIDE DEF s
    <2>2. SubSeq(s, 1, 1) = s
      BY <2>1
    <2>3. QED
      BY <2>2 DEF s
  <1> HIDE DEF p
  <1>5. Over(p.from, p, 0)
    <2> SUFFICES ASSUME NEW s \in p.from
                 PROVE  s \in Seq(Nat) /\ Len(s) = p.depth + 0
                        /\ SubSeq(s, 1, p.depth) \in p.from
      BY DEF Over
    <2>1. s = <<0>>
      BY <1>1
    <2>2. SubSeq(s, 1, p.depth) = s
      BY <1>1, <1>4, <2>1
    <2>3. s \in Seq(Nat) /\ Len(s) = 1
      BY <1>2, <2>1
    <2>4. SubSeq(s, 1, p.depth) \in p.from
      BY <2>2
    <2>5. Len(s) = p.depth + 0
      <3>1. p.depth + 0 = 1
        BY <1>1
      <3>2. QED
        BY <2>3, <3>1
    <2>6. QED
      BY <2>3, <2>4, <2>5
  <1>6. Holds(p, <<>>)
    <2>1. p.count <= Len(<<>>) /\ 1 .. p.count = {}
      BY <1>1
    <2>2. QED
      BY <1>5, <2>1 DEF Holds
  <1>7. Extends(p, p)
    BY <1>3, <1>6, ExtendsSelf
  <1>8. QED
    BY <1>1, <1>3, <1>6, <1>7 DEF p

(* initCompiler: nothing but a function body has begun. *)
LEMMA Alone ==
  ASSUME NEW cs, IsSequence(cs), Len(cs) = 1, NEW begun,
         begun \in BOOLEAN, cs[1] = [of |-> "function", begun |-> begun]
  PROVE  Sound(NoCode, cs, "operand")
  <1> DEFINE p == FunctionStart
             g == <<p>>
             x == cs[1]
  <1>1. /\ p \in Positions /\ Holds(p, <<>>) /\ Extends(p, p)
        /\ NoCode = Code(1, {<<0>>}, <<>>, 1)
    BY StartOfFunction
  <1>2. p.depth = 1 /\ p.count = 0 /\ p.scope = 1 /\ p.from = {<<0>>}
    BY DEF FunctionStart, Temporary
  <1>3. Before(g, 1) = p
    BY DEF Before
  <1>4. x.of = "function" /\ \E of \in Lists, b \in BOOLEAN : x = [of |-> of, begun |-> b]
    <2>1. "function" \in Lists
      BY DEF Lists
    <2>2. x = [of |-> "function", begun |-> begun]
      OBVIOUS
    <2> HIDE DEF x
    <2>3. x.of = "function"
      BY <2>2
    <2>4. \E of \in Lists, b \in BOOLEAN : x = [of |-> of, begun |-> b]
      BY <2>1, <2>2, Zenon
    <2>5. QED
      BY <2>3, <2>4
  <1> HIDE DEF p, x
  <1>5. g \in Seq(Positions) /\ Len(g) = 1 /\ g[1] = p
    BY <1>1
  <1> HIDE DEF g
  <1>6. BeganList(x, p, p, <<>>)
    <2>1. p.depth - p.depth = p.count - p.count /\ p.count + 1 .. p.count = {}
      BY <1>2
    <2>2. QED
      BY <1>4, <2>1 DEF BeganList
  <1>7. Linked(cs, g, <<>>)
    <2>1. \A k \in 1 .. Len(g) : k = 1
      BY <1>5
    <2>2. x = cs[1]
      BY DEF x
    <2>3. Began(x, Before(g, 1), g[1], <<>>)
      BY <1>3, <1>5, <1>6 DEF Began
    <2>4. \A k \in 1 .. Len(g) : /\ Holds(g[k], <<>>)
                                 /\ Began(cs[k], Before(g, k), g[k], <<>>)
      BY <1>1, <1>5, <2>1, <2>2, <2>3
    <2>5. \A j, k \in 1 .. Len(g) : j <= k => Extends(g[j], g[k])
      BY <1>1, <1>5, <2>1
    <2>6. \A k \in 1 .. Len(g) :
            /\ cs[k].of = "function" <=> k = 1
            /\ cs[k].of = "declaration" => cs[k - 1].of \in Lists
      BY <1>4, <2>1, <2>2
    <2>7. QED
      BY <1>5, <2>4, <2>5, <2>6 DEF Linked
  <1>8. /\ NoCode.depth = 1 /\ NoCode.stacks = {<<0>>} /\ NoCode.locals = <<>>
    BY <1>1 DEF Code
  <1>9. IsAt(NoCode, p, "operand")
    <2>1. NoCode.stacks \in SUBSET Seq(Nat) /\ <<>> \in Seq(Locals) /\ Len(<<>>) = 0
      BY <1>8
    <2>2. QED
      BY <1>1, <1>2, <1>8, <2>1 DEF IsAt
  <1>10. QED
    BY <1>5, <1>7, <1>8, <1>9 DEF Sound

LEMMA StepFinish ==
  ASSUME NEW g, Stands(g), Finish PROVE SoundNext
  <1> DEFINE L == compiler.locals
             x == [Top EXCEPT !.begun = FALSE]
             cs == Append(Front(contexts), x)
  <1>1. PICK c \in Closing :
          /\ compiler' = [NoCode EXCEPT !.strayed = c.strayed] /\ expects' = "operand"
          /\ contexts' = cs /\ Len(contexts) = 1
    BY DEF Finish, Goes, Become
  <1>2. /\ Linked(contexts, g, L) /\ Last(contexts) = Top /\ Last(g) \in Positions
    BY AtPosition
  <1>3. c.strayed = {}
    <2>1. Reaches(c, Last(g), 1, Last(g).depth + 1, L, Last(g).scope)
      BY Closes
    <2>2. QED
      BY <1>2, <2>1, ReachesFacts
  <1>4. compiler' = NoCode
    BY <1>1, <1>3 DEF NoCode
  <1>5. Top.of = "function" /\ IsSequence(contexts)
    BY <1>1, <1>2, LinkedFacts
  <1>6. BeganList(Top, Before(g, Len(g)), Last(g), L)
    <2>1. Top.of \in Lists
      BY <1>5 DEF Lists
    <2>2. QED
      BY <1>2, <2>1, AtList
  <1>7. x = [of |-> "function", begun |-> FALSE]
    <2> DEFINE y == Top
    <2>1. \E of \in Lists, begun \in BOOLEAN : y = [of |-> of, begun |-> begun]
      BY <1>6 DEF BeganList
    <2>2. y.of = "function"
      BY <1>5
    <2> HIDE DEF y
    <2>3. PICK of \in Lists : \E b : y = [of |-> of, begun |-> b]
      BY <2>1
    <2> DEFINE b == FALSE
    <2> HIDE DEF b
    <2>4. [y EXCEPT !.begun = b] = [of |-> of, begun |-> b] /\ y.of = of
      BY <2>3, WithBegun
    <2>5. QED
      BY <2>2, <2>4, Zenon DEF y, b
  <1> HIDE DEF x
  <1>8. IsSequence(cs) /\ Len(cs) = 1 /\ cs[1] = x
    <2>1. Len(contexts) # 0
      BY <1>1
    <2>2. IsSequence(Front(contexts)) /\ Len(Front(contexts)) = Len(contexts) - 1
      BY <1>5, <2>1, FrontOf
    <2> DEFINE f == Front(contexts)
    <2>3. IsSequence(f) /\ Len(f) = 0
      BY <1>1, <2>2
    <2> HIDE DEF f
    <2>4. IsSequence(Append(f, x)) /\ Len(Append(f, x)) = Len(f) + 1
          /\ Append(f, x)[Len(f) + 1] = x
      BY <2>3, Appended
    <2>5. QED
      BY <2>3, <2>4 DEF f
  <1> HIDE DEF cs
  <1>9. Sound(NoCode, cs, "operand")
    <2> DEFINE b == FALSE
    <2>1. b \in BOOLEAN /\ cs[1] = [of |-> "function", begun |-> b]
      BY <1>7, <1>8
    <2> HIDE DEF b
    <2>2. QED
      BY <1>8, <2>1, Alone
  <1>10. QED
    BY <1>1, <1>4, <1>9 DEF SoundNext
-----------------------------------------------------------------------------
(* Branches *)

LEMMA OpensBlock ==
  ASSUME NEW c, NEW cs, NEW g, NEW L, Linked(cs, g, L), L \in Seq(Locals),
         Last(cs).of # "function", NEW p, p = Before(g, Len(g)), Len(L) = p.count,
         Reaches(c, p, 0, p.depth, L, p.scope),
         NEW x, Began(x, p, Atop(p, 0, p.scope, c.stacks), L), x.of = Last(cs).of
  PROVE  Sound(BeginScope(c), Front(cs) \o <<x, [of |-> "body", begun |-> FALSE]>>, "operand")
  <1> DEFINE q == Atop(p, 0, p.scope, c.stacks)
             h == Append(Front(g), q)
             ds == Append(Front(cs), x)
             y == [of |-> "body", begun |-> FALSE]
             e == BeginScope(c)
             z == p.scope + 1
  <1>1. p \in Positions /\ Holds(p, L) /\ p.depth \in Nat /\ p.scope \in Nat
    BY Inside
  <1>2. p.depth + 0 = p.depth /\ p.scope <= p.scope /\ z \in Nat /\ p.scope <= z
    BY <1>1
  <1>3. Linked(ds, h, L) /\ Last(h) = q
    BY <1>2, GoesOn
  <1>4. /\ q \in Positions /\ q.depth = p.depth + 0 /\ q.count = p.count /\ q.scope = p.scope
        /\ Reaches(c, q, 0, p.depth, L, p.scope)
    BY <1>1, <1>2, AtopFacts
  <1> HIDE DEF q
  <1>5. Reaches(e, q, 0, p.depth, L, z)
    BY <1>1, <1>4, EntersScope
  <1> HIDE DEF e
  <1>6. Reaches(e, q, 0, q.depth + 0, L, z)
    <2>1. q.depth + 0 = p.depth
      BY <1>2, <1>4
    <2>2. QED
      BY <1>5, <2>1
  <1>7. Began(y, q, Atop(q, 0, q.scope + 1, e.stacks), L)
    BY <1>4, ListBegins
  <1>8. y.of = "body" /\ q.scope + 1 = z
    BY <1>4
  <1>9. Front(cs) \o <<x, y>> = Append(ds, y)
    <2>1. IsSequence(cs) /\ Len(cs) # 0
      BY LinkedFacts
    <2>2. IsSequence(Front(cs))
      BY <2>1, FrontOf
    <2> HIDE DEF y
    <2>3. QED
      BY <2>2, TwoAppended
  <1> HIDE DEF ds, h, y, z
  <1>10. Sound(e, Append(ds, y), "operand")
    <2>1. Len(L) = Last(h).count /\ Last(h).scope <= z
      BY <1>2, <1>3, <1>4
    <2>2. Reaches(e, Last(h), 0, Last(h).depth + 0, L, z)
      BY <1>3, <1>6
    <2>3. Began(y, Last(h), Atop(Last(h), 0, z, e.stacks), L)
      BY <1>3, <1>7, <1>8
    <2>4. y.of # "function" /\ y.of # "declaration"
      BY <1>8
    <2>5. QED
      BY <1>2, <1>3, <2>1, <2>2, <2>3, <2>4, Begins
  <1>11. QED
    BY <1>9, <1>10 DEF e, y

(* The context of an `if` or a `while` at its next part *)
AtPart(y, part, jump) == [y EXCEPT !.part = part, !.jump = jump]

LEMMA IfChanged ==
  ASSUME NEW y, NEW d, NEW b, NEW k,
         y = [of |-> "if", part |-> y.part, base |-> d, jump |-> y.jump]
  PROVE  AtPart(y, b, k) = [of |-> "if", part |-> b, base |-> d, jump |-> k]
  <1> DEFINE a == y.part
             j == y.jump
             w == [y EXCEPT !.part = b]
  <1>1. y = [of |-> "if", part |-> a, base |-> d, jump |-> j]
    OBVIOUS
  <1>2. AtPart(y, b, k) = [w EXCEPT !.jump = k]
    BY DEF AtPart
  <1> HIDE DEF a, j
  <1>3. w = [of |-> "if", part |-> b, base |-> d, jump |-> j]
    BY <1>1
  <1> HIDE DEF w
  <1>4. [w EXCEPT !.jump = k] = [of |-> "if", part |-> b, base |-> d, jump |-> k]
    BY <1>3
  <1>5. QED
    BY <1>2, <1>4

LEMMA IfBegan ==
  ASSUME NEW x, NEW p, NEW q, NEW L, NEW part \in {"condition", "then", "else"},
         NEW jump \in SUBSET Seq(Nat), Over(jump, p, 1),
         x = [of |-> "if", part |-> part, base |-> p.depth, jump |-> jump],
         q.depth = p.depth, q.count = p.count, q.scope = p.scope
  PROVE  Began(x, p, q, L) /\ x.of = "if"
  <1>1. BeganOther(x, p, q, L)
    BY DEF BeganOther
  <1>2. QED
    BY <1>1 DEF Began

(* In an `if`, after an operand: its value is above where the `if` began. *)
LEMMA AtIf ==
  ASSUME NEW g, Stands(g), Ended, Top.of = "if"
  PROVE  LET p == Before(g, Len(g))
         IN /\ Linked(contexts, g, compiler.locals) /\ compiler.locals \in Seq(Locals)
            /\ Len(g) # 1 /\ p \in Positions /\ p.depth \in Nat /\ p.scope \in Nat
            /\ Len(compiler.locals) = p.count /\ Last(contexts) = Top
            /\ Last(contexts).of # "function"
            /\ Top = [of |-> "if", part |-> Top.part, base |-> p.depth, jump |-> Top.jump]
            /\ Top.jump \in SUBSET Seq(Nat) /\ Over(Top.jump, p, 1) /\ Top.base = p.depth
            /\ Reaches(compiler, p, 1, p.depth + 1, compiler.locals, p.scope)
            /\ compiler.stacks \in SUBSET Seq(Nat) /\ Over(compiler.stacks, p, 1)
  <1> DEFINE p == Before(g, Len(g))
             q == Last(g)
             L == compiler.locals
  <1>1. Top.of \notin Lists \cup {"match"}
    BY DEF Lists
  <1>2. /\ Linked(contexts, g, L) /\ L \in Seq(Locals) /\ Len(g) # 1 /\ Len(L) = p.count
        /\ p \in Positions /\ BeganOther(Top, p, q, L) /\ p.depth \in Nat /\ p.scope \in Nat
        /\ Last(contexts) = Top
        /\ Reaches(compiler, p, q.depth - p.depth + 1, q.depth + 1, L, p.scope)
    BY <1>1, AtInner
  <1>3. /\ Top = [of |-> "if", part |-> Top.part, base |-> p.depth, jump |-> Top.jump]
        /\ Top.jump \in SUBSET Seq(Nat) /\ Over(Top.jump, p, 1) /\ Top.base = p.depth
    BY <1>2, KindIf
  <1>4. q.depth = p.depth
    BY <1>2, KindIf
  <1> HIDE DEF p, L
  <1>5. Reaches(compiler, p, 1, p.depth + 1, L, p.scope)
    <2>1. q.depth - p.depth + 1 = 1
      BY <1>2, <1>4
    <2>2. QED
      BY <1>2, <1>4, <2>1
  <1>6. compiler.stacks \in SUBSET Seq(Nat) /\ Over(compiler.stacks, p, 1)
    BY <1>5 DEF Reaches
  <1>7. QED
    BY <1>2, <1>3, <1>5, <1>6 DEF p, L

LEMMA StepBeginThen ==
  ASSUME NEW g, Stands(g), BeginThen PROVE SoundNext
  <1> DEFINE p == Before(g, Len(g))
             L == compiler.locals
             c == compiler ++ Op("JumpIfFalse") ++ Op("Pop")
             x == [Top EXCEPT !.part = "then", !.jump = compiler.stacks]
  <1>1. /\ Ended /\ Top.of = "if" /\ compiler' = BeginScope(c) /\ expects' = "operand"
        /\ contexts' = Front(contexts) \o <<x, [of |-> "body", begun |-> FALSE]>>
    BY DEF BeginThen, Part, In, OpenBlock, Goes
  <1>2. /\ Linked(contexts, g, L) /\ L \in Seq(Locals)
        /\ Len(g) # 1 /\ p \in Positions /\ p.depth \in Nat /\ p.scope \in Nat
        /\ Len(L) = p.count /\ Last(contexts) = Top
        /\ Last(contexts).of # "function"
        /\ Reaches(compiler, p, 1, p.depth + 1, L, p.scope)
        /\ compiler.stacks \in SUBSET Seq(Nat) /\ Over(compiler.stacks, p, 1)
    BY <1>1, AtIf
  <1>3. Top = [of |-> "if", part |-> Top.part, base |-> p.depth, jump |-> Top.jump]
    BY <1>1, AtIf
  <1> HIDE DEF p, L
  <1>4. x = [of |-> "if", part |-> "then", base |-> p.depth, jump |-> compiler.stacks]
    <2>1. AtPart(Top, "then", compiler.stacks)
          = [of |-> "if", part |-> "then", base |-> p.depth, jump |-> compiler.stacks]
      BY <1>3, IfChanged
    <2>2. QED
      BY <2>1 DEF AtPart
  <1> HIDE DEF x
  <1>5. Reaches(c, p, 0, p.depth, L, p.scope)
    <2>1. 1 \in Nat \ {0} /\ 1 - 1 = 0 /\ p.depth + 1 - 1 = p.depth
      BY <1>2
    <2>2. Reaches(c, p, 1 - 1, p.depth + 1 - 1, L, p.scope)
      BY <1>2, <2>1, DropsTested
    <2> HIDE DEF c
    <2>3. QED
      BY <2>1, <2>2
  <1> HIDE DEF c
  <1> DEFINE q == Atop(p, 0, p.scope, c.stacks)
  <1>6. q.depth = p.depth /\ q.count = p.count /\ q.scope = p.scope
    <2>1. p.depth + 0 = p.depth
      BY <1>2
    <2>2. QED
      BY <2>1, AtopFields
  <1> HIDE DEF q
  <1>7. Began(x, p, q, L) /\ x.of = "if"
    BY <1>2, <1>4, <1>6, IfBegan
  <1>8. Sound(BeginScope(c), Front(contexts) \o <<x, [of |-> "body", begun |-> FALSE]>>,
              "operand")
    BY <1>1, <1>2, <1>5, <1>7, OpensBlock DEF p, q
  <1>9. QED
    BY <1>1, <1>8 DEF SoundNext

(* The other branch begins with the stacks that failed the test. *)
LEMMA Otherwise ==
  ASSUME NEW g, Stands(g), Ended, Top.of = "if"
  PROVE  LET p == Before(g, Len(g))
         IN Reaches(OtherBranch, p, 0, p.depth, compiler.locals, p.scope)
  <1> DEFINE p == Before(g, Len(g))
             L == compiler.locals
             jump == compiler ++ Op("Jump")
             patched == Patched(jump, Top.jump)
             s == SetDepth(patched, Top.base + 1)
  <1>1. /\ p \in Positions /\ p.depth \in Nat
        /\ Top.jump \in SUBSET Seq(Nat) /\ Over(Top.jump, p, 1) /\ Top.base = p.depth
        /\ Reaches(compiler, p, 1, p.depth + 1, L, p.scope)
    BY AtIf
  <1> HIDE DEF p, L
  <1>2. Reaches(jump, p, 1, p.depth + 1, L, p.scope)
    BY <1>1, EmitsJump
  <1> HIDE DEF jump
  <1>3. Reaches(patched, p, 1, p.depth + 1, L, p.scope)
    BY <1>1, <1>2, Patches
  <1> HIDE DEF patched
  <1>4. Reaches(s, p, 1, p.depth + 1, L, p.scope)
    BY <1>1, <1>3, SetsDepth
  <1> HIDE DEF s
  <1>5. Reaches(s ++ Op("Pop"), p, 1 - 1, p.depth + 1 - 1, L, p.scope)
    BY <1>1, <1>4, EmitsPop
  <1>6. 1 - 1 = 0 /\ p.depth + 1 - 1 = p.depth
    BY <1>1
  <1>7. Reaches(s ++ Op("Pop"), p, 0, p.depth, L, p.scope)
    BY <1>5, <1>6
  <1>8. OtherBranch = s ++ Op("Pop")
    BY DEF OtherBranch, s, patched, jump
  <1>9. QED
    BY <1>7, <1>8 DEF p, L

LEMMA StepNoElse ==
  ASSUME NEW g, Stands(g), NoElse PROVE SoundNext
  <1> DEFINE p == Before(g, Len(g))
             L == compiler.locals
             c == OtherBranch ++ Op("Nil")
             e == Patched(c, compiler.stacks)
  <1>1. /\ Ended /\ Top.of = "if" /\ compiler' = e /\ expects' = "operator"
        /\ contexts' = Front(contexts)
    BY DEF NoElse, Part, In, Goes, Leave
  <1>2. /\ Linked(contexts, g, L) /\ L \in Seq(Locals)
        /\ Len(g) # 1 /\ p \in Positions /\ p.depth \in Nat /\ Len(L) = p.count
        /\ compiler.stacks \in SUBSET Seq(Nat) /\ Over(compiler.stacks, p, 1)
    BY <1>1, AtIf
  <1>3. Reaches(OtherBranch, p, 0, p.depth, L, p.scope)
    BY <1>1, Otherwise
  <1> HIDE DEF p, L
  <1>4. Reaches(c, p, 0 + 1, p.depth + 1, L, p.scope)
    BY <1>2, <1>3, EmitsPush
  <1> HIDE DEF c
  <1>5. Reaches(c, p, 1, p.depth + 1, L, p.scope)
    BY <1>4
  <1>6. Reaches(e, p, 1, p.depth + 1, L, p.scope)
    BY <1>2, <1>5, Patches
  <1> HIDE DEF e
  <1>7. Sound(e, Front(contexts), "operator")
    BY <1>2, <1>6, Leaves DEF p
  <1>8. QED
    BY <1>1, <1>7 DEF SoundNext

(* The context of an `if` at its other branch *)
LEMMA AtElse ==
  ASSUME NEW g, Stands(g), Ended, Top.of = "if", NEW q, NEW L,
         q.depth = Before(g, Len(g)).depth, q.count = Before(g, Len(g)).count,
         q.scope = Before(g, Len(g)).scope
  PROVE  Began(ElsePart, Before(g, Len(g)), q, L) /\ ElsePart.of = "if"
  <1> DEFINE p == Before(g, Len(g))
             x == ElsePart
  <1>1. /\ Top = [of |-> "if", part |-> Top.part, base |-> p.depth, jump |-> Top.jump]
        /\ compiler.stacks \in SUBSET Seq(Nat) /\ Over(compiler.stacks, p, 1)
    BY AtIf
  <1> HIDE DEF p
  <1>2. x = [of |-> "if", part |-> "else", base |-> p.depth, jump |-> compiler.stacks]
    <2>1. AtPart(Top, "else", compiler.stacks)
          = [of |-> "if", part |-> "else", base |-> p.depth, jump |-> compiler.stacks]
      BY <1>1, IfChanged
    <2>2. QED
      BY <2>1 DEF AtPart, ElsePart
  <1>3. q.depth = p.depth /\ q.count = p.count /\ q.scope = p.scope
    BY DEF p
  <1> HIDE DEF x
  <1>4. Began(x, p, q, L) /\ x.of = "if"
    BY <1>1, <1>2, <1>3, IfBegan
  <1>5. QED
    BY <1>4 DEF p, x

LEMMA StepBeginElse ==
  ASSUME NEW g, Stands(g), BeginElse PROVE SoundNext
  <1> DEFINE p == Before(g, Len(g))
             L == compiler.locals
             c == OtherBranch
             x == ElsePart
             q == Atop(p, 0, p.scope, c.stacks)
  <1>1. /\ Ended /\ Top.of = "if" /\ compiler' = BeginScope(c) /\ expects' = "operand"
        /\ contexts' = Front(contexts) \o <<x, [of |-> "body", begun |-> FALSE]>>
    BY DEF BeginElse, Part, In, OpenBlock, Goes
  <1>2. /\ Linked(contexts, g, L) /\ L \in Seq(Locals) /\ p.depth \in Nat
        /\ Len(L) = p.count /\ Last(contexts) = Top /\ Last(contexts).of # "function"
    BY <1>1, AtIf
  <1>3. Reaches(c, p, 0, p.depth, L, p.scope)
    BY <1>1, Otherwise
  <1>4. q.depth = p.depth /\ q.count = p.count /\ q.scope = p.scope
    <2>1. p.depth + 0 = p.depth
      BY <1>2
    <2>2. QED
      BY <2>1, AtopFields
  <1> HIDE DEF c, L, q
  <1>5. Began(x, p, q, L) /\ x.of = "if"
    BY <1>1, <1>4, AtElse
  <1> HIDE DEF p, x
  <1>6. Sound(BeginScope(c), Front(contexts) \o <<x, [of |-> "body", begun |-> FALSE]>>,
              "operand")
    BY <1>1, <1>2, <1>3, <1>5, OpensBlock DEF p, q
  <1>7. QED
    BY <1>1, <1>6 DEF SoundNext

LEMMA StepBeginElseIf ==
  ASSUME NEW g, Stands(g), BeginElseIf PROVE SoundNext
  <1> DEFINE p == Before(g, Len(g))
             L == compiler.locals
             c == OtherBranch
             x == ElsePart
             y == Condition(c)
             q == Atop(p, 0, p.scope, c.stacks)
             h == Append(Front(g), q)
             ds == Append(Front(contexts), x)
  <1>1. /\ Ended /\ Top.of = "if" /\ compiler' = c /\ expects' = "operand"
        /\ contexts' = Front(contexts) \o <<x, y>>
    BY DEF BeginElseIf, Part, In, Goes
  <1>2. /\ Linked(contexts, g, L) /\ L \in Seq(Locals) /\ p.depth \in Nat
        /\ p \in Positions /\ p.scope \in Nat
        /\ Len(L) = p.count /\ Last(contexts) = Top /\ Last(contexts).of # "function"
    BY <1>1, AtIf
  <1>3. Reaches(c, p, 0, p.depth, L, p.scope)
    BY <1>1, Otherwise
  <1>4. Holds(p, L)
    BY <1>2, Inside
  <1>5. q.depth = p.depth /\ q.count = p.count /\ q.scope = p.scope
    <2>1. p.depth + 0 = p.depth
      BY <1>2
    <2>2. QED
      BY <2>1, AtopFields
  <1>6. Began(x, p, q, L) /\ x.of = "if"
    <2> HIDE DEF c, L, q
    <2>1. QED
      BY <1>1, <1>5, AtElse
  <1>7. y = [of |-> "if", part |-> "condition", base |-> q.depth, jump |-> {}]
    <2>1. c.depth = p.depth
      BY <1>2, <1>3, ReachesFacts
    <2>2. QED
      BY <1>5, <2>1 DEF Condition
  <1>8. ds = Append(Front(contexts), x) /\ Front(contexts) \o <<x, y>> = Append(ds, y)
    <2>1. IsSequence(contexts) /\ Len(contexts) # 0
      BY <1>2, LinkedFacts
    <2>2. IsSequence(Front(contexts))
      BY <2>1, FrontOf
    <2> HIDE DEF x, y
    <2>3. QED
      BY <2>2, TwoAppended
  <1> HIDE DEF c, L, x, y
  <1>9. q \in Positions /\ Reaches(c, q, 0, p.depth, L, p.scope)
    <2>1. p.scope <= p.scope
      BY <1>2
    <2> HIDE DEF p
    <2>2. QED
      BY <1>2, <1>3, <1>4, <2>1, AtopFacts
  <1>10. Linked(ds, h, L) /\ Last(h) = q /\ Last(ds) = x
    <2>1. p.depth + 0 = p.depth /\ x.of = Last(contexts).of
      BY <1>1, <1>2, <1>6
    <2> HIDE DEF p
    <2>2. QED
      BY <1>2, <1>3, <1>6, <2>1, GoesOn DEF p
  <1> HIDE DEF p, q, h, ds
  <1> DEFINE r == Atop(q, 0, q.scope, c.stacks)
  <1>11. /\ q.depth \in Nat /\ q.scope \in Nat /\ q.scope <= q.scope
         /\ q.depth + 0 = q.depth
    BY <1>2, <1>5
  <1>12. Began(y, q, r, L) /\ y.of = "if"
    <2>1. r.depth = q.depth /\ r.count = q.count /\ r.scope = q.scope
      BY <1>11, AtopFields
    <2> HIDE DEF r
    <2>2. QED
      BY <1>7, <2>1, NoStacks, IfBegan
  <1>13. Sound(c, Append(ds, y), "operand")
    <2>1. Len(L) = Last(h).count /\ Last(h).scope <= Last(h).scope
      BY <1>2, <1>5, <1>10, <1>11
    <2>2. Reaches(c, Last(h), 0, Last(h).depth + 0, L, Last(h).scope)
      BY <1>5, <1>9, <1>10, <1>11
    <2>3. Began(y, Last(h), Atop(Last(h), 0, Last(h).scope, c.stacks), L)
      BY <1>10, <1>12
    <2>4. y.of # "function" /\ y.of # "declaration" /\ Last(h).scope \in Nat
      BY <1>10, <1>11, <1>12
    <2>5. QED
      BY <1>2, <1>10, <2>1, <2>2, <2>3, <2>4, Begins
  <1>14. QED
    BY <1>1, <1>8, <1>13 DEF SoundNext

LEMMA StepEndElse ==
  ASSUME NEW g, Stands(g), EndElse PROVE SoundNext
  <1> DEFINE p == Before(g, Len(g))
             L == compiler.locals
             e == Patched(compiler, Top.jump)
  <1>1. /\ Ended /\ Top.of = "if" /\ compiler' = e /\ expects' = "operator"
        /\ contexts' = Front(contexts)
    BY DEF EndElse, Part, In, Goes, Leave
  <1>2. /\ Linked(contexts, g, L) /\ L \in Seq(Locals)
        /\ Len(g) # 1 /\ p \in Positions /\ p.depth \in Nat /\ Len(L) = p.count
        /\ Top.jump \in SUBSET Seq(Nat) /\ Over(Top.jump, p, 1)
        /\ Reaches(compiler, p, 1, p.depth + 1, L, p.scope)
    BY <1>1, AtIf
  <1> HIDE DEF p, L
  <1>3. Reaches(e, p, 1, p.depth + 1, L, p.scope)
    BY <1>2, Patches
  <1> HIDE DEF e
  <1>4. Sound(e, Front(contexts), "operator")
    BY <1>2, <1>3, Leaves DEF p
  <1>5. QED
    BY <1>1, <1>4 DEF SoundNext
-----------------------------------------------------------------------------
(* Loops *)

(* The context of a `while`, in its body and with other breaks *)
InBody(y, exit) == [y EXCEPT !.part = "body", !.exit = exit]
WithBreaks(y, breaks) == [y EXCEPT !.breaks = breaks]

LEMMA WhileChanged ==
  ASSUME NEW y, NEW d, NEW f, NEW k,
         y = [of |-> "while", part |-> y.part, base |-> d, start |-> f,
              exit |-> y.exit, breaks |-> y.breaks]
  PROVE  /\ InBody(y, k) = [of |-> "while", part |-> "body", base |-> d, start |-> f,
                            exit |-> k, breaks |-> y.breaks]
         /\ WithBreaks(y, k) = [of |-> "while", part |-> y.part, base |-> d, start |-> f,
                                exit |-> y.exit, breaks |-> k]
  <1> DEFINE a == y.part
             j == y.exit
             b == y.breaks
             w == [y EXCEPT !.part = "body"]
  <1>1. y = [of |-> "while", part |-> a, base |-> d, start |-> f, exit |-> j, breaks |-> b]
    OBVIOUS
  <1>2. InBody(y, k) = [w EXCEPT !.exit = k]
    BY DEF InBody
  <1> HIDE DEF a, j, b
  <1>3. w = [of |-> "while", part |-> "body", base |-> d, start |-> f, exit |-> j,
             breaks |-> b]
    BY <1>1
  <1>4. WithBreaks(y, k) = [of |-> "while", part |-> a, base |-> d, start |-> f,
                            exit |-> j, breaks |-> k]
    BY <1>1 DEF WithBreaks
  <1> HIDE DEF w
  <1>5. [w EXCEPT !.exit = k] = [of |-> "while", part |-> "body", base |-> d, start |-> f,
                                 exit |-> k, breaks |-> b]
    BY <1>3
  <1>6. QED
    BY <1>2, <1>4, <1>5 DEF a, j, b

LEMMA WhileBegan ==
  ASSUME NEW x, NEW p, NEW q, NEW L, NEW part \in {"condition", "body"},
         NEW exit \in SUBSET Seq(Nat), Over(exit, p, 1),
         NEW breaks \in SUBSET Seq(Nat), Over(breaks, p, 0),
         x = [of |-> "while", part |-> part, base |-> p.depth, start |-> p.from,
              exit |-> exit, breaks |-> breaks],
         q.depth = p.depth, q.count = p.count, q.scope = p.scope
  PROVE  Began(x, p, q, L) /\ x.of = "while"
  <1>1. BeganOther(x, p, q, L)
    BY DEF BeganOther
  <1>2. QED
    BY <1>1 DEF Began

(* What is at a position's height and extends it are stacks of its own. *)
LEMMA SameHeight ==
  ASSUME NEW p \in Positions, NEW T, Over(T, p, 0) PROVE T \subseteq p.from
  <1> SUFFICES ASSUME NEW s \in T PROVE s \in p.from
    OBVIOUS
  <1>1. s \in Seq(Nat) /\ Len(s) = p.depth + 0 /\ SubSeq(s, 1, p.depth) \in p.from
    BY DEF Over
  <1>2. p.depth \in Nat
    BY DEF Positions
  <1>3. Len(s) = p.depth
    BY <1>1, <1>2
  <1>4. SubSeq(s, 1, Len(s)) = s
    BY <1>1
  <1>5. QED
    BY <1>1, <1>3, <1>4

LEMMA AtWhile ==
  ASSUME NEW g, Stands(g), Ended, Top.of = "while"
  PROVE  LET p == Before(g, Len(g))
         IN /\ Linked(contexts, g, compiler.locals) /\ compiler.locals \in Seq(Locals)
            /\ Len(g) # 1 /\ p \in Positions /\ p.depth \in Nat /\ p.scope \in Nat
            /\ Len(compiler.locals) = p.count /\ Last(contexts) = Top
            /\ Last(contexts).of # "function"
            /\ Top = [of |-> "while", part |-> Top.part, base |-> p.depth,
                      start |-> p.from, exit |-> Top.exit, breaks |-> Top.breaks]
            /\ Top.exit \in SUBSET Seq(Nat) /\ Over(Top.exit, p, 1)
            /\ Top.breaks \in SUBSET Seq(Nat) /\ Over(Top.breaks, p, 0)
            /\ Top.start = p.from /\ Top.base = p.depth
            /\ Reaches(compiler, p, 1, p.depth + 1, compiler.locals, p.scope)
            /\ compiler.stacks \in SUBSET Seq(Nat) /\ Over(compiler.stacks, p, 1)
  <1> DEFINE p == Before(g, Len(g))
             q == Last(g)
             L == compiler.locals
  <1>1. Top.of \notin Lists \cup {"match"}
    BY DEF Lists
  <1>2. /\ Linked(contexts, g, L) /\ L \in Seq(Locals) /\ Len(g) # 1 /\ Len(L) = p.count
        /\ p \in Positions /\ BeganOther(Top, p, q, L) /\ p.depth \in Nat /\ p.scope \in Nat
        /\ Last(contexts) = Top
        /\ Reaches(compiler, p, q.depth - p.depth + 1, q.depth + 1, L, p.scope)
    BY <1>1, AtInner
  <1>3. /\ Top = [of |-> "while", part |-> Top.part, base |-> p.depth,
                  start |-> p.from, exit |-> Top.exit, breaks |-> Top.breaks]
        /\ Top.exit \in SUBSET Seq(Nat) /\ Over(Top.exit, p, 1)
        /\ Top.breaks \in SUBSET Seq(Nat) /\ Over(Top.breaks, p, 0)
        /\ Top.start = p.from /\ Top.base = p.depth
    BY <1>2, KindWhile
  <1>4. q.depth = p.depth
    BY <1>2, KindWhile
  <1> HIDE DEF p, L
  <1>5. Reaches(compiler, p, 1, p.depth + 1, L, p.scope)
    <2>1. q.depth - p.depth + 1 = 1
      BY <1>2, <1>4
    <2>2. QED
      BY <1>2, <1>4, <2>1
  <1>6. compiler.stacks \in SUBSET Seq(Nat) /\ Over(compiler.stacks, p, 1)
    BY <1>5 DEF Reaches
  <1>7. QED
    BY <1>2, <1>3, <1>5, <1>6 DEF p, L

LEMMA StepBeginLoopBody ==
  ASSUME NEW g, Stands(g), BeginLoopBody PROVE SoundNext
  <1> DEFINE p == Before(g, Len(g))
             L == compiler.locals
             c == compiler ++ Op("JumpIfFalse") ++ Op("Pop")
             x == [Top EXCEPT !.part = "body", !.exit = compiler.stacks]
  <1>1. /\ Ended /\ Top.of = "while" /\ compiler' = BeginScope(c) /\ expects' = "operand"
        /\ contexts' = Front(contexts) \o <<x, [of |-> "body", begun |-> FALSE]>>
    BY DEF BeginLoopBody, Part, In, OpenBlock, Goes
  <1>2. /\ Linked(contexts, g, L) /\ L \in Seq(Locals)
        /\ Len(g) # 1 /\ p \in Positions /\ p.depth \in Nat /\ p.scope \in Nat
        /\ Len(L) = p.count /\ Last(contexts) = Top
        /\ Last(contexts).of # "function"
        /\ Reaches(compiler, p, 1, p.depth + 1, L, p.scope)
        /\ compiler.stacks \in SUBSET Seq(Nat) /\ Over(compiler.stacks, p, 1)
    BY <1>1, AtWhile
  <1>3. /\ Top = [of |-> "while", part |-> Top.part, base |-> p.depth,
                  start |-> p.from, exit |-> Top.exit, breaks |-> Top.breaks]
    BY <1>1, AtWhile
  <1>b. Top.breaks \in SUBSET Seq(Nat) /\ Over(Top.breaks, p, 0)
    BY <1>1, AtWhile
  <1> HIDE DEF p, L
  <1>4. x = [of |-> "while", part |-> "body", base |-> p.depth, start |-> p.from,
             exit |-> compiler.stacks, breaks |-> Top.breaks]
    <2>1. InBody(Top, compiler.stacks)
          = [of |-> "while", part |-> "body", base |-> p.depth, start |-> p.from,
             exit |-> compiler.stacks, breaks |-> Top.breaks]
      BY <1>3, WhileChanged
    <2>2. QED
      BY <2>1 DEF InBody
  <1> HIDE DEF x
  <1>5. Reaches(c, p, 0, p.depth, L, p.scope)
    <2>1. 1 \in Nat \ {0} /\ 1 - 1 = 0 /\ p.depth + 1 - 1 = p.depth
      BY <1>2
    <2>2. Reaches(c, p, 1 - 1, p.depth + 1 - 1, L, p.scope)
      BY <1>2, <2>1, DropsTested
    <2> HIDE DEF c
    <2>3. QED
      BY <2>1, <2>2
  <1> HIDE DEF c
  <1> DEFINE q == Atop(p, 0, p.scope, c.stacks)
  <1>6. q.depth = p.depth /\ q.count = p.count /\ q.scope = p.scope
    <2>1. p.depth + 0 = p.depth
      BY <1>2
    <2>2. QED
      BY <2>1, AtopFields
  <1> HIDE DEF q
  <1>7. Began(x, p, q, L) /\ x.of = "while"
    BY <1>2, <1>4, <1>6, <1>b, WhileBegan
  <1>8. Sound(BeginScope(c), Front(contexts) \o <<x, [of |-> "body", begun |-> FALSE]>>,
              "operand")
    BY <1>1, <1>2, <1>5, <1>7, OpensBlock DEF p, q
  <1>9. QED
    BY <1>1, <1>8 DEF SoundNext

(* The body goes back to the test with a stack the test was reached with. *)
LEMMA StepEndWhile ==
  ASSUME NEW g, Stands(g), EndWhile PROVE SoundNext
  <1> DEFINE p == Before(g, Len(g))
             L == compiler.locals
             popped == compiler ++ Op("Pop")
             body == EmitLoop(popped, Top.start)
             out == Patched(body, Top.exit)
             deep == SetDepth(out, Top.base + 1)
             exit == deep ++ Op("Pop")
             broken == Patched(exit, Top.breaks)
             e == broken ++ Op("Nil")
  <1>1. /\ Ended /\ Top.of = "while" /\ compiler' = e /\ expects' = "operator"
        /\ contexts' = Front(contexts)
    BY DEF EndWhile, Part, In, Goes, Leave
  <1>2. /\ Linked(contexts, g, L) /\ L \in Seq(Locals)
        /\ Len(g) # 1 /\ p \in Positions /\ p.depth \in Nat /\ Len(L) = p.count
        /\ Top.exit \in SUBSET Seq(Nat) /\ Over(Top.exit, p, 1)
        /\ Top.breaks \in SUBSET Seq(Nat) /\ Over(Top.breaks, p, 0)
        /\ Top.start = p.from /\ Top.base = p.depth
        /\ Reaches(compiler, p, 1, p.depth + 1, L, p.scope)
    BY <1>1, AtWhile
  <1> HIDE DEF p, L
  <1>3. 1 \in Nat \ {0} /\ 1 - 1 = 0 /\ p.depth + 1 - 1 = p.depth /\ 0 + 1 = 1
        /\ p.depth + 1 \in Int
    BY <1>2
  <1>4. Reaches(popped, p, 0, p.depth, L, p.scope)
    <2>1. Reaches(popped, p, 1 - 1, p.depth + 1 - 1, L, p.scope)
      BY <1>2, <1>3, EmitsPop
    <2> HIDE DEF popped
    <2>2. QED
      BY <1>3, <2>1
  <1> HIDE DEF popped
  <1>5. Reaches(body, p, 1, p.depth, L, p.scope)
    <2>1. Over(popped.stacks, p, 0)
      BY <1>4 DEF Reaches
    <2>2. popped.stacks \subseteq Top.start
      BY <1>2, <2>1, SameHeight
    <2>3. QED
      BY <1>4, <2>2, GoesBack
  <1> HIDE DEF body
  <1>6. Reaches(out, p, 1, p.depth, L, p.scope)
    BY <1>2, <1>5, Patches
  <1> HIDE DEF out
  <1>7. Reaches(deep, p, 1, p.depth + 1, L, p.scope)
    BY <1>2, <1>3, <1>6, SetsDepth
  <1> HIDE DEF deep
  <1>8. Reaches(exit, p, 0, p.depth, L, p.scope)
    <2>1. Reaches(exit, p, 1 - 1, p.depth + 1 - 1, L, p.scope)
      BY <1>2, <1>3, <1>7, EmitsPop
    <2> HIDE DEF exit
    <2>2. QED
      BY <1>3, <2>1
  <1> HIDE DEF exit
  <1>9. Reaches(broken, p, 0, p.depth, L, p.scope)
    BY <1>2, <1>8, Patches
  <1> HIDE DEF broken
  <1>10. Reaches(e, p, 1, p.depth + 1, L, p.scope)
    <2>1. Reaches(e, p, 0 + 1, p.depth + 1, L, p.scope)
      BY <1>2, <1>9, EmitsPush
    <2> HIDE DEF e
    <2>2. QED
      BY <1>3, <2>1
  <1> HIDE DEF e
  <1>11. Sound(e, Front(contexts), "operator")
    BY <1>2, <1>10, Leaves DEF p
  <1>12. QED
    BY <1>1, <1>11 DEF SoundNext

(* From any depth inside it, a loop is unwound to where it began. *)
LEMMA AtLoop ==
  ASSUME NEW g, Stands(g), Operand, Loops # {}
  PROVE  LET p == Before(g, Loop)
             w == contexts[Loop]
         IN /\ Loop \in 1 .. Len(g) /\ p \in Positions
            /\ w = [of |-> "while", part |-> w.part, base |-> p.depth, start |-> p.from,
                    exit |-> w.exit, breaks |-> w.breaks]
            /\ w.part \in {"condition", "body"}
            /\ w.exit \in SUBSET Seq(Nat) /\ Over(w.exit, p, 1)
            /\ w.breaks \in SUBSET Seq(Nat) /\ Over(w.breaks, p, 0)
            /\ g[Loop].depth = p.depth /\ g[Loop].count = p.count /\ g[Loop].scope = p.scope
            /\ Reaches(UnwoundToLoop, p, 0, p.depth, compiler.locals, Last(g).scope)
            /\ UnwoundToLoop.stacks \in SUBSET Seq(Nat) /\ Over(UnwoundToLoop.stacks, p, 0)
  <1> DEFINE n == Loop
             p == Before(g, n)
             q == Last(g)
             w == contexts[n]
             L == compiler.locals
             u == UnwoundToLoop
  <1>1. /\ Linked(contexts, g, L) /\ q \in Positions /\ q.depth \in Nat
        /\ compiler.depth = q.depth /\ Reaches(compiler, q, 0, q.depth, L, q.scope)
    BY AtPosition
  <1>2. /\ IsSequence(contexts) /\ Len(g) \in Nat \ {0} /\ Len(contexts) = Len(g)
        /\ q = g[Len(g)] /\ \A k \in 1 .. Len(g) : g[k] \in Positions
    BY <1>1, LinkedFacts
  <1>3. n \in 1 .. Len(g) /\ w.of = "while"
    BY <1>2, LoopIsOne
  <1> HIDE DEF n
  <1>4. n # 1 /\ n - 1 \in 1 .. Len(g) /\ n - 1 <= Len(g) /\ Len(g) \in 1 .. Len(g)
    <2>1. w.of = "function" <=> n = 1
      BY <1>1, <1>3 DEF Linked
    <2>2. n # 1
      BY <1>3, <2>1
    <2>3. QED
      BY <1>2, <1>3, <2>2
  <1>5. p = g[n - 1] /\ p \in Positions /\ Extends(p, q) /\ Began(w, p, g[n], L)
    <2>1. p = g[n - 1]
      BY <1>4 DEF Before
    <2>2. Extends(g[n - 1], g[Len(g)])
      BY <1>1, <1>4 DEF Linked
    <2>3. Began(w, p, g[n], L)
      BY <1>1, <1>3 DEF Linked
    <2>4. QED
      BY <1>2, <1>4, <2>1, <2>2, <2>3
  <1> HIDE DEF p, w, q, L
  <1>6. BeganOther(w, p, g[n], L) /\ g[n].scope = p.scope /\ g[n].count = p.count
    <2>1. w.of \notin Lists \cup {"match"}
      BY <1>3 DEF Lists
    <2>2. QED
      BY <1>5, <2>1, Kind
  <1>7. /\ w = [of |-> "while", part |-> w.part, base |-> p.depth, start |-> p.from,
                exit |-> w.exit, breaks |-> w.breaks]
        /\ w.part \in {"condition", "body"}
        /\ w.exit \in SUBSET Seq(Nat) /\ Over(w.exit, p, 1)
        /\ w.breaks \in SUBSET Seq(Nat) /\ Over(w.breaks, p, 0)
        /\ w.base = p.depth /\ g[n].depth = p.depth
    BY <1>3, <1>6, KindWhile
  <1> DEFINE k == q.depth - p.depth
  <1>8. k \in Nat /\ k + 0 = k /\ k - k = 0 /\ q.depth - k = p.depth /\ k \in 0 .. k
    <2>1. p.depth \in Nat /\ p.depth <= q.depth
      BY <1>5 DEF Positions, Extends
    <2>2. QED
      BY <1>1, <2>1
  <1>9. Reaches(compiler, p, k, q.depth, L, q.scope)
    <2>1. 0 \in Nat
      OBVIOUS
    <2>2. Reaches(compiler, p, k + 0, q.depth, L, q.scope)
      BY <1>1, <1>5, <2>1, Below
    <2> HIDE DEF k
    <2>3. QED
      BY <1>8, <2>2
  <1>10. u = Unwound(compiler, k)
    BY <1>1, <1>7 DEF UnwoundToLoop, w, n
  <1> HIDE DEF k, u
  <1>11. Reaches(u, p, 0, p.depth, L, q.scope)
    <2>1. Reaches(Unwound(compiler, k), p, k - k, q.depth - k, L, q.scope)
      BY <1>5, <1>8, <1>9, Unwinds
    <2>2. QED
      BY <1>8, <1>10, <2>1
  <1>12. u.stacks \in SUBSET Seq(Nat) /\ Over(u.stacks, p, 0)
    BY <1>11 DEF Reaches
  <1>13. QED
    BY <1>3, <1>5, <1>6, <1>7, <1>11, <1>12 DEF n, p, q, w, L, u

(* `break` leaves for the loop's end what it has unwound; what follows it  *)
(* is not reached, and is compiled as if a value were there.               *)
LEMMA StepBreak ==
  ASSUME NEW g, Stands(g), Break PROVE SoundNext
  <1> DEFINE p == Before(g, Loop)
             q == Last(g)
             w == contexts[Loop]
             L == compiler.locals
             jumped == UnwoundToLoop ++ Op("Jump")
             c == SetDepth(jumped, compiler.depth + 1)
             breaks == w.breaks \cup UnwoundToLoop.stacks
             x == WithBreaks(w, breaks)
             cs == [contexts EXCEPT ![Loop] = x]
  <1>1. /\ Operand /\ Loops # {} /\ compiler' = c /\ expects' = "operator"
        /\ contexts' = [contexts EXCEPT ![Loop].breaks = @ \cup UnwoundToLoop.stacks]
    BY DEF Break, Goes
  <1>2. contexts' = cs
    <2>1. [contexts EXCEPT ![Loop].breaks = @ \cup UnwoundToLoop.stacks] = cs
      BY DEF WithBreaks
    <2>2. QED
      BY <1>1, <2>1
  <1>3. /\ Linked(contexts, g, L) /\ L \in Seq(Locals) /\ Len(L) = q.count
        /\ q \in Positions /\ q.depth \in Nat /\ compiler.depth = q.depth
    BY <1>1, AtPosition
  <1>4. /\ Loop \in 1 .. Len(g) /\ p \in Positions
        /\ w = [of |-> "while", part |-> w.part, base |-> p.depth, start |-> p.from,
                exit |-> w.exit, breaks |-> w.breaks]
        /\ w.part \in {"condition", "body"}
        /\ w.exit \in SUBSET Seq(Nat) /\ Over(w.exit, p, 1)
        /\ w.breaks \in SUBSET Seq(Nat) /\ Over(w.breaks, p, 0)
        /\ g[Loop].depth = p.depth /\ g[Loop].count = p.count /\ g[Loop].scope = p.scope
        /\ Reaches(UnwoundToLoop, p, 0, p.depth, L, q.scope)
        /\ UnwoundToLoop.stacks \in SUBSET Seq(Nat) /\ Over(UnwoundToLoop.stacks, p, 0)
    BY <1>1, AtLoop
  <1> HIDE DEF p, q, w, L
  <1>5. breaks \in SUBSET Seq(Nat) /\ Over(breaks, p, 0)
    BY <1>4 DEF Over
  <1> HIDE DEF breaks
  <1>6. x = [of |-> "while", part |-> w.part, base |-> p.depth, start |-> p.from,
             exit |-> w.exit, breaks |-> breaks]
    BY <1>4, WhileChanged
  <1> HIDE DEF x
  <1>7. Began(x, p, g[Loop], L) /\ x.of = w.of
    <2>1. Began(x, p, g[Loop], L) /\ x.of = "while"
      BY <1>4, <1>5, <1>6, WhileBegan
    <2>2. w.of = "while"
      BY <1>4
    <2>3. QED
      BY <2>1, <2>2
  <1>8. Linked(cs, g, L)
    BY <1>3, <1>4, <1>7, Marked DEF p, w
  <1> HIDE DEF cs
  <1>9. Reaches(c, q, 1, q.depth + 1, L, q.scope)
    <2>1. Reaches(jumped, q, 1, p.depth, L, q.scope)
      BY <1>4, EmitsJump
    <2> HIDE DEF jumped
    <2>2. q.depth + 1 \in Int /\ compiler.depth + 1 = q.depth + 1
      BY <1>3
    <2>3. QED
      BY <2>1, <2>2, SetsDepth
  <1> HIDE DEF c
  <1>10. Sound(c, cs, "operator")
    BY <1>3, <1>8, <1>9, Yields DEF q
  <1>11. QED
    BY <1>1, <1>2, <1>10 DEF SoundNext

(* `continue` goes back with what it has unwound, a stack of the start. *)
LEMMA StepContinue ==
  ASSUME NEW g, Stands(g), Continue PROVE SoundNext
  <1> DEFINE p == Before(g, Loop)
             q == Last(g)
             w == contexts[Loop]
             L == compiler.locals
             back == EmitLoop(UnwoundToLoop, contexts[Loop].start)
             c == SetDepth(back, compiler.depth + 1)
  <1>1. /\ Operand /\ Loops # {} /\ compiler' = c /\ expects' = "operator"
        /\ contexts' = contexts
    BY DEF Continue, Goes
  <1>3. /\ Linked(contexts, g, L) /\ L \in Seq(Locals) /\ Len(L) = q.count
        /\ q \in Positions /\ q.depth \in Nat /\ compiler.depth = q.depth
    BY <1>1, AtPosition
  <1>4. /\ p \in Positions
        /\ w = [of |-> "while", part |-> w.part, base |-> p.depth, start |-> p.from,
                exit |-> w.exit, breaks |-> w.breaks]
        /\ Reaches(UnwoundToLoop, p, 0, p.depth, L, q.scope)
        /\ Over(UnwoundToLoop.stacks, p, 0)
    BY <1>1, AtLoop
  <1> HIDE DEF p, q, L
  <1>5. UnwoundToLoop.stacks \subseteq contexts[Loop].start
    <2>1. w.start = p.from
      BY <1>4
    <2>2. UnwoundToLoop.stacks \subseteq p.from
      BY <1>4, SameHeight
    <2>3. QED
      BY <2>1, <2>2
  <1> HIDE DEF w
  <1>9. Reaches(c, q, 1, q.depth + 1, L, q.scope)
    <2>1. Reaches(back, q, 1, p.depth, L, q.scope)
      BY <1>4, <1>5, GoesBack
    <2> HIDE DEF back
    <2>2. q.depth + 1 \in Int /\ compiler.depth + 1 = q.depth + 1
      BY <1>3
    <2>3. QED
      BY <2>1, <2>2, SetsDepth
  <1> HIDE DEF c
  <1>10. Sound(c, contexts, "operator")
    BY <1>3, <1>9, Yields DEF q
  <1>11. QED
    BY <1>1, <1>10 DEF SoundNext

(* The context of a `match` *)
Matching(part, base, bound, tested, fails, ends) ==
  [of |-> "match", part |-> part, base |-> base, bound |-> bound, tested |-> tested,
   fails |-> fails, ends |-> ends]

WithPart(y, part) == [y EXCEPT !.part = part]
WithBound(y, bound) == [y EXCEPT !.bound = bound]
WithTested(y, tested) == [y EXCEPT !.tested = tested]
WithFails(y, fails) == [y EXCEPT !.fails = fails]
WithEnds(y, ends) == [y EXCEPT !.ends = ends]

LEMMA PartChanged ==
  \A a, b, c, d, e, f, v :
    WithPart(Matching(a, b, c, d, e, f), v) = Matching(v, b, c, d, e, f)
  BY DEF Matching, WithPart

LEMMA BoundChanged ==
  \A a, b, c, d, e, f, v :
    WithBound(Matching(a, b, c, d, e, f), v) = Matching(a, b, v, d, e, f)
  BY DEF Matching, WithBound

LEMMA TestedChanged ==
  \A a, b, c, d, e, f, v :
    WithTested(Matching(a, b, c, d, e, f), v) = Matching(a, b, c, v, e, f)
  BY DEF Matching, WithTested

LEMMA FailsChanged ==
  \A a, b, c, d, e, f, v :
    WithFails(Matching(a, b, c, d, e, f), v) = Matching(a, b, c, d, v, f)
  BY DEF Matching, WithFails

LEMMA EndsChanged ==
  \A a, b, c, d, e, f, v :
    WithEnds(Matching(a, b, c, d, e, f), v) = Matching(a, b, c, d, e, v)
  BY DEF Matching, WithEnds

LEMMA MatchFields ==
  ASSUME NEW x, NEW a, NEW b, NEW c, NEW d, NEW e, NEW f, x = Matching(a, b, c, d, e, f)
  PROVE  x.of = "match" /\ x.part = a /\ x.bound = c /\ x.fails = e /\ x.ends = f
  BY DEF Matching

LEMMA MatchBegan ==
  ASSUME NEW x, NEW p, NEW q, NEW L, NEW part \in {"subject", "guard", "body", "arms"},
         NEW bound \in BOOLEAN, NEW tested \in BOOLEAN,
         NEW fails \in SUBSET Seq(Nat), Over(fails, p, 2),
         NEW ends \in SUBSET Seq(Nat), Over(ends, p, 1),
         x = Matching(part, p.depth, bound, tested, fails, ends),
         q.scope = p.scope, q.count = IF bound THEN p.count + 1 ELSE p.count,
         q.depth = IF part \in {"guard", "body"} THEN p.depth + 1 ELSE p.depth,
         part \in {"subject", "arms"} => ~bound
  PROVE  Began(x, p, q, L) /\ x.of = "match"
  <1>1. x = [of |-> "match", part |-> part, base |-> p.depth, bound |-> bound,
             tested |-> tested, fails |-> fails, ends |-> ends]
    BY DEF Matching
  <1>2. x.of = "match" /\ x.part = part /\ x.bound = bound /\ x.fails = fails /\ x.ends = ends
    BY MatchFields
  <1>3. \E a \in {"subject", "guard", "body", "arms"}, b \in BOOLEAN,
           t \in BOOLEAN, f, e \in SUBSET Seq(Nat) :
          x = [of |-> "match", part |-> a, base |-> p.depth, bound |-> b,
               tested |-> t, fails |-> f, ends |-> e]
    BY <1>1, Zenon
  <1>4. Over(x.fails, p, 2) /\ Over(x.ends, p, 1)
    BY <1>2
  <1>5. q.count = IF x.bound THEN p.count + 1 ELSE p.count
    BY <1>2, Zenon
  <1>6. q.depth = IF x.part \in {"guard", "body"} THEN p.depth + 1 ELSE p.depth
    BY <1>2, Zenon
  <1>7. x.part \in {"subject", "arms"} => ~x.bound
    BY <1>2, Zenon
  <1>8. BeganMatch(x, p, q)
    BY <1>3, <1>4, <1>5, <1>6, <1>7, Zenon DEF BeganMatch
  <1>9. QED
    BY <1>2, <1>8, Zenon DEF Began

LEMMA KindArm ==
  ASSUME NEW x, NEW p, NEW q, BeganMatch(x, p, q)
  PROVE  /\ x = Matching(x.part, p.depth, x.bound, x.tested, x.fails, x.ends)
         /\ x.bound \in BOOLEAN /\ x.tested \in BOOLEAN
         /\ Over(x.fails, p, 2) /\ Over(x.ends, p, 1) /\ q.scope = p.scope
         /\ q.count = IF x.bound THEN p.count + 1 ELSE p.count
  <1>1. /\ x = [of |-> "match", part |-> x.part, base |-> p.depth, bound |-> x.bound,
                tested |-> x.tested, fails |-> x.fails, ends |-> x.ends]
        /\ x.bound \in BOOLEAN /\ x.tested \in BOOLEAN
    BY KindMatch
  <1>2. /\ Over(x.fails, p, 2) /\ Over(x.ends, p, 1) /\ q.scope = p.scope
        /\ q.count = IF x.bound THEN p.count + 1 ELSE p.count
    BY Zenon DEF BeganMatch
  <1>3. x = Matching(x.part, p.depth, x.bound, x.tested, x.fails, x.ends)
    BY <1>1, Zenon DEF Matching
  <1>4. QED
    BY <1>1, <1>2, <1>3, Zenon

LEMMA KindInArm ==
  ASSUME NEW x, NEW p, NEW q, BeganMatch(x, p, q), x.part \in {"guard", "body"}
  PROVE  q.depth = p.depth + 1
  <1>1. q.depth = IF x.part \in {"guard", "body"} THEN p.depth + 1 ELSE p.depth
    BY Zenon DEF BeganMatch
  <1>2. QED
    BY <1>1, Zenon

LEMMA KindBetween ==
  ASSUME NEW x, NEW p, NEW q, BeganMatch(x, p, q), x.part \in {"subject", "arms"}
  PROVE  ~x.bound /\ q.depth = p.depth /\ q.count = p.count
  <1>1. /\ q.count = IF x.bound THEN p.count + 1 ELSE p.count
        /\ q.depth = IF x.part \in {"guard", "body"} THEN p.depth + 1 ELSE p.depth
    BY Zenon DEF BeganMatch
  <1>2. ~x.bound
    BY Zenon DEF BeganMatch
  <1>3. q.count = p.count
    BY <1>1, <1>2, Zenon
  <1>4. x.part \notin {"guard", "body"}
    OBVIOUS
  <1>5. q.depth = p.depth
    BY <1>1, <1>4, Zenon
  <1>6. QED
    BY <1>2, <1>3, <1>5, Zenon

(* Where a part of a `match` has ended: the subject is below an arm's value. *)
LEMMA AtMatch ==
  ASSUME NEW g, Stands(g), Ended, Top.of = "match"
  PROVE  LET p == Before(g, Len(g))
             q == Last(g)
         IN /\ Linked(contexts, g, compiler.locals) /\ compiler.locals \in Seq(Locals)
            /\ Len(g) # 1 /\ p \in Positions /\ Holds(p, compiler.locals)
            /\ p.depth \in Nat /\ p.count \in Nat /\ p.scope \in Nat
            /\ p = g[Len(g) - 1] /\ q \in Positions /\ Holds(q, compiler.locals)
            /\ Extends(p, q) /\ BeganMatch(Top, p, q)
            /\ Len(compiler.locals) = q.count /\ Last(contexts) = Top
            /\ Reaches(compiler, q, 1, q.depth + 1, compiler.locals, q.scope)
            /\ Reaches(compiler, p, q.depth - p.depth + 1, q.depth + 1, compiler.locals,
                       q.scope)
            /\ Top.fails \in SUBSET Seq(Nat) /\ Top.ends \in SUBSET Seq(Nat)
            /\ Top.base = p.depth
  <1> DEFINE p == Before(g, Len(g))
             q == Last(g)
             L == compiler.locals
  <1>1. /\ Linked(contexts, g, L) /\ L \in Seq(Locals) /\ Len(L) = q.count
        /\ Last(contexts) = Top
        /\ Reaches(compiler, q, 1, q.depth + 1, L, q.scope)
    BY AtPosition
  <1>2. Last(contexts).of # "function"
    BY <1>1
  <1>3. /\ Len(g) # 1 /\ p \in Positions /\ Holds(p, L) /\ Extends(p, q)
        /\ p = g[Len(g) - 1] /\ Began(Last(contexts), p, q, L)
        /\ q \in Positions /\ Holds(q, L)
        /\ p.depth \in Nat /\ p.count \in Nat /\ p.scope \in Nat
    BY <1>1, <1>2, Inside
  <1>4. BeganMatch(Top, p, q)
    BY <1>1, <1>3, Kind
  <1> HIDE DEF p, q, L
  <1>5. Reaches(compiler, p, q.depth - p.depth + 1, q.depth + 1, L, q.scope)
    <2>1. 1 \in Nat
      OBVIOUS
    <2>2. QED
      BY <1>1, <1>3, <2>1, Below
  <1>6. /\ Top.fails \in SUBSET Seq(Nat) /\ Top.ends \in SUBSET Seq(Nat)
        /\ Top.base = p.depth
    BY <1>4, KindMatch
  <1>7. QED
    BY <1>1, <1>3, <1>4, <1>5, <1>6 DEF p, q, L

(* Between arms only the subject is above what was there. *)
LEMMA AtArms ==
  ASSUME NEW g, Stands(g), BetweenArms
  PROVE  LET p == Before(g, Len(g))
         IN /\ Linked(contexts, g, compiler.locals) /\ compiler.locals \in Seq(Locals)
            /\ Len(g) # 1 /\ p \in Positions /\ Holds(p, compiler.locals)
            /\ p.depth \in Nat /\ p.count \in Nat /\ p.scope \in Nat
            /\ p = g[Len(g) - 1] /\ Last(g).count = p.count
            /\ Len(compiler.locals) = p.count /\ Last(contexts) = Top /\ Top.of = "match"
            /\ Reaches(compiler, p, 1, p.depth + 1, compiler.locals, p.scope)
            /\ Top.fails \in SUBSET Seq(Nat) /\ Over(Top.fails, p, 2)
            /\ Top.ends \in SUBSET Seq(Nat) /\ Over(Top.ends, p, 1)
            /\ Top.base = p.depth
  <1> DEFINE p == Before(g, Len(g))
             q == Last(g)
             L == compiler.locals
  <1>1. Ended /\ Top.of = "match" /\ Top.part \in {"subject", "arms"}
    BY DEF BetweenArms, In
  <1>2. /\ Linked(contexts, g, L) /\ L \in Seq(Locals)
        /\ Len(g) # 1 /\ p \in Positions /\ Holds(p, L)
        /\ p.depth \in Nat /\ p.count \in Nat /\ p.scope \in Nat
        /\ p = g[Len(g) - 1]
        /\ BeganMatch(Top, p, q) /\ Len(L) = q.count /\ Last(contexts) = Top
        /\ Reaches(compiler, p, q.depth - p.depth + 1, q.depth + 1, L, q.scope)
        /\ Top.fails \in SUBSET Seq(Nat) /\ Top.ends \in SUBSET Seq(Nat)
        /\ Top.base = p.depth
    BY <1>1, AtMatch
  <1> HIDE DEF p, q, L
  <1>3. /\ Over(Top.fails, p, 2) /\ Over(Top.ends, p, 1) /\ q.scope = p.scope
        /\ q.depth = p.depth /\ q.count = p.count
    <2>1. BeganMatch(Top, p, q)
      BY <1>2
    <2>2. Over(Top.fails, p, 2) /\ Over(Top.ends, p, 1) /\ q.scope = p.scope
      BY <2>1, KindArm, Zenon
    <2>3. q.depth = p.depth /\ q.count = p.count
      BY <1>1, <2>1, KindBetween, Zenon
    <2>4. QED
      BY <2>2, <2>3
  <1>4. q.depth - p.depth + 1 = 1 /\ q.depth + 1 = p.depth + 1
    BY <1>2, <1>3
  <1>5. Reaches(compiler, p, 1, p.depth + 1, L, p.scope)
    BY <1>2, <1>3, <1>4
  <1>6. QED
    BY <1>1, <1>2, <1>3, <1>5 DEF p, q, L

(* Without a guard the depth is set to what it is. *)
LEMMA DepthStays ==
  ASSUME NEW p \in Positions, NEW q, q.depth = p.depth + 1, q.scope = p.scope,
         NEW c, NEW M, q.from = c.stacks, Reaches(c, q, 0, p.depth + 1, M, p.scope),
         NEW e, e = SetDepth(c, p.depth + 1)
  PROVE  Reaches(e, q, 0, q.depth, M, q.scope) /\ q.from = e.stacks
  <1>1. Reaches(c, q, 0, q.depth, M, q.scope) /\ q.depth \in Int
    BY DEF Positions
  <1>2. e = SetDepth(c, q.depth)
    OBVIOUS
  <1>3. QED
    BY <1>1, <1>2, SetsDepth

(* An arm's guard or body begins at q, which has the subject and perhaps a *)
(* local for it.                                                           *)
LEMMA ArmBegins ==
  ASSUME NEW g, Stands(g), BetweenArms, NEW p, p = Before(g, Len(g)),
         NEW M \in Seq(Locals), Linked(contexts, g, M),
         NEW q \in Positions, Holds(q, M), Extends(p, q),
         q.depth = p.depth + 1, q.scope = p.scope, Len(M) = q.count,
         NEW c, q.from = c.stacks, Reaches(c, q, 0, p.depth + 1, M, p.scope),
         NEW part, NEW bound \in BOOLEAN, NEW tested \in BOOLEAN,
         q.count = IF bound THEN p.count + 1 ELSE p.count,
         NEW fails \in SUBSET Seq(Nat), Over(fails, p, 2),
         NEW context, context = Matching(part, p.depth, bound, tested, fails, Top.ends),
         NEW guarded \in BOOLEAN, BeginArm(c, context, guarded)
  PROVE  SoundNext
  <1>1. /\ Linked(contexts, g, compiler.locals) /\ Len(g) # 1 /\ p \in Positions
        /\ p.depth \in Nat /\ p = g[Len(g) - 1]
        /\ Last(contexts) = Top /\ Top.of = "match" /\ Top.base = p.depth
        /\ Top.ends \in SUBSET Seq(Nat) /\ Over(Top.ends, p, 1)
    BY AtArms
  <1>2. PICK next \in {"guard", "body"}, e \in {c, SetDepth(c, p.depth + 1)} :
          /\ compiler' = e /\ expects' = "operand"
          /\ contexts' = Append(Front(contexts), WithPart(context, next))
    <2>1. CASE guarded
      BY <1>1, <2>1, Zenon DEF BeginArm, Goes, Become, WithPart
    <2>2. CASE ~guarded
      BY <1>1, <2>2, Zenon DEF BeginArm, Goes, Become, WithPart
    <2>3. QED
      BY <2>1, <2>2
  <1> DEFINE x == WithPart(context, next)
  <1>3. x = Matching(next, p.depth, bound, tested, fails, Top.ends)
    BY PartChanged
  <1> HIDE DEF x
  <1>4. Began(x, p, q, M) /\ x.of = "match"
    <2>1. q.depth = IF next \in {"guard", "body"} THEN p.depth + 1 ELSE p.depth
      BY <1>2
    <2>2. next \in {"subject", "guard", "body", "arms"} /\ next \notin {"subject", "arms"}
      BY <1>2
    <2>3. QED
      BY <1>1, <1>3, <2>1, <2>2, MatchBegan, ZenonT(60)
  <1>5. Reaches(e, q, 0, q.depth, M, q.scope) /\ q.from = e.stacks
    <2>1. CASE e = c
      BY <2>1
    <2>2. CASE e = SetDepth(c, p.depth + 1)
      <3>1. p \in Positions
        BY <1>1
      <3>2. Reaches(e, q, 0, q.depth, M, q.scope)
        BY <2>2, <3>1, DepthStays, Zenon
      <3>3. q.from = e.stacks
        BY <2>2, <3>1, DepthStays
      <3>4. QED
        BY <3>2, <3>3
    <2>3. QED
      BY <1>2, <2>1, <2>2
  <1>6. Len(g) # 1 => Extends(g[Len(g) - 1], q)
    BY <1>1
  <1>7. Began(x, Before(g, Len(g)), q, M) /\ x.of = Last(contexts).of
    BY <1>1, <1>4
  <1> HIDE DEF Before
  <1>8. Sound(e, Append(Front(contexts), x), "operand")
    BY <1>5, <1>6, <1>7, Becomes
  <1>9. QED
    BY <1>2, <1>8 DEF SoundNext, x

LEMMA AtUnbound ==
  ASSUME NEW g, Stands(g), BetweenArms
  PROVE  /\ Top = Matching(Top.part, Before(g, Len(g)).depth, Top.bound, Top.tested,
                           Top.fails, Top.ends)
         /\ Top.bound \in BOOLEAN /\ ~Top.bound /\ Top.tested \in BOOLEAN
  <1>1. Ended /\ Top.of = "match" /\ Top.part \in {"subject", "arms"}
    BY DEF BetweenArms, In
  <1>2. BeganMatch(Top, Before(g, Len(g)), Last(g))
    BY <1>1, AtMatch
  <1>3. ~Top.bound
    BY <1>1, <1>2, KindBetween, Zenon
  <1>4. QED
    BY <1>2, <1>3, KindArm, Zenon

(* An arm that binds nothing begins above the subject. *)
LEMMA ArmAbove ==
  ASSUME NEW g, Stands(g), BetweenArms, NEW p, p = Before(g, Len(g)),
         NEW c, Reaches(c, p, 1, p.depth + 1, compiler.locals, p.scope),
         NEW part, NEW bound \in BOOLEAN, ~bound, NEW tested \in BOOLEAN,
         NEW fails \in SUBSET Seq(Nat), Over(fails, p, 2),
         NEW context, context = Matching(part, p.depth, bound, tested, fails, Top.ends),
         NEW guarded \in BOOLEAN, BeginArm(c, context, guarded)
  PROVE  SoundNext
  <1> DEFINE L == compiler.locals
             q == Atop(p, 1, p.scope, c.stacks)
  <1>1. /\ Linked(contexts, g, L) /\ L \in Seq(Locals) /\ p \in Positions /\ Holds(p, L)
        /\ p.depth \in Nat /\ p.scope \in Nat /\ Len(L) = p.count
    BY AtArms
  <1> HIDE DEF L
  <1>2. p.scope <= p.scope /\ 1 \in Nat
    BY <1>1
  <1>3. /\ q \in Positions /\ Holds(q, L) /\ Extends(p, q)
        /\ q.depth = p.depth + 1 /\ q.count = p.count /\ q.scope = p.scope
        /\ q.from = c.stacks /\ Reaches(c, q, 0, p.depth + 1, L, p.scope)
    BY <1>1, <1>2, AtopFacts DEF L
  <1> HIDE DEF q
  <1>4. q.count = (IF bound THEN p.count + 1 ELSE p.count) /\ Len(L) = q.count
    <2>1. q.count = IF bound THEN p.count + 1 ELSE p.count
      BY <1>3, Zenon
    <2>2. Len(L) = q.count
      BY <1>1, <1>3
    <2>3. QED
      BY <2>1, <2>2
  <1>5. QED
    BY <1>1, <1>3, <1>4, ArmBegins, ZenonT(30)

LEMMA StepWildcard ==
  ASSUME NEW g, Stands(g), NEW guarded \in BOOLEAN, Wildcard(guarded) PROVE SoundNext
  <1> DEFINE p == Before(g, Len(g))
  <1>1. BeginArm(compiler, Top, guarded)
    BY DEF Wildcard
  <1>2. BetweenArms
    BY <1>1 DEF BeginArm
  <1>3. /\ Reaches(compiler, p, 1, p.depth + 1, compiler.locals, p.scope)
        /\ Top.fails \in SUBSET Seq(Nat) /\ Over(Top.fails, p, 2)
    BY <1>2, AtArms
  <1>4. /\ Top = Matching(Top.part, p.depth, Top.bound, Top.tested, Top.fails, Top.ends)
        /\ Top.bound \in BOOLEAN /\ ~Top.bound /\ Top.tested \in BOOLEAN
    BY <1>2, AtUnbound
  <1> HIDE DEF p
  <1>5. p = Before(g, Len(g))
    BY DEF p
  <1>6. QED
    BY <1>1, <1>2, <1>3, <1>4, <1>5, ArmAbove, ZenonT(30)

(* The subject becomes the arm's local, in the slot the match began at. *)
LEMMA StepBinding ==
  ASSUME NEW g, Stands(g), NEW guarded \in BOOLEAN, NEW name \in Names,
         Binding(name, guarded)
  PROVE  SoundNext
  <1> DEFINE p == Before(g, Len(g))
             L == compiler.locals
             no == FALSE
             yes == TRUE
             c == DeclareAtSlot(compiler, name, p.depth, no)
             x == WithBound(Top, yes)
  <1>1. BeginArm(DeclareAtSlot(compiler, name, Top.base, FALSE),
                 [Top EXCEPT !.bound = TRUE], guarded)
    BY DEF Binding
  <1>2. BetweenArms
    BY <1>1 DEF BeginArm
  <1>3. /\ Linked(contexts, g, L) /\ L \in Seq(Locals) /\ p \in Positions /\ Holds(p, L)
        /\ p.depth \in Nat /\ p.count \in Nat /\ Len(L) = p.count
        /\ Last(g).count = p.count /\ Top.base = p.depth
        /\ Reaches(compiler, p, 1, p.depth + 1, L, p.scope)
        /\ Top.fails \in SUBSET Seq(Nat) /\ Over(Top.fails, p, 2)
    BY <1>2, AtArms
  <1>4. /\ Top = Matching(Top.part, p.depth, Top.bound, Top.tested, Top.fails, Top.ends)
        /\ Top.tested \in BOOLEAN
    BY <1>2, AtUnbound
  <1> HIDE DEF p, L
  <1>5. BeginArm(c, x, guarded)
    BY <1>1, <1>3, Zenon DEF WithBound
  <1>6. no \in BOOLEAN /\ yes \in BOOLEAN /\ yes
    OBVIOUS
  <1>7. p = Before(g, Len(g))
    BY DEF p
  <1> HIDE DEF no, yes, x
  <1>8. x = Matching(Top.part, p.depth, yes, Top.tested, Top.fails, Top.ends)
    BY <1>4, BoundChanged DEF x
  <1>9. PICK M \in Seq(Locals), q \in Positions : Binds(c, p, p.depth + 1, L, q, M)
    BY <1>3, <1>6, Declares
  <1> HIDE DEF c
  <1>10. /\ Reaches(c, q, 0, p.depth + 1, M, p.scope) /\ q.from = c.stacks
         /\ Holds(q, M) /\ Extends(p, q)
         /\ q.depth = p.depth + 1 /\ q.count = p.count + 1 /\ q.scope = p.scope
         /\ Len(M) = p.count + 1 /\ \A i \in 1 .. p.count : M[i] = L[i]
    BY <1>9 DEF Binds
  <1>11. Linked(contexts, g, M)
    <2>1. Last(g).count <= Len(M) /\ \A i \in 1 .. Last(g).count : M[i] = L[i]
      BY <1>3, <1>10
    <2>2. QED
      BY <1>3, <2>1, Redeclared
  <1>12. q.count = IF yes THEN p.count + 1 ELSE p.count
    BY <1>6, <1>10, Zenon
  <1>13. Len(M) = q.count
    BY <1>10
  <1>14. Top.fails \in SUBSET Seq(Nat) /\ Over(Top.fails, p, 2)
    BY <1>3
  <1>15. Top.tested \in BOOLEAN /\ yes \in BOOLEAN
    BY <1>4, <1>6, Zenon
  <1>16. /\ Reaches(c, q, 0, p.depth + 1, M, p.scope) /\ q.from = c.stacks
         /\ Holds(q, M) /\ Extends(p, q) /\ q.depth = p.depth + 1 /\ q.scope = p.scope
    BY <1>10
  <1>17. QED
    BY <1>2, <1>5, <1>7, <1>8, <1>11, <1>12, <1>13, <1>14, <1>15, <1>16, ArmBegins,
       ZenonT(60)

LEMMA Tests ==
  ASSUME NEW p \in Positions, NEW c, NEW d \in Nat, NEW L, NEW z, Reaches(c, p, 1, d, L, z)
  PROVE  Reaches(Tested(c), p, 2, d + 1, L, z)
  <1> DEFINE a == c ++ Op("Dup")
             b == a ++ Op("Constant")
             e == b ++ Op("Equal")
  <1>1. /\ 1 \in Nat /\ 2 \in Nat /\ 3 \in Nat /\ 3 >= 2 /\ 1 + 1 = 2 /\ 2 + 1 = 3 /\ 3 - 1 = 2
        /\ d + 1 + 1 = d + 2 /\ d + 2 - 1 = d + 1
    OBVIOUS
  <1>2. Reaches(a, p, 2, d + 1, L, z)
    <2>1. Reaches(a, p, 1 + 1, d + 1, L, z)
      BY <1>1, EmitsPush
    <2> HIDE DEF a
    <2>2. QED
      BY <1>1, <2>1
  <1> HIDE DEF a
  <1>3. Reaches(b, p, 3, d + 2, L, z)
    <2>1. Reaches(b, p, 2 + 1, d + 1 + 1, L, z)
      BY <1>1, <1>2, EmitsPush
    <2> HIDE DEF b
    <2>2. QED
      BY <1>1, <2>1
  <1> HIDE DEF b
  <1>4. Reaches(e, p, 2, d + 1, L, z)
    <2>1. Reaches(e, p, 3 - 1, d + 2 - 1, L, z)
      BY <1>1, <1>3, EmitsEqual
    <2> HIDE DEF e
    <2>2. QED
      BY <1>1, <2>1
  <1>5. QED
    BY <1>4 DEF Tested, a, b

(* A pattern that matches is off the stack, and one that fails is on it. *)
LEMMA Tries ==
  ASSUME NEW p \in Positions, NEW c, NEW L, NEW z, Reaches(c, p, 2, p.depth + 2, L, z),
         NEW matched \in SUBSET Seq(Nat), Over(matched, p, 2)
  PROVE  Reaches(SetDepth(Patched(c ++ Op("JumpIfFalse"), matched), p.depth + 2)
                   ++ Op("Pop"), p, 1, p.depth + 1, L, z)
  <1> DEFINE a == c ++ Op("JumpIfFalse")
             b == Patched(a, matched)
             e == SetDepth(b, p.depth + 2)
             f == e ++ Op("Pop")
  <1>1. p.depth \in Nat /\ p.depth + 2 \in Int /\ 2 \in Nat \ {0} /\ 2 - 1 = 1
    BY DEF Positions
  <1>2. Reaches(a, p, 2, p.depth + 2, L, z)
    BY EmitsTest
  <1> HIDE DEF a
  <1>3. Reaches(b, p, 2, p.depth + 2, L, z)
    BY <1>2, Patches
  <1> HIDE DEF b
  <1>4. Reaches(e, p, 2, p.depth + 2, L, z)
    BY <1>1, <1>3, SetsDepth
  <1> HIDE DEF e
  <1>5. Reaches(f, p, 1, p.depth + 1, L, z)
    <2> DEFINE n == p.depth + 2
    <2>1. Reaches(e, p, 2, n, L, z) /\ n - 1 = p.depth + 1
      BY <1>1, <1>4
    <2> HIDE DEF n
    <2>2. Reaches(f, p, 2 - 1, n - 1, L, z)
      BY <1>1, <2>1, EmitsPop
    <2> HIDE DEF f
    <2>3. QED
      BY <1>1, <2>1, <2>2
  <1>6. QED
    BY <1>5 DEF a, b, e

LEMMA StepPattern ==
  ASSUME NEW g, Stands(g), NEW guarded \in BOOLEAN, NEW alternatives \in 1 .. 2,
         Pattern(alternatives, guarded)
  PROVE  SoundNext
  <1> DEFINE p == Before(g, Len(g))
             L == compiler.locals
             first == Tested(compiler)
             other == first ++ Op("JumpIfTrue") ++ Op("Pop")
             second == Tested(other)
             yes == TRUE
  <1>1. PICK last \in {first, second}, matched \in {{}, first.stacks} :
          BeginArm(SetDepth(Patched(last ++ Op("JumpIfFalse"), matched), Top.base + 2)
                     ++ Op("Pop"),
                   [Top EXCEPT !.tested = TRUE, !.fails = last.stacks], guarded)
    <2>1. CASE alternatives = 1
      BY <2>1, Zenon DEF Pattern
    <2>2. CASE alternatives # 1
      BY <2>2, Zenon DEF Pattern
    <2>3. QED
      BY <2>1, <2>2
  <1> DEFINE c == SetDepth(Patched(last ++ Op("JumpIfFalse"), matched), p.depth + 2)
                    ++ Op("Pop")
             x == WithFails(WithTested(Top, yes), last.stacks)
  <1>2. BetweenArms
    BY <1>1 DEF BeginArm
  <1>3. /\ p \in Positions /\ p.depth \in Nat /\ Top.base = p.depth
        /\ Reaches(compiler, p, 1, p.depth + 1, L, p.scope)
    BY <1>2, AtArms
  <1>4. /\ Top = Matching(Top.part, p.depth, Top.bound, Top.tested, Top.fails, Top.ends)
        /\ Top.bound \in BOOLEAN /\ ~Top.bound
    BY <1>2, AtUnbound
  <1>5. p = Before(g, Len(g))
    OBVIOUS
  <1>6. BeginArm(c, x, guarded)
    <2>1. x = [Top EXCEPT !.tested = TRUE, !.fails = last.stacks]
      BY Zenon DEF WithFails, WithTested
    <2> HIDE DEF x, p, yes
    <2>2. QED
      BY <1>1, <1>3, <2>1, Zenon
  <1>7. yes \in BOOLEAN
    OBVIOUS
  <1> HIDE DEF p, L, yes, x
  <1>8. x = Matching(Top.part, p.depth, Top.bound, yes, last.stacks, Top.ends)
    <2>1. WithTested(Top, yes)
          = Matching(Top.part, p.depth, Top.bound, yes, Top.fails, Top.ends)
      BY <1>4, TestedChanged
    <2>2. QED
      BY <2>1, FailsChanged DEF x
  <1>9. p.depth + 1 \in Nat /\ p.depth + 1 + 1 = p.depth + 2
    BY <1>3
  <1>10. Reaches(first, p, 2, p.depth + 2, L, p.scope)
    <2>1. Reaches(first, p, 2, p.depth + 1 + 1, L, p.scope)
      BY <1>3, <1>9, Tests
    <2> HIDE DEF first
    <2>2. QED
      BY <1>9, <2>1
  <1> HIDE DEF first
  <1>11. Reaches(other, p, 1, p.depth + 1, L, p.scope)
    <2>1. 2 \in Nat \ {0} /\ 2 - 1 = 1 /\ p.depth + 2 - 1 = p.depth + 1
      BY <1>3
    <2>2. Reaches(other, p, 2 - 1, p.depth + 2 - 1, L, p.scope)
      BY <1>3, <1>10, <2>1, DropsTested
    <2> HIDE DEF other
    <2>3. QED
      BY <2>1, <2>2
  <1> HIDE DEF other
  <1>12. Reaches(second, p, 2, p.depth + 2, L, p.scope)
    <2>1. Reaches(second, p, 2, p.depth + 1 + 1, L, p.scope)
      BY <1>3, <1>9, <1>11, Tests
    <2> HIDE DEF second
    <2>2. QED
      BY <1>9, <2>1
  <1> HIDE DEF second
  <1>13. Reaches(last, p, 2, p.depth + 2, L, p.scope)
    BY <1>1, <1>10, <1>12
  <1>14. last.stacks \in SUBSET Seq(Nat) /\ Over(last.stacks, p, 2)
    BY <1>13 DEF Reaches
  <1>15. matched \in SUBSET Seq(Nat) /\ Over(matched, p, 2)
    <2>1. first.stacks \in SUBSET Seq(Nat) /\ Over(first.stacks, p, 2)
      BY <1>10 DEF Reaches
    <2>2. QED
      BY <1>1, <2>1, NoStacks
  <1>16. Reaches(c, p, 1, p.depth + 1, L, p.scope)
    BY <1>3, <1>13, <1>15, Tries
  <1> HIDE DEF c
  <1>17. Reaches(c, p, 1, p.depth + 1, compiler.locals, p.scope)
    BY <1>16 DEF L
  <1>18. QED
    BY <1>2, <1>4, <1>5, <1>6, <1>7, <1>8, <1>14, <1>17, ArmAbove, ZenonT(30) DEF p

(* After a guard the body begins where the guard did. *)
LEMMA StepEndGuard ==
  ASSUME NEW g, Stands(g), EndGuard PROVE SoundNext
  <1> DEFINE p == Before(g, Len(g))
             q == Last(g)
             L == compiler.locals
             popped == compiler ++ Op("JumpIfFalse") ++ Op("Pop")
             c == SetDepth(popped, Top.base + 1)
             body == "body"
             yes == TRUE
             fails == Top.fails \cup compiler.stacks
             x == WithFails(WithTested(WithPart(Top, body), yes), fails)
             r == Atop(q, 0, q.scope, c.stacks)
  <1>1. /\ Ended /\ Top.of = "match" /\ Top.part = "guard"
        /\ compiler' = c /\ expects' = "operand"
        /\ contexts' = Append(Front(contexts),
                              [Top EXCEPT !.part = "body", !.tested = TRUE,
                                          !.fails = @ \cup compiler.stacks])
    BY Zenon DEF EndGuard, Part, In, Goes, Become
  <1>2. contexts' = Append(Front(contexts), x)
    <2>1. x = [Top EXCEPT !.part = "body", !.tested = TRUE, !.fails = fails]
      BY Zenon DEF WithFails, WithTested, WithPart
    <2> HIDE DEF x
    <2>2. QED
      BY <1>1, <2>1, Zenon
  <1>3. /\ Linked(contexts, g, L) /\ L \in Seq(Locals)
        /\ Len(g) # 1 /\ p \in Positions /\ p.depth \in Nat
        /\ p = g[Len(g) - 1] /\ q \in Positions /\ Holds(q, L)
        /\ Extends(p, q) /\ BeganMatch(Top, p, q)
        /\ Len(L) = q.count /\ Last(contexts) = Top
        /\ Reaches(compiler, q, 1, q.depth + 1, L, q.scope)
        /\ Reaches(compiler, p, q.depth - p.depth + 1, q.depth + 1, L, q.scope)
        /\ Top.fails \in SUBSET Seq(Nat) /\ Top.ends \in SUBSET Seq(Nat)
        /\ Top.base = p.depth
    BY <1>1, AtMatch
  <1>4. /\ Top = Matching(Top.part, p.depth, Top.bound, Top.tested, Top.fails, Top.ends)
        /\ Top.bound \in BOOLEAN
        /\ Over(Top.fails, p, 2) /\ Over(Top.ends, p, 1) /\ q.scope = p.scope
        /\ q.count = IF Top.bound THEN p.count + 1 ELSE p.count
    <2>1. BeganMatch(Top, p, q)
      BY <1>3
    <2>2. QED
      BY <2>1, KindArm, Zenon
  <1>5. q.depth = p.depth + 1
    <2>1. BeganMatch(Top, p, q) /\ Top.part \in {"guard", "body"}
      BY <1>1, <1>3
    <2>2. QED
      BY <2>1, KindInArm, Zenon
  <1> HIDE DEF p, q, L
  <1>6. yes \in BOOLEAN
    OBVIOUS
  <1> HIDE DEF yes, x, body
  <1>7. x = Matching(body, p.depth, Top.bound, yes, fails, Top.ends)
    <2>1. WithPart(Top, body)
          = Matching(body, p.depth, Top.bound, Top.tested, Top.fails, Top.ends)
      BY <1>4, PartChanged
    <2>2. WithTested(WithPart(Top, body), yes)
          = Matching(body, p.depth, Top.bound, yes, Top.fails, Top.ends)
      BY <2>1, TestedChanged
    <2>3. QED
      BY <2>2, FailsChanged DEF x
  <1>8. fails \in SUBSET Seq(Nat) /\ Over(fails, p, 2)
    <2>1. q.depth - p.depth + 1 = 2
      BY <1>3, <1>5
    <2>2. compiler.stacks \in SUBSET Seq(Nat) /\ Over(compiler.stacks, p, 2)
      BY <1>3, <2>1 DEF Reaches
    <2>3. QED
      BY <1>3, <1>4, <2>2 DEF Over
  <1> HIDE DEF fails
  <1>9. /\ 1 \in Nat \ {0} /\ 1 - 1 = 0 /\ q.depth + 1 - 1 = q.depth /\ q.depth + 0 = q.depth
        /\ Top.base + 1 = q.depth /\ q.depth \in Int /\ q.scope \in Nat /\ q.scope <= q.scope
        /\ 0 \in Nat
    BY <1>3, <1>5 DEF Positions
  <1>10. Reaches(c, q, 0, q.depth, L, q.scope)
    <2>1. Reaches(popped, q, 1 - 1, q.depth + 1 - 1, L, q.scope)
      BY <1>3, <1>9, DropsTested
    <2> HIDE DEF popped
    <2>2. QED
      BY <1>9, <2>1, SetsDepth
  <1> HIDE DEF c
  <1>11. /\ r \in Positions /\ Holds(r, L) /\ Extends(q, r)
         /\ r.depth = q.depth /\ r.count = q.count /\ r.scope = q.scope
         /\ r.from = c.stacks /\ Reaches(c, r, 0, q.depth, L, q.scope)
    <2>1. /\ r \in Positions /\ Holds(r, L) /\ Extends(q, r)
          /\ r.depth = q.depth + 0 /\ r.count = q.count /\ r.scope = q.scope
          /\ r.from = c.stacks /\ Reaches(c, r, 0, q.depth, L, q.scope)
      BY <1>3, <1>9, <1>10, AtopFacts
    <2> HIDE DEF r
    <2>2. QED
      BY <1>9, <2>1
  <1> HIDE DEF r
  <1>12. Extends(p, r)
    BY <1>3, <1>11, ExtendsFurther
  <1>13. Began(x, p, r, L) /\ x.of = "match"
    <2>1. /\ body \in {"subject", "guard", "body", "arms"}
          /\ body \in {"guard", "body"} /\ body \notin {"subject", "arms"}
      BY DEF body
    <2>2. r.depth = IF body \in {"guard", "body"} THEN p.depth + 1 ELSE p.depth
      BY <1>5, <1>11, <2>1, Zenon
    <2>3. r.count = IF Top.bound THEN p.count + 1 ELSE p.count
      BY <1>4, <1>11, Zenon
    <2>4. r.scope = p.scope
      BY <1>4, <1>11
    <2>5. QED
      BY <1>3, <1>4, <1>6, <1>7, <1>8, <2>1, <2>2, <2>3, <2>4, MatchBegan, ZenonT(120)
  <1>14. Len(g) # 1 => Extends(g[Len(g) - 1], r)
    BY <1>3, <1>12
  <1>15. Began(x, Before(g, Len(g)), r, L) /\ x.of = Last(contexts).of
    <2>1. x.of = Last(contexts).of
      BY <1>1, <1>3, <1>13
    <2>2. QED
      BY <1>13, <2>1 DEF p
  <1>16. Len(L) = r.count /\ Reaches(c, r, 0, r.depth, L, r.scope)
    BY <1>3, <1>11
  <1>17. Sound(c, Append(Front(contexts), x), "operand")
    BY <1>3, <1>11, <1>14, <1>15, <1>16, Becomes
  <1>18. QED
    BY <1>1, <1>2, <1>17 DEF SoundNext

(* When no arm matches, the value is nil. *)
LEMMA StepEndMatch ==
  ASSUME NEW g, Stands(g), EndMatch PROVE SoundNext
  <1> DEFINE p == Before(g, Len(g))
             L == compiler.locals
             deep == SetDepth(compiler, Top.base + 1)
             popped == deep ++ Op("Pop")
             unmatched == popped ++ Op("Nil")
             joined == Patched(unmatched, Top.ends)
             c == SetDepth(joined, Top.base + 1)
  <1>1. /\ BetweenArms /\ compiler' = c /\ expects' = "operator"
        /\ contexts' = Front(contexts)
    BY DEF EndMatch, Goes, Leave
  <1>2. /\ Linked(contexts, g, L) /\ L \in Seq(Locals)
        /\ Len(g) # 1 /\ p \in Positions /\ p.depth \in Nat /\ Len(L) = p.count
        /\ Reaches(compiler, p, 1, p.depth + 1, L, p.scope)
        /\ Top.ends \in SUBSET Seq(Nat) /\ Over(Top.ends, p, 1)
        /\ Top.base = p.depth
    BY <1>1, AtArms
  <1> HIDE DEF p, L
  <1>3. 1 \in Nat \ {0} /\ 1 - 1 = 0 /\ p.depth + 1 - 1 = p.depth /\ 0 + 1 = 1
        /\ p.depth + 1 \in Int
    BY <1>2
  <1>4. Reaches(deep, p, 1, p.depth + 1, L, p.scope)
    BY <1>2, <1>3, SetsDepth
  <1> HIDE DEF deep
  <1>5. Reaches(popped, p, 0, p.depth, L, p.scope)
    <2>1. Reaches(popped, p, 1 - 1, p.depth + 1 - 1, L, p.scope)
      BY <1>2, <1>3, <1>4, EmitsPop
    <2> HIDE DEF popped
    <2>2. QED
      BY <1>3, <2>1
  <1> HIDE DEF popped
  <1>6. Reaches(unmatched, p, 1, p.depth + 1, L, p.scope)
    <2>1. Reaches(unmatched, p, 0 + 1, p.depth + 1, L, p.scope)
      BY <1>2, <1>5, EmitsPush
    <2> HIDE DEF unmatched
    <2>2. QED
      BY <1>3, <2>1
  <1> HIDE DEF unmatched
  <1>7. Reaches(joined, p, 1, p.depth + 1, L, p.scope)
    BY <1>2, <1>6, Patches
  <1> HIDE DEF joined
  <1>8. Reaches(c, p, 1, p.depth + 1, L, p.scope)
    BY <1>2, <1>3, <1>7, SetsDepth
  <1> HIDE DEF c
  <1>9. Sound(c, Front(contexts), "operator")
    BY <1>2, <1>8, Leaves DEF p
  <1>10. QED
    BY <1>1, <1>9 DEF SoundNext

WithLocals(c, locals) == [c EXCEPT !.locals = locals]

LEMMA LocalsChanged ==
  \A d, T, L, z, M : WithLocals(Code(d, T, L, z), M) = Code(d, T, M, z)
  BY DEF Code, WithLocals

(* Without an arm's local there are those that were there at the match. *)
HasOuter(e, p, n, d, L) ==
  \E M \in Seq(Locals) : /\ Reaches(e, p, n, d, M, p.scope) /\ Len(M) = p.count
                         /\ \A i \in 1 .. p.count : M[i] = L[i]

LEMMA Unbinds ==
  ASSUME NEW p \in Positions, NEW L \in Seq(Locals), Holds(p, L), Len(L) = p.count + 1,
         NEW c, NEW n, NEW d, Reaches(c, p, n, d, L, p.scope),
         NEW e, e = RemoveInnermostLocal(c)
  PROVE  HasOuter(e, p, n, d, L)
  <1> DEFINE M == SubSeq(L, 1, p.count)
  <1>1. p.count \in Nat /\ p.count <= Len(L) /\ Len(L) - 1 = p.count
    BY DEF Positions, Holds
  <1>2. c.locals = L /\ L # <<>>
    BY <1>1, ReachesFacts
  <1>3. Front(L) = M
    BY <1>1 DEF Front
  <1>4. M \in Seq(Locals) /\ Len(M) = p.count /\ \A i \in 1 .. p.count : M[i] = L[i]
    BY <1>1, Prefix
  <1> HIDE DEF M
  <1>5. e = WithLocals(c, M)
    BY <1>2, <1>3 DEF RemoveInnermostLocal, WithLocals
  <1>6. c = Code(d, c.stacks, L, p.scope)
    BY DEF Reaches
  <1>7. e = Code(d, c.stacks, M, p.scope)
    BY <1>5, <1>6, LocalsChanged
  <1>8. e.stacks = c.stacks
    BY <1>7 DEF Code
  <1>9. Reaches(e, p, n, d, M, p.scope)
    BY <1>7, <1>8 DEF Reaches
  <1>10. QED
    BY <1>4, <1>9 DEF HasOuter

(* An arm ends with its value where the subject was, and who failed its    *)
(* test gets to the next arm with the subject there.                       *)
LEMMA StepEndArm ==
  ASSUME NEW g, Stands(g), EndArm PROVE SoundNext
  <1> DEFINE p == Before(g, Len(g))
             q == Last(g)
             L == compiler.locals
             unbound == IF Top.bound THEN RemoveInnermostLocal(compiler) ELSE compiler
             closed == unbound ++ OpArg("CloseScope", 1)
             result == SetDepth(closed, Top.base + 1)
             next == result ++ Op("Jump")
             failed == Patched(next, Top.fails)
             deep == SetDepth(failed, Top.base + 2)
             popped == deep ++ Op("Pop")
             c == IF Top.tested THEN popped ELSE next
             arms == "arms"
             no == FALSE
             none == {}
             ends == Top.ends \cup result.stacks
             x == WithEnds(WithFails(WithTested(WithBound(WithPart(Top, arms), no), no),
                                     none), ends)
             h == Append(Front(g), p)
             cs == Append(Front(contexts), x)
  <1>1. /\ Ended /\ Top.of = "match" /\ Top.part = "body"
        /\ compiler' = c /\ expects' = "end"
        /\ contexts' = Append(Front(contexts),
                              [Top EXCEPT !.part = "arms", !.bound = FALSE,
                                          !.tested = FALSE, !.fails = {},
                                          !.ends = @ \cup result.stacks])
    BY Zenon DEF EndArm, Part, In, Goes, Become
  <1>2. contexts' = cs
    <2>1. x = [Top EXCEPT !.part = "arms", !.bound = FALSE, !.tested = FALSE, !.fails = {},
                          !.ends = ends]
      BY Zenon DEF WithEnds, WithFails, WithTested, WithBound, WithPart
    <2> HIDE DEF x
    <2>2. QED
      BY <1>1, <2>1, Zenon
  <1>3. /\ Linked(contexts, g, L) /\ L \in Seq(Locals)
        /\ Len(g) # 1 /\ p \in Positions /\ Holds(p, L) /\ p.depth \in Nat
        /\ p.count \in Nat /\ p = g[Len(g) - 1]
        /\ BeganMatch(Top, p, q) /\ Len(L) = q.count /\ Last(contexts) = Top
        /\ Reaches(compiler, p, q.depth - p.depth + 1, q.depth + 1, L, q.scope)
        /\ Top.fails \in SUBSET Seq(Nat) /\ Top.ends \in SUBSET Seq(Nat)
        /\ Top.base = p.depth
    BY <1>1, AtMatch
  <1>4. /\ Top = Matching(Top.part, p.depth, Top.bound, Top.tested, Top.fails, Top.ends)
        /\ Top.bound \in BOOLEAN /\ Top.tested \in BOOLEAN
        /\ Over(Top.fails, p, 2) /\ Over(Top.ends, p, 1) /\ q.scope = p.scope
        /\ q.count = IF Top.bound THEN p.count + 1 ELSE p.count
    <2>1. BeganMatch(Top, p, q)
      BY <1>3
    <2>2. QED
      BY <2>1, KindArm, Zenon
  <1>5. q.depth = p.depth + 1
    <2>1. BeganMatch(Top, p, q) /\ Top.part \in {"guard", "body"}
      BY <1>1, <1>3
    <2>2. QED
      BY <2>1, KindInArm, Zenon
  <1> HIDE DEF p, q, L
  <1>6. no \in BOOLEAN /\ ~no
    OBVIOUS
  <1> HIDE DEF no, x, arms, none
  <1>7. x = Matching(arms, p.depth, no, no, none, ends)
    <2>1. WithPart(Top, arms)
          = Matching(arms, p.depth, Top.bound, Top.tested, Top.fails, Top.ends)
      BY <1>4, PartChanged
    <2>2. WithBound(WithPart(Top, arms), no)
          = Matching(arms, p.depth, no, Top.tested, Top.fails, Top.ends)
      BY <2>1, BoundChanged
    <2>3. WithTested(WithBound(WithPart(Top, arms), no), no)
          = Matching(arms, p.depth, no, no, Top.fails, Top.ends)
      BY <2>2, TestedChanged
    <2>4. WithFails(WithTested(WithBound(WithPart(Top, arms), no), no), none)
          = Matching(arms, p.depth, no, no, none, Top.ends)
      BY <2>3, FailsChanged
    <2>5. QED
      BY <2>4, EndsChanged DEF x
  <1>8. /\ q.depth - p.depth + 1 = 2 /\ q.depth + 1 = p.depth + 2 /\ 1 \in Nat /\ 2 \in Nat
        /\ 2 - 1 = 1 /\ 1 + 1 <= 2 /\ Top.base + 1 = p.depth + 1 /\ p.depth + 1 \in Int
        /\ Top.base + 2 = p.depth + 2 /\ p.depth + 2 \in Int
        /\ p.depth + 2 - 1 = p.depth + 1 /\ 2 \in Nat \ {0}
    <2>1. p.depth \in Nat /\ Top.base = p.depth
      BY <1>3
    <2>2. QED
      BY <1>5, <2>1
  <1>9. Reaches(compiler, p, 2, p.depth + 2, L, p.scope)
    BY <1>3, <1>4, <1>8
  <1>z. HasOuter(unbound, p, 2, p.depth + 2, L)
    <2>1. CASE Top.bound
      <3>1. Len(L) = p.count + 1
        BY <1>3, <1>4, <2>1, Zenon
      <3>2. unbound = RemoveInnermostLocal(compiler)
        BY <2>1, Zenon
      <3> HIDE DEF unbound
      <3>3. p \in Positions /\ L \in Seq(Locals) /\ Holds(p, L)
        BY <1>3, Zenon
      <3>4. QED
        BY <1>9, <3>1, <3>2, <3>3, Unbinds
    <2>2. CASE ~Top.bound
      <3>1. Len(L) = p.count
        BY <1>3, <1>4, <2>2, Zenon
      <3>2. unbound = compiler
        BY <2>2, Zenon
      <3> HIDE DEF unbound
      <3>3. QED
        BY <1>3, <1>9, <3>1, <3>2 DEF HasOuter
    <2>3. QED
      BY <2>1, <2>2, Zenon
  <1>10. PICK M \in Seq(Locals) :
           /\ Reaches(unbound, p, 2, p.depth + 2, M, p.scope)
           /\ Len(M) = p.count /\ \A i \in 1 .. p.count : M[i] = L[i]
    BY <1>z DEF HasOuter
  <1> HIDE DEF unbound
  <1>11. Reaches(closed, p, 1, p.depth + 2, M, p.scope)
    <2>1. Reaches(closed, p, 2 - 1, p.depth + 2, M, p.scope)
      BY <1>3, <1>8, <1>10, EmitsCloseScope
    <2> HIDE DEF closed
    <2>2. QED
      BY <1>8, <2>1
  <1> HIDE DEF closed
  <1>12. Reaches(result, p, 1, p.depth + 1, M, p.scope)
    BY <1>3, <1>8, <1>11, SetsDepth
  <1> HIDE DEF result
  <1>13. result.stacks \in SUBSET Seq(Nat) /\ Over(result.stacks, p, 1)
    BY <1>12 DEF Reaches
  <1>14. ends \in SUBSET Seq(Nat) /\ Over(ends, p, 1)
    BY <1>3, <1>4, <1>13 DEF Over
  <1> HIDE DEF ends
  <1>15. Reaches(next, p, 1, p.depth + 1, M, p.scope)
    BY <1>3, <1>12, EmitsJump
  <1>16. Reaches(popped, p, 1, p.depth + 1, M, p.scope)
    <2>1. Reaches(next, p, 2, p.depth + 1, M, p.scope)
      BY <1>3, <1>12, EmitsJump
    <2> HIDE DEF next
    <2>2. Reaches(failed, p, 2, p.depth + 1, M, p.scope)
      BY <1>3, <1>4, <2>1, Patches
    <2> HIDE DEF failed
    <2>3. Reaches(deep, p, 2, p.depth + 2, M, p.scope)
      BY <1>8, <2>2, SetsDepth
    <2> HIDE DEF deep
    <2>4. Reaches(popped, p, 2 - 1, p.depth + 2 - 1, M, p.scope)
      BY <1>3, <1>8, <2>3, EmitsPop
    <2> HIDE DEF popped
    <2>5. QED
      BY <1>8, <2>4
  <1> HIDE DEF next, popped
  <1>17. Reaches(c, p, 1, p.depth + 1, M, p.scope)
    <2>1. CASE Top.tested
      <3>1. c = popped
        BY <2>1, Zenon
      <3> HIDE DEF c
      <3>2. QED
        BY <1>16, <3>1
    <2>2. CASE ~Top.tested
      <3>1. c = next
        BY <2>2, Zenon
      <3> HIDE DEF c
      <3>2. QED
        BY <1>15, <3>1
    <2>3. QED
      BY <2>1, <2>2, Zenon
  <1> HIDE DEF c
  <1>18. Began(x, p, p, L) /\ x.of = "match"
    <2>1. /\ arms \in {"subject", "guard", "body", "arms"}
          /\ arms \notin {"guard", "body"}
      BY DEF arms
    <2>2. p.depth = IF arms \in {"guard", "body"} THEN p.depth + 1 ELSE p.depth
      BY <2>1, Zenon
    <2>3. p.count = IF no THEN p.count + 1 ELSE p.count
      BY <1>6, Zenon
    <2>4. none \in SUBSET Seq(Nat) /\ Over(none, p, 2)
      BY NoStacks DEF none
    <2>5. QED
      BY <1>6, <1>7, <1>14, <2>1, <2>2, <2>3, <2>4, MatchBegan, ZenonT(30)
  <1>19. Linked(cs, h, L) /\ Last(h) = p
    <2>1. Len(g) # 1 => Extends(g[Len(g) - 1], p)
      <3>1. Extends(p, p)
        BY <1>3, ExtendsSelf
      <3>2. QED
        BY <1>3, <3>1
    <2>2. Began(x, Before(g, Len(g)), p, L)
      BY <1>18 DEF p
    <2>3. x.of = Last(contexts).of
      BY <1>1, <1>3, <1>18
    <2>4. Linked(cs, h, L)
      BY <1>3, <2>1, <2>2, <2>3, Became
    <2>5. IsSequence(g) /\ Len(g) # 0
      BY <1>3, LinkedFacts
    <2>6. IsSequence(Front(g)) /\ Len(h) = Len(Front(g)) + 1 /\ h[Len(Front(g)) + 1] = p
      BY <2>5, FrontOf, Appended
    <2>7. QED
      BY <2>4, <2>6 DEF Last
  <1> HIDE DEF h, cs
  <1>20. Linked(cs, h, M)
    <2>1. Last(h).count <= Len(M) /\ \A i \in 1 .. Last(h).count : M[i] = L[i]
      BY <1>3, <1>10, <1>19
    <2>2. QED
      BY <1>19, <2>1, Redeclared
  <1>21. Sound(c, cs, "end")
    BY <1>10, <1>17, <1>19, <1>20, Yields
  <1>22. QED
    BY <1>1, <1>2, <1>21 DEF SoundNext
-----------------------------------------------------------------------------
(* The number of contexts *)

(* What one step may do to the contexts; only where there is room are      *)
(* there more.                                                             *)
Follows(cs, ds) ==
  \/ ds = cs
  \/ ds = Front(cs)
  \/ \E x : ds = Append(Front(cs), x)
  \/ \E n, x : ds = [cs EXCEPT ![n] = x]
  \/ Len(cs) < NestingMax /\ \E x : ds = Append(cs, x)
  \/ Len(cs) < NestingMax /\ \E x, y : ds = Front(cs) \o <<x, y>>

LEMMA Fits ==
  ASSUME NEW cs, IsSequence(cs), Len(cs) # 0, Len(cs) <= NestingMax,
         NEW ds, Follows(cs, ds)
  PROVE  Len(ds) <= NestingMax
  <1>1. /\ Len(cs) \in Nat \ {0} /\ NestingMax \in Nat /\ IsSequence(Front(cs))
        /\ Len(Front(cs)) = Len(cs) - 1
    BY FrontOf, CodegenAssumption
  <1>2. CASE ds = cs \/ ds = Front(cs)
    BY <1>1, <1>2
  <1>3. CASE \E x : ds = Append(Front(cs), x)
    <2>1. PICK x : ds = Append(Front(cs), x)
      BY <1>3
    <2>2. Len(ds) = Len(Front(cs)) + 1
      BY <1>1, <2>1, Appended
    <2>3. QED
      BY <1>1, <2>2
  <1>4. CASE \E n, x : ds = [cs EXCEPT ![n] = x]
    <2>1. PICK n, x : ds = [cs EXCEPT ![n] = x]
      BY <1>4
    <2> DEFINE S == {cs[i] : i \in DOMAIN cs}
    <2>2. cs \in Seq(S)
      BY DEF IsSequence
    <2> HIDE DEF S
    <2>3. ds \in [1 .. Len(cs) -> S \cup {x}]
      <3>1. cs \in [1 .. Len(cs) -> S]
        BY <2>2
      <3>2. QED
        BY <2>1, <3>1, Zenon
    <2>4. ds \in Seq(S \cup {x}) /\ Len(ds) = Len(cs)
      BY <1>1, <2>3
    <2>5. QED
      BY <2>4
  <1>5. CASE Len(cs) < NestingMax /\ \E x : ds = Append(cs, x)
    <2>1. PICK x : ds = Append(cs, x)
      BY <1>5
    <2>2. Len(ds) = Len(cs) + 1
      BY <2>1, Appended
    <2>3. QED
      BY <1>1, <1>5, <2>2
  <1>6. CASE Len(cs) < NestingMax /\ \E x, y : ds = Front(cs) \o <<x, y>>
    <2>1. PICK x, y : ds = Front(cs) \o <<x, y>>
      BY <1>6
    <2>2. ds = Append(Append(Front(cs), x), y)
      BY <1>1, <2>1, TwoAppended
    <2>3. IsSequence(Append(Front(cs), x)) /\ Len(Append(Front(cs), x)) = Len(cs) - 1 + 1
      BY <1>1, Appended
    <2>4. Len(ds) = Len(cs) - 1 + 1 + 1
      BY <2>2, <2>3, Appended
    <2>5. QED
      BY <1>1, <1>6, <2>4
  <1>7. QED
    BY <1>2, <1>3, <1>4, <1>5, <1>6 DEF Follows

LEMMA NextFollows ==
  ASSUME CodegenNext PROVE Follows(contexts, contexts')
  <1>1. CASE \/ Literal \/ BareReturn \/ EmptyMap \/ Continue
             \/ \E name \in Names : Variable(name) \/ DeclareParam(name)
    BY <1>1, Zenon DEF Literal, BareReturn, EmptyMap, Continue, Variable, DeclareParam, Follows
  <1>2. CASE \/ EndAssignment \/ EndDeclaration \/ EndReturn \/ EndBinary \/ EndLogic
             \/ EndCall \/ EndMap \/ EndBlock \/ NoElse \/ EndElse \/ EndWhile \/ EndMatch
    BY <1>2, Zenon DEF EndAssignment, EndDeclaration, EndReturn, EndBinary, EndLogic,
       EndCall, EndMap, EndBlock, NoElse, EndElse, EndWhile, EndMatch, Leave, Follows
  <1>3. CASE NextItem \/ Finish \/ NextArgument \/ NextField \/ EndGuard
    BY <1>3, Zenon DEF NextItem, Finish, NextArgument, NextField, EndGuard, Become, Follows
  <1>4. CASE EndArm
    BY <1>4, Zenon DEF EndArm, Become, Follows
  <1>5. CASE \E guarded \in BOOLEAN :
               \/ Wildcard(guarded)
               \/ \E name \in Names : Binding(name, guarded)
               \/ \E alternatives \in 1 .. 2 : Pattern(alternatives, guarded)
    <2>1. ASSUME NEW c, NEW x, NEW guarded, BeginArm(c, x, guarded)
          PROVE  Follows(contexts, contexts')
      BY <2>1, Zenon DEF BeginArm, Become, Follows
    <2>2. QED
      BY <1>5, <2>1, Zenon DEF Wildcard, Binding, Pattern
  <1>6. CASE Break
    BY <1>6, Zenon DEF Break, Follows
  <1>7. CASE \/ BeginBlock \/ BeginReturn \/ BeginBinary \/ BeginAnd \/ BeginOr \/ BeginMap
             \/ BeginIf \/ BeginWhile \/ BeginMatch
             \/ \E name \in Names : BeginAssignment(name)
             \/ \E name \in Names, mutable \in BOOLEAN : BeginDeclaration(name, mutable)
             \/ \E method \in BOOLEAN : BeginCall(method)
    <2>1. ASSUME NEW x, Enter(x) PROVE Follows(contexts, contexts')
      BY <2>1, Zenon DEF Enter, HasRoom, Follows
    <2>2. QED
      BY <1>7, <2>1, Zenon DEF BeginBlock, BeginReturn, BeginBinary, BeginAnd, BeginOr,
         BeginMap, BeginIf, BeginWhile, BeginMatch, BeginAssignment, BeginDeclaration, BeginCall
  <1>8. CASE BeginThen \/ BeginElse \/ BeginElseIf \/ BeginLoopBody
    <2>1. ASSUME NEW x, NEW y, HasRoom, contexts' = Front(contexts) \o <<x, y>>
          PROVE  Follows(contexts, contexts')
      BY <2>1, Zenon DEF HasRoom, Follows
    <2>2. QED
      BY <1>8, <2>1, Zenon DEF BeginThen, BeginElse, BeginElseIf, BeginLoopBody, OpenBlock
  <1>9. QED
    BY <1>1, <1>2, <1>3, <1>4, <1>5, <1>6, <1>7, <1>8, Zenon DEF CodegenNext
-----------------------------------------------------------------------------
(* The invariant *)

LEMMA InitSound == ASSUME CodegenInit PROVE CodegenInv
  <1> DEFINE no == FALSE
             x == [of |-> "function", begun |-> no]
  <1>1. compiler = NoCode /\ contexts = <<x>> /\ expects = "operand"
    BY DEF CodegenInit
  <1>2. no \in BOOLEAN
    OBVIOUS
  <1> HIDE DEF no
  <1>3. contexts \in Seq({x}) /\ Len(contexts) = 1 /\ contexts[1] = x
    <2> HIDE DEF x
    <2>1. QED
      BY <1>1
  <1>4. IsSequence(contexts)
    BY <1>3, IsSequenceOf
  <1>5. contexts[1] = [of |-> "function", begun |-> no]
    BY <1>3
  <1> HIDE DEF x
  <1>6. Sound(NoCode, contexts, "operand")
    BY <1>2, <1>3, <1>4, <1>5, Alone
  <1>7. 1 <= NestingMax
    BY CodegenAssumption
  <1>8. QED
    BY <1>1, <1>3, <1>6, <1>7 DEF CodegenInv

LEMMA NextSound ==
  ASSUME ~Scattered, NEW g, Stands(g), compiler.depth <= SlotWidth, CodegenNext
  PROVE  SoundNext
  <1>1. CASE Literal BY <1>1, StepLiteral
  <1>2. ASSUME NEW name \in Names, Variable(name) PROVE SoundNext BY <1>2, StepVariable
  <1>3. ASSUME NEW name \in Names, BeginAssignment(name) PROVE SoundNext
    BY <1>3, StepBeginAssignment
  <1>4. ASSUME NEW name \in Names, DeclareParam(name) PROVE SoundNext
    BY <1>4, StepDeclareParam
  <1>5. ASSUME NEW name \in Names, NEW mutable \in BOOLEAN, BeginDeclaration(name, mutable)
        PROVE  SoundNext
    BY <1>5, StepBeginDeclaration
  <1>6. CASE EndAssignment BY <1>6, StepEndAssignment
  <1>7. CASE EndDeclaration BY <1>7, StepEndDeclaration
  <1>8. CASE NextItem BY <1>8, StepNextItem
  <1>9. CASE BeginBlock BY <1>9, StepBeginBlock
  <1>10. CASE EndBlock BY <1>10, StepEndBlock
  <1>11. CASE Finish BY <1>11, StepFinish
  <1>12. CASE BareReturn BY <1>12, StepBareReturn
  <1>13. CASE BeginReturn BY <1>13, StepBeginReturn
  <1>14. CASE EndReturn BY <1>14, StepEndReturn
  <1>15. CASE BeginBinary BY <1>15, StepBeginBinary
  <1>16. CASE EndBinary BY <1>16, StepEndBinary
  <1>17. CASE BeginAnd \/ BeginOr BY <1>17, StepBeginLogic
  <1>18. CASE EndLogic BY <1>18, StepEndLogic
  <1>19. ASSUME NEW method \in BOOLEAN, BeginCall(method) PROVE SoundNext
    BY <1>19, StepBeginCall
  <1>20. CASE NextArgument BY <1>20, StepNextArgument
  <1>21. CASE EndCall BY <1>21, StepEndCall
  <1>22. CASE EmptyMap BY <1>22, StepEmptyMap
  <1>23. CASE BeginMap BY <1>23, StepBeginMap
  <1>24. CASE NextField BY <1>24, StepNextField
  <1>25. CASE EndMap BY <1>25, StepEndMap
  <1>26. CASE BeginIf BY <1>26, StepBeginIf
  <1>27. CASE BeginThen BY <1>27, StepBeginThen
  <1>28. CASE NoElse BY <1>28, StepNoElse
  <1>29. CASE BeginElse BY <1>29, StepBeginElse
  <1>30. CASE BeginElseIf BY <1>30, StepBeginElseIf
  <1>31. CASE EndElse BY <1>31, StepEndElse
  <1>32. CASE BeginWhile BY <1>32, StepBeginWhile
  <1>33. CASE BeginLoopBody BY <1>33, StepBeginLoopBody
  <1>34. CASE EndWhile BY <1>34, StepEndWhile
  <1>35. CASE Break BY <1>35, StepBreak
  <1>36. CASE Continue BY <1>36, StepContinue
  <1>37. CASE BeginMatch BY <1>37, StepBeginMatch
  <1>38. ASSUME NEW guarded \in BOOLEAN, Wildcard(guarded) PROVE SoundNext
    BY <1>38, StepWildcard
  <1>39. ASSUME NEW guarded \in BOOLEAN, NEW name \in Names, Binding(name, guarded)
         PROVE  SoundNext
    BY <1>39, StepBinding
  <1>40. ASSUME NEW guarded \in BOOLEAN, NEW alternatives \in 1 .. 2,
                Pattern(alternatives, guarded)
         PROVE  SoundNext
    BY <1>40, StepPattern
  <1>41. CASE EndGuard BY <1>41, StepEndGuard
  <1>42. CASE EndArm BY <1>42, StepEndArm
  <1>43. CASE EndMatch BY <1>43, StepEndMatch
  <1>44. QED
    BY <1>1, <1>2, <1>3, <1>4, <1>5, <1>6, <1>7, <1>8, <1>9, <1>10, <1>11, <1>12, <1>13,
       <1>14, <1>15, <1>16, <1>17, <1>18, <1>19, <1>20, <1>21, <1>22, <1>23, <1>24, <1>25,
       <1>26, <1>27, <1>28, <1>29, <1>30, <1>31, <1>32, <1>33, <1>34, <1>35, <1>36, <1>37,
       <1>38, <1>39, <1>40, <1>41, <1>42, <1>43, Zenon DEF CodegenNext

LEMMA StepSound ==
  ASSUME ~Scattered, CodegenInv, compiler.depth <= SlotWidth, [CodegenNext]_codegenVars
  PROVE  CodegenInv'
  <1>1. CASE UNCHANGED codegenVars
    <2>1. compiler' = compiler /\ contexts' = contexts /\ expects' = expects
      BY <1>1 DEF codegenVars
    <2>2. QED
      BY <2>1 DEF CodegenInv
  <1>2. CASE CodegenNext
    <2>1. PICK g : Stands(g)
      BY DEF CodegenInv, Sound, Stands
    <2>2. SoundNext
      BY <1>2, <2>1, NextSound
    <2>3. IsSequence(contexts) /\ Len(contexts) # 0
      <3>1. Linked(contexts, g, compiler.locals)
        BY <2>1 DEF Stands
      <3>2. QED
        BY <3>1, LinkedFacts
    <2>4. Len(contexts') <= NestingMax
      BY <1>2, <2>3, NextFollows, Fits DEF CodegenInv
    <2>5. QED
      BY <2>2, <2>4 DEF CodegenInv, SoundNext
  <1>3. QED
    BY <1>1, <1>2

LEMMA InvHolds ==
  ASSUME ~Scattered
  PROVE  CodegenSpec /\ [](compiler.depth <= SlotWidth) => []CodegenInv
  <1>1. CodegenInit => CodegenInv
    BY InitSound
  <1>2. CodegenInv /\ compiler.depth <= SlotWidth /\ [CodegenNext]_codegenVars => CodegenInv'
    BY StepSound
  <1>3. QED
    BY <1>1, <1>2, PTL DEF CodegenSpec

LEMMA InvIsTyped == ASSUME CodegenInv PROVE CodegenTypeOK
  <1>1. PICK g : Stands(g)
    BY DEF CodegenInv, Sound, Stands
  <1>2. /\ Linked(contexts, g, compiler.locals) /\ compiler.locals \in Seq(Locals)
        /\ Last(g).depth \in Nat /\ Last(g).scope \in Nat
    BY <1>1, AtPosition
  <1>3. /\ Len(contexts) \in Nat \ {0} /\ Last(g) = g[Len(g)]
    BY <1>2, LinkedFacts
  <1>4. IsAt(compiler, Last(g), expects)
    BY <1>1, <1>3 DEF Stands
  <1>5. /\ expects \in {"operand", "operator", "end"} /\ compiler.stacks \in SUBSET Seq(Nat)
        /\ compiler = Code(compiler.depth, compiler.stacks, compiler.locals, Last(g).scope)
    BY <1>4 DEF IsAt
  <1>6. compiler.scopeDepth \in Nat
    BY <1>2, <1>5 DEF Code
  <1>7. compiler.depth \in Nat
    BY <1>2, <1>4 DEF IsAt
  <1>8. \A i \in DOMAIN compiler.locals : compiler.locals[i] \in Locals
    BY <1>2
  <1>9. Len(contexts) \in 1 .. NestingMax
    BY <1>3, CodegenAssumption DEF CodegenInv
  <1>10. QED
    BY <1>5, <1>6, <1>7, <1>8, <1>9 DEF CodegenTypeOK

(* All the stacks are above the position, and none has strayed. *)
LEMMA InvKnowsHeight == ASSUME CodegenInv PROVE HeightIsKnown
  <1>1. PICK g : Stands(g)
    BY DEF CodegenInv, Sound, Stands
  <1> DEFINE p == Last(g)
  <1>2. p \in Positions /\ p.depth \in Nat
    BY <1>1, AtPosition
  <1>3. CASE Operand
    <2>1. /\ compiler.depth = p.depth
          /\ Reaches(compiler, p, 0, p.depth, compiler.locals, p.scope)
      BY <1>1, <1>3, AtPosition
    <2> HIDE DEF p
    <2>2. /\ \A s \in compiler.stacks : Len(s) = p.depth + 0
          /\ compiler.strayed = {}
      BY <1>2, <2>1, ReachesFacts
    <2>3. QED
      BY <1>2, <2>1, <2>2 DEF HeightIsKnown
  <1>4. CASE Ended
    <2>1. /\ compiler.depth = p.depth + 1
          /\ Reaches(compiler, p, 1, p.depth + 1, compiler.locals, p.scope)
      BY <1>1, <1>4, AtPosition
    <2> HIDE DEF p
    <2>2. /\ \A s \in compiler.stacks : Len(s) = p.depth + 1
          /\ compiler.strayed = {}
      BY <1>2, <2>1, ReachesFacts
    <2>3. QED
      BY <2>1, <2>2 DEF HeightIsKnown
  <1>5. QED
    BY <1>3, <1>4 DEF Operand, Ended

(* The stacks begin as one that is at the position, which has the locals. *)
LEMMA InvHasLocals ==
  ASSUME CodegenInv, compiler.depth <= SlotWidth PROVE LocalsInSlots
  <1>1. PICK g : Stands(g)
    BY DEF CodegenInv, Sound, Stands
  <1> DEFINE p == Last(g)
             L == compiler.locals
  <1>2. /\ p \in Positions /\ p.depth \in Nat /\ p.count \in Nat /\ L \in Seq(Locals)
        /\ Len(L) = p.count /\ Holds(p, L)
    BY <1>1, AtPosition
  <1>3. PICK n \in Nat : /\ Over(compiler.stacks, p, n)
                         /\ compiler.depth = p.depth + n
    <2>1. CASE Operand
      <3>1. /\ compiler.depth = p.depth
            /\ Reaches(compiler, p, 0, p.depth, L, p.scope)
        BY <1>1, <2>1, AtPosition
      <3> HIDE DEF p, L
      <3>2. Over(compiler.stacks, p, 0) /\ compiler.depth = p.depth + 0
        BY <1>2, <3>1 DEF Reaches
      <3>3. QED
        BY <3>2
    <2>2. CASE Ended
      <3>1. /\ compiler.depth = p.depth + 1
            /\ Reaches(compiler, p, 1, p.depth + 1, L, p.scope)
        BY <1>1, <2>2, AtPosition
      <3> HIDE DEF p, L
      <3>2. Over(compiler.stacks, p, 1)
        BY <3>1 DEF Reaches
      <3>3. QED
        BY <3>1, <3>2
    <2>3. QED
      BY <2>1, <2>2 DEF Operand, Ended
  <1> HIDE DEF p, L
  <1>4. SUFFICES ASSUME NEW s \in compiler.stacks, NEW i \in DOMAIN L
                 PROVE  /\ Byte(L[i].slot) < Len(s)
                        /\ s[Byte(L[i].slot) + 1] = L[i].variable
    BY DEF LocalsInSlots, L
  <1>5. i \in 1 .. p.count /\ L[i] \in Locals /\ L[i].slot \in Nat
    <2>1. i \in 1 .. p.count /\ L[i] \in Locals
      BY <1>2
    <2>2. L[i].slot \in Nat
      BY <2>1, Zenon DEF Locals
    <2>3. QED
      BY <2>1, <2>2
  <1>6. L[i].slot < p.depth /\ \A t \in p.from : t[L[i].slot + 1] = L[i].variable
    BY <1>2, <1>5 DEF Holds
  <1>7. s \in Seq(Nat) /\ Len(s) = p.depth + n /\ SubSeq(s, 1, p.depth) \in p.from
    BY <1>3 DEF Over
  <1>8. Byte(L[i].slot) = L[i].slot
    <2>1. SlotWidth \in Nat \ {0}
      BY CodegenAssumption
    <2>2. L[i].slot < SlotWidth
      BY <1>2, <1>3, <1>5, <1>6, <2>1
    <2>3. QED
      BY <1>5, <2>2, ByteOf
  <1>9. SubSeq(s, 1, p.depth)[L[i].slot + 1] = s[L[i].slot + 1]
    <2>1. L[i].slot + 1 \in 1 .. p.depth
      BY <1>2, <1>5, <1>6
    <2>2. p.depth <= Len(s) /\ p.depth <= p.depth
      BY <1>2, <1>7
    <2>3. QED
      BY <1>2, <1>7, <2>1, <2>2, Beginning
  <1>10. s[L[i].slot + 1] = L[i].variable
    BY <1>6, <1>7, <1>9
  <1>11. L[i].slot < Len(s)
    BY <1>2, <1>3, <1>5, <1>6, <1>7
  <1>12. QED
    BY <1>8, <1>10, <1>11
-----------------------------------------------------------------------------
(* The theorems.  Both hypotheses are needed.  A declaration inside an     *)
(* expression makes a local above temporaries that come off the stack      *)
(* below it.  From a depth above SlotWidth on, namedVariable cuts the slot *)
(* of an assignment, which then changes another value; a loop may so go    *)
(* back with a stack it was not begun with.                                *)

(* parser.cpp and compiler.cpp keep a depth, scopes, locals and nested     *)
(* constructs that are what they should be, whatever the program: no       *)
(* branch, join or unwinding takes the depth below zero.                   *)
THEOREM TypeCorrect ==
  ASSUME ~Scattered
  PROVE  CodegenSpec /\ [](compiler.depth <= SlotWidth) => []CodegenTypeOK
  <1>1. CodegenInv => CodegenTypeOK
    BY InvIsTyped
  <1>2. QED
    BY <1>1, InvHolds, PTL

(* However if, while, match, break, continue, return, and blocks nest, the *)
(* depth that compiler.cpp tracks (setStackDepth at each branch and join)  *)
(* is the height of the stack on every path the VM may take to the next    *)
(* instruction, and loops go back with a stack they were begun with.       *)
THEOREM HeightAlwaysKnown ==
  ASSUME ~Scattered
  PROVE  CodegenSpec /\ [](compiler.depth <= SlotWidth) => []HeightIsKnown
  <1>1. CodegenInv => HeightIsKnown
    BY InvKnowsHeight
  <1>2. QED
    BY <1>1, InvHolds, PTL

(* On every path each local in scope (declareLocal, declareLocalAtSlot,    *)
(* declareParam) is in the slot that GetLocal's and SetLocal's operand     *)
(* byte names.                                                             *)
THEOREM LocalsAlwaysInSlots ==
  ASSUME ~Scattered
  PROVE  CodegenSpec /\ [](compiler.depth <= SlotWidth) => []LocalsInSlots
  <1>1. CodegenInv /\ compiler.depth <= SlotWidth => LocalsInSlots
    BY InvHasLocals
  <1>2. QED
    BY <1>1, InvHolds, PTL
=============================================================================
