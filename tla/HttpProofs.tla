----------------------------- MODULE HttpProofs -----------------------------
(***************************************************************************)
(* Proofs about Request and Serve, for requests of any length with any     *)
(* number of headers, limits of any size, any way the network cuts them    *)
(* into fragments, and files of any length: requestParse takes a request   *)
(* for complete where it ends, and has then what the client sent, as far   *)
(* as there is room for it; and the client gets the part of the file that  *)
(* it asked for.                                                           *)
(*                                                                         *)
(* The argument follows the request from its first character to its last.  *)
(* What the parser has after each character of it (ParsedOf) is known by   *)
(* induction over its parts: the line, the headers with their names and    *)
(* values in the pool, the end of the head, the body.  That a fragment     *)
(* goes on where the one before it ended (FragmentRead) is what makes this *)
(* hold however recv returns them.  The provers see through few arithmetic *)
(* expressions within a fact they have to instantiate; several definitions *)
(* below are there to give such an expression a name.                      *)
(*                                                                         *)
(* The answer is short beside that.  What is wanted of a file is a span of *)
(* its characters, and a Range header that is clear is clamped to it       *)
(* (RangesAre); AnswerAt says of each place of the handler what the client *)
(* has so far, the first m of the l characters the head has promised.      *)
(***************************************************************************)
EXTENDS Serve, FiniteSetTheorems, SequenceTheorems, WellFoundedInduction, TLAPS

\* The order of the numbers, for the least of a set of them and for induction.
LEMMA NatLess == IsWellFoundedOn({ss \in Nat \X Nat : ss[1] < ss[2]}, Nat)
BY NatLessThanWellFounded DEF OpToRel

\* A set of numbers has a least one.
LEMMA LeastElement ==
  ASSUME NEW T, T \subseteq Nat, T # {}
  PROVE  \E x \in T : \A y \in T : x <= y
<1> DEFINE R == {ss \in Nat \X Nat : ss[1] < ss[2]}
<1>1. IsWellFoundedOn(R, Nat)
  BY NatLess
<1>2. PICK x \in T : \A y \in T : ~ (<<y, x>> \in R)
  <2> HIDE DEF R
  <2> QED
    BY <1>1, WFMin
<1>3. ASSUME NEW y \in T PROVE x <= y
  <2>1. ~(y < x)
    BY <1>2
  <2> QED
    BY <2>1
<1> QED
  BY <1>3

\* Induction, for the sets a proof defines.
LEMMA SetInduction ==
  ASSUME NEW T, 0 \in T, \A n \in Nat : n \in T => n + 1 \in T
  PROVE  Nat \subseteq T
<1> DEFINE F == Nat \ T
<1>1. SUFFICES ASSUME F # {} PROVE FALSE
  OBVIOUS
<1>2. PICK x \in F : \A y \in F : x <= y
  BY <1>1, LeastElement
<1>3. x - 1 \in Nat /\ x - 1 \notin F
  BY <1>2
<1> QED
  BY <1>2, <1>3

\* A sequence in parts.
LEMMA Joined ==
  ASSUME NEW T, NEW s \in Seq(T), NEW t \in Seq(T)
  PROVE  /\ s \o t \in Seq(T) /\ Len(s \o t) = Len(s) + Len(t)
         /\ \A k \in 1 .. Len(s) : (s \o t)[k] = s[k]
         /\ \A k \in 1 .. Len(t) : (s \o t)[Len(s) + k] = t[k]
<1>1. s \o t \in Seq(T) /\ Len(s \o t) = Len(s) + Len(t)
  OBVIOUS
<1>2. ASSUME NEW k \in 1 .. Len(s) PROVE (s \o t)[k] = s[k]
  OBVIOUS
<1>3. ASSUME NEW k \in 1 .. Len(t) PROVE (s \o t)[Len(s) + k] = t[k]
  <2>1. PICK a \in Nat, b \in Nat : a = Len(s) /\ b = Len(t)
    OBVIOUS
  <2>2. a + k \in 1 .. a + b /\ ~(a + k <= a) /\ (a + k) - a = k
    BY <2>1
  <2> QED
    BY <2>1, <2>2
<1> QED
  BY <1>1, <1>2, <1>3
---------------------------------------------------------------------------
(* The loop of requestParse.                                               *)

ParseLoop(f, r, s) ==
  f = [k \in 0 .. Len(s) |-> IF k = 0 THEN r ELSE ParseChar(f[k - 1], s[k])]

\* What the parser has after each character.
ParsedOf(r, s) == CHOOSE f : ParseLoop(f, r, s)

\* The function requestParse is defined by exists.
LEMMA ParseLoopExists ==
  ASSUME NEW r, NEW s, NEW m \in Nat, Len(s) = m
  PROVE  \E f : ParseLoop(f, r, s)
<1> DEFINE P(k, f) == f[0] = r /\ \A i \in 1 .. k : f[i] = ParseChar(f[i - 1], s[i])
           T == {k \in Nat : k <= m => \E f : P(k, f)}
<1>1. 0 \in T
  <2>1. P(0, [i \in 0 .. m |-> r])
    OBVIOUS
  <2> QED
    BY <2>1
<1>2. ASSUME NEW k \in Nat, k \in T PROVE k + 1 \in T
  <2>1. SUFFICES ASSUME k + 1 <= m PROVE \E f : P(k + 1, f)
    OBVIOUS
  <2>2. PICK f : P(k, f)
    BY <1>2, <2>1
  <2>6. PICK x : x = ParseChar(f[k], s[k + 1])
    OBVIOUS
  <2> DEFINE h == [i \in 0 .. m |-> IF i = k + 1 THEN x ELSE f[i]]
  <2>4. h[0] = r
    BY <2>2
  <2>5. ASSUME NEW i \in 1 .. k + 1 PROVE h[i] = ParseChar(h[i - 1], s[i])
    <3>1. CASE i = k + 1
      <4>1. h[i] = x /\ h[i - 1] = f[k]
        BY <2>1, <3>1
      <4> QED
        BY <2>6, <3>1, <4>1
    <3>2. CASE i \in 1 .. k
      <4>1. h[i] = f[i] /\ h[i - 1] = f[i - 1]
        BY <2>1, <3>2
      <4> QED
        BY <2>2, <3>2, <4>1
    <3> QED
      BY <3>1, <3>2
  <2> HIDE DEF h
  <2> QED
    BY <2>4, <2>5
<1>3. m \in T
  <2> HIDE DEF T
  <2> QED
    BY <1>1, <1>2, SetInduction
<1>4. PICK f : P(m, f)
  BY <1>3
<1> DEFINE g == [i \in 0 .. m |-> f[i]]
<1>5. ASSUME NEW i \in 0 .. m PROVE g[i] = IF i = 0 THEN r ELSE ParseChar(g[i - 1], s[i])
  <2>1. CASE i = 0
    BY <1>4, <2>1
  <2>2. CASE i # 0
    <3>1. i \in 1 .. m /\ i - 1 \in 0 .. m
      BY <2>2
    <3>2. g[i] = f[i] /\ g[i - 1] = f[i - 1]
      BY <3>1
    <3> QED
      BY <1>4, <2>2, <3>1, <3>2
  <2> QED
    BY <2>1, <2>2
<1>6. g = [i \in 0 .. m |-> g[i]]
  OBVIOUS
<1> HIDE DEF g
<1>7. g = [i \in 0 .. m |-> IF i = 0 THEN r ELSE ParseChar(g[i - 1], s[i])]
  BY <1>5, <1>6
<1> QED
  BY <1>7 DEF ParseLoop

\* What there is at a place.
Place(f, k) == f[k]

\* What the parser has, by its steps.
Steps(f, s, m) == \A k \in 0 .. m - 1 : f[k + 1] = ParseChar(f[k], s[k + 1])

\* It begins with the request as it is, and each character is a step.
LEMMA ParsedSteps ==
  ASSUME NEW r, NEW s, Len(s) \in Nat
  PROVE  /\ requestParse(r, s) = Place(ParsedOf(r, s), Len(s))
         /\ ParsedOf(r, s)[0] = r
         /\ Steps(ParsedOf(r, s), s, Len(s))
<1>0. PICK m \in Nat : m = Len(s)
  OBVIOUS
<1>1. requestParse(r, s) = Place(ParsedOf(r, s), Len(s))
  BY DEF requestParse, ParsedOf, ParseLoop, Place
<1>2. PICK f : f = ParsedOf(r, s) /\ ParseLoop(f, r, s)
  BY ParseLoopExists DEF ParsedOf
<1>3. \A k \in 0 .. m : f[k] = IF k = 0 THEN r ELSE ParseChar(f[k - 1], s[k])
  BY <1>0, <1>2 DEF ParseLoop
<1>4. f[0] = r
  BY <1>3
<1>5. ASSUME NEW k \in 0 .. m - 1 PROVE f[k + 1] = ParseChar(f[k], s[k + 1])
  <2>1. PICK j \in 0 .. m : j = k + 1 /\ j # 0 /\ j - 1 = k
    OBVIOUS
  <2>2. f[j] = ParseChar(f[j - 1], s[j])
    BY <1>3, <2>1
  <2> QED
    BY <2>1, <2>2
<1>6. Steps(f, s, m)
  BY <1>5 DEF Steps
<1> QED
  BY <1>0, <1>1, <1>2, <1>4, <1>6

\* The same, up to a place.
Agree(f, g, m) == \A k \in 0 .. m : f[k] = g[k]

\* Two that begin alike and take the same steps are alike.
LEMMA StepsAgree ==
  ASSUME NEW f, NEW g, NEW s, NEW m \in Nat, f[0] = g[0], Steps(f, s, m), Steps(g, s, m)
  PROVE  Agree(f, g, m)
<1> DEFINE T == {k \in Nat : k <= m => f[k] = g[k]}
<1>1. 0 \in T
  OBVIOUS
<1>2. ASSUME NEW k \in Nat, k \in T PROVE k + 1 \in T
  <2>1. SUFFICES ASSUME k + 1 <= m PROVE f[k + 1] = g[k + 1]
    OBVIOUS
  <2>2. k \in 0 .. m - 1
    BY <2>1
  <2>3. f[k] = g[k]
    BY <1>2, <2>1
  <2>4. f[k + 1] = ParseChar(f[k], s[k + 1]) /\ g[k + 1] = ParseChar(g[k], s[k + 1])
    BY <2>2 DEF Steps
  <2> QED
    BY <2>3, <2>4
<1> HIDE DEF T
<1>3. \A k \in 0 .. m : k \in T
  BY <1>1, <1>2, SetInduction
<1> QED
  BY <1>3 DEF T, Agree

\* From a place on.
After(f, a, m) == [k \in 0 .. m |-> f[a + k]]

\* A fragment and the next one are parsed as both together: this is what makes
\* recv free to cut where it likes.
LEMMA ParsedBoth ==
  ASSUME NEW r, NEW T, NEW s \in Seq(T), NEW t \in Seq(T)
  PROVE  /\ Agree(ParsedOf(r, s \o t), ParsedOf(r, s), Len(s))
         /\ Agree(After(ParsedOf(r, s \o t), Len(s), Len(t)), ParsedOf(requestParse(r, s), t), Len(t))
<1>1. PICK a \in Nat, b \in Nat : a = Len(s) /\ b = Len(t)
  OBVIOUS
<1>2. PICK u : u = s \o t
  OBVIOUS
<1>3. /\ Len(u) = a + b
      /\ \A k \in 1 .. a : u[k] = s[k]
      /\ \A k \in 1 .. b : u[a + k] = t[k]
  BY <1>1, <1>2, Joined
<1>7. PICK f : f = ParsedOf(r, u)
  OBVIOUS
<1>8. PICK c \in Nat : c = a + b
  OBVIOUS
<1>9. f[0] = r /\ Steps(f, u, c)
  BY <1>3, <1>7, <1>8, ParsedSteps
<1>4. Agree(f, ParsedOf(r, s), a)
  <2>2. ParsedOf(r, s)[0] = r /\ Steps(ParsedOf(r, s), s, a)
    BY <1>1, ParsedSteps
  <2>3. Steps(f, s, a)
    <3>1. ASSUME NEW k \in 0 .. a - 1 PROVE f[k + 1] = ParseChar(f[k], s[k + 1])
      <4>1. k \in 0 .. c - 1 /\ k + 1 \in 1 .. a
        BY <1>8
      <4> QED
        BY <1>3, <1>9, <4>1 DEF Steps
    <3> QED
      BY <3>1 DEF Steps
  <2> QED
    BY <1>9, <2>2, <2>3, StepsAgree
<1>5. requestParse(r, s) = f[a]
  <2>1. requestParse(r, s) = ParsedOf(r, s)[a]
    BY <1>1, ParsedSteps DEF Place
  <2>2. a \in 0 .. a
    OBVIOUS
  <2> QED
    BY <1>4, <2>1, <2>2 DEF Agree
<1>6. Agree(After(f, a, b), ParsedOf(requestParse(r, s), t), b)
  <2> DEFINE g == After(f, a, b)
  <2>0. \A k \in 0 .. b : g[k] = f[a + k]
    BY DEF After
  <2> HIDE DEF g
  <2>1. g[0] = requestParse(r, s)
    <3>1. a + 0 = a /\ 0 \in 0 .. b
      OBVIOUS
    <3> QED
      BY <1>5, <2>0, <3>1
  <2>2. ASSUME NEW k \in 0 .. b - 1 PROVE g[k + 1] = ParseChar(g[k], t[k + 1])
    <3>1. PICK j \in 0 .. c - 1 : j = a + k /\ j + 1 = a + (k + 1)
      BY <1>8
    <3>2. f[j + 1] = ParseChar(f[j], u[j + 1])
      BY <1>9 DEF Steps
    <3>3. k + 1 \in 1 .. b /\ k \in 0 .. b /\ k + 1 \in 0 .. b
      OBVIOUS
    <3>5. u[j + 1] = t[k + 1]
      BY <1>3, <3>1, <3>3
    <3>4. g[k] = f[j] /\ g[k + 1] = f[j + 1]
      BY <2>0, <3>1, <3>3
    <3> QED
      BY <3>2, <3>5, <3>4
  <2>3. Steps(g, t, b)
    BY <2>2 DEF Steps
  <2>4. ParsedOf(requestParse(r, s), t)[0] = requestParse(r, s)
        /\ Steps(ParsedOf(requestParse(r, s), t), t, b)
    BY <1>1, ParsedSteps
  <2>5. Agree(g, ParsedOf(requestParse(r, s), t), b)
    BY <2>1, <2>3, <2>4, StepsAgree
  <2> QED
    BY <2>5 DEF g
<1> QED
  BY <1>1, <1>2, <1>4, <1>6, <1>7

\* Sequences, in parts.
Joins(s, t) == s \o t
One(c) == <<c>>
Two(c, d) == <<c, d>>

\* So two fragments are parsed as one.
LEMMA ParsedJoin ==
  ASSUME NEW r, NEW T, NEW s \in Seq(T), NEW t \in Seq(T)
  PROVE  requestParse(r, Joins(s, t)) = requestParse(requestParse(r, s), t)
<1>1. PICK a \in Nat, b \in Nat : a = Len(s) /\ b = Len(t)
  OBVIOUS
<1>2. s \o t \in Seq(T) /\ Len(s \o t) = a + b
  BY <1>1, Joined
<1>3. PICK u : u = s \o t
  OBVIOUS
<1>4. PICK p : p = requestParse(r, s)
  OBVIOUS
<1>5. requestParse(r, u) = ParsedOf(r, u)[a + b]
  <2>1. Len(u) = a + b /\ Len(u) \in Nat
    BY <1>2, <1>3
  <2>2. requestParse(r, u) = Place(ParsedOf(r, u), Len(u))
    BY <2>1, ParsedSteps
  <2> QED
    BY <2>1, <2>2 DEF Place
<1>6. requestParse(p, t) = ParsedOf(p, t)[b]
  BY <1>1, ParsedSteps DEF Place
<1>7. Agree(After(ParsedOf(r, u), a, b), ParsedOf(p, t), b)
  BY <1>1, <1>3, <1>4, ParsedBoth
<1>8. b \in 0 .. b /\ After(ParsedOf(r, u), a, b)[b] = ParsedOf(r, u)[a + b]
  BY DEF After
<1> QED
  BY <1>3, <1>4, <1>5, <1>6, <1>7, <1>8 DEF Agree, Joins

LEMMA Single ==
  ASSUME NEW T, NEW c \in T
  PROVE  <<c>> \in Seq(T) /\ Len(<<c>>) = 1 /\ <<c>>[1] = c
OBVIOUS

LEMMA Pair ==
  ASSUME NEW T, NEW c \in T, NEW d \in T
  PROVE  <<c, d>> \in Seq(T) /\ <<c, d>> = <<c>> \o <<d>>
<1>1. <<c, d>> \in Seq(T) /\ Len(<<c, d>>) = 2 /\ <<c, d>>[1] = c /\ <<c, d>>[2] = d
  OBVIOUS
<1>2. PICK s \in Seq(T) : s = <<c>>
  BY Single
<1>3. PICK t \in Seq(T) : t = <<d>>
  BY Single
<1>4. s \o t \in Seq(T) /\ Len(s \o t) = 2 /\ (s \o t)[1] = c /\ (s \o t)[2] = d
  BY <1>2, <1>3, Single
<1>5. PICK u \in Seq(T) : u = <<c, d>>
  BY <1>1
<1>6. PICK v \in Seq(T) : v = s \o t
  BY <1>4
<1>8. ASSUME NEW i \in 1 .. 2 PROVE u[i] = v[i]
  BY <1>1, <1>4, <1>5, <1>6
<1>9. Len(u) = 2 /\ Len(v) = 2
  BY <1>1, <1>4, <1>5, <1>6
<1>7. u = v
  BY <1>8, <1>9, SeqEqual
<1> QED
  BY <1>1, <1>2, <1>3, <1>5, <1>6, <1>7

\* A fragment of one character, and of two.
LEMMA ParsedOne ==
  ASSUME NEW r, NEW T, NEW c \in T
  PROVE  requestParse(r, One(c)) = ParseChar(r, c)
<1>1. PICK s : s = <<c>>
  OBVIOUS
<1>2. Len(s) = 1 /\ s[1] = c /\ Len(s) \in Nat
  BY <1>1, Single
<1>5. /\ requestParse(r, s) = Place(ParsedOf(r, s), Len(s)) /\ ParsedOf(r, s)[0] = r
      /\ Steps(ParsedOf(r, s), s, Len(s))
  BY <1>2, ParsedSteps
<1>3. /\ requestParse(r, s) = Place(ParsedOf(r, s), 1) /\ ParsedOf(r, s)[0] = r
      /\ Steps(ParsedOf(r, s), s, 1)
  BY <1>2, <1>5
<1>4. ParsedOf(r, s)[1] = ParseChar(ParsedOf(r, s)[0], s[1])
  <2>1. 0 \in 0 .. 1 - 1 /\ 0 + 1 = 1
    OBVIOUS
  <2> QED
    BY <1>3, <2>1 DEF Steps
<1> QED
  BY <1>1, <1>2, <1>3, <1>4 DEF Place, One

LEMMA ParsedTwo ==
  ASSUME NEW r, NEW T, NEW c \in T, NEW d \in T
  PROVE  requestParse(r, Two(c, d)) = ParseChar(ParseChar(r, c), d)
<1>1. PICK s \in Seq(T) : s = One(c)
  BY Single DEF One
<1>2. PICK t \in Seq(T) : t = One(d)
  BY Single DEF One
<1>4. Joins(s, t) = Two(c, d)
  BY <1>1, <1>2, Pair DEF Joins, One, Two
<1>3. requestParse(r, Joins(s, t)) = requestParse(requestParse(r, s), t)
  BY ParsedJoin
<1>5. requestParse(r, s) = ParseChar(r, c) /\ \A q : requestParse(q, t) = ParseChar(q, d)
  BY <1>1, <1>2, ParsedOne
<1> QED
  BY <1>1, <1>2, <1>3, <1>4, <1>5

Begins(t, s, n) == \A i \in 1 .. n : t[i] = s[i]
Ends(u, s, t) == \A i \in 1 .. Len(t) : u[Len(s) + i] = t[i]

\* What two sequences joined are, with their arithmetic out of sight.
LEMMA JoinedParts ==
  ASSUME NEW T, NEW s \in Seq(T), NEW t \in Seq(T)
  PROVE  /\ Joins(s, t) \in Seq(T) /\ Len(Joins(s, t)) = Len(s) + Len(t)
         /\ Begins(Joins(s, t), s, Len(s)) /\ Ends(Joins(s, t), s, t)
<1>1. s \o t \in Seq(T) /\ Len(s \o t) = Len(s) + Len(t)
  BY Joined
<1>2. \A k \in 1 .. Len(s) : (s \o t)[k] = s[k]
  BY Joined
<1>3. \A k \in 1 .. Len(t) : (s \o t)[Len(s) + k] = t[k]
  BY Joined
<1> QED
  BY <1>1, <1>2, <1>3 DEF Joins, Begins, Ends

Chars == Nat

\* One more character, and two.
LEMMA ParsedMore ==
  ASSUME NEW r, NEW s \in Seq(Chars), NEW c \in Chars
  PROVE  /\ Joins(s, One(c)) \in Seq(Chars)
         /\ requestParse(r, Joins(s, One(c))) = ParseChar(requestParse(r, s), c)
<1>1. PICK t \in Seq(Chars) : t = One(c)
  BY Single DEF One
<1>3. Joins(s, t) \in Seq(Chars)
  BY JoinedParts
<1>4. requestParse(r, Joins(s, t)) = requestParse(requestParse(r, s), t)
  BY ParsedJoin
<1>6. PICK q : q = requestParse(r, s)
  OBVIOUS
<1>7. requestParse(q, t) = ParseChar(q, c)
  BY <1>1, ParsedOne
<1> QED
  BY <1>1, <1>3, <1>4, <1>6, <1>7

\* Two characters after a fragment.
LEMMA ParsedTwoMore ==
  ASSUME NEW r, NEW s \in Seq(Chars), NEW c \in Chars, NEW d \in Chars
  PROVE  /\ Joins(s, Two(c, d)) \in Seq(Chars)
         /\ requestParse(r, Joins(s, Two(c, d))) = ParseChar(ParseChar(requestParse(r, s), c), d)
<1>2. PICK u \in Seq(Chars) : u = Two(c, d)
  BY Pair DEF Two
<1>3. Joins(s, u) \in Seq(Chars)
  BY JoinedParts
<1>5. requestParse(r, Joins(s, u)) = requestParse(requestParse(r, s), u)
  BY ParsedJoin
<1>6. PICK q : q = requestParse(r, s)
  OBVIOUS
<1>8. requestParse(q, u) = ParseChar(ParseChar(q, c), d)
  BY <1>2, ParsedTwo
<1> QED
  BY <1>2, <1>3, <1>5, <1>6, <1>8
---------------------------------------------------------------------------
(* The method, the path and the version.                                   *)

Fields == {"state", "method", "path", "pathDecoded", "version", "headers", "header", "string",
           "pool", "headersStringPoolOffset", "body", "capacity", "warnings"}

IsRequest(r) == DOMAIN r = Fields /\ r = [x \in Fields |-> r[x]]

LineFields == {"method", "path", "version"}

KeptSoFar(r, field, x, ws) == [r EXCEPT ![field] = x, !.warnings = ws]

Also(ws, w) == ws \cup {w}
Longer(x, c) == Append(x, c)
Room(x, max) == Len(x) < max

\* How much of a string is kept, and when that is not all.
Least(k, max) == IF k < max THEN k ELSE max
Beyond(k, max, ws, w) == IF k <= max THEN ws ELSE ws \cup {w}

\* A character more: there is room for it, or the warning is set.
LEMMA KeptStep ==
  ASSUME NEW r, IsRequest(r), NEW field \in LineFields, NEW x, NEW ws, NEW max \in Nat, NEW w, NEW c
  PROVE  /\ Room(x, max) =>
              Kept(KeptSoFar(r, field, x, ws), field, max, w, c) = KeptSoFar(r, field, Longer(x, c), ws)
         /\ ~Room(x, max) =>
              Kept(KeptSoFar(r, field, x, ws), field, max, w, c) = KeptSoFar(r, field, x, Also(ws, w))
<1>1. PICK q : q = KeptSoFar(r, field, x, ws)
  OBVIOUS
<1>2. field \in Fields /\ "warnings" \in Fields /\ field # "warnings"
  BY DEF LineFields, Fields
<1>3. q[field] = x /\ q.warnings = ws
  BY <1>1, <1>2 DEF KeptSoFar, IsRequest
<1>4. [q EXCEPT ![field] = Append(@, c)] = KeptSoFar(r, field, Append(x, c), ws)
  BY <1>1, <1>2, <1>3 DEF KeptSoFar, IsRequest
<1>5. [q EXCEPT !.warnings = @ \cup {w}] = KeptSoFar(r, field, x, Also(ws, w))
  BY <1>1, <1>2, <1>3 DEF KeptSoFar, IsRequest, Also
<1>6. CASE Room(x, max)
  BY <1>1, <1>3, <1>4, <1>6 DEF Kept, Longer, Room
<1>7. CASE ~Room(x, max)
  BY <1>1, <1>3, <1>5, <1>7 DEF Kept, Room
<1> QED
  BY <1>6, <1>7

\* A state in which a character goes to a field.
Takes(st, field, max, w, c) == \A q : q.state = st => ParseChar(q, c) = Kept(q, field, max, w, c)

TakesAll(st, field, max, w, s) == \A k \in 1 .. Len(s) : Takes(st, field, max, w, s[k])
Bare(r, field, st, ws) == r[field] = <<>> /\ r.state = st /\ r.warnings = ws

LEMMA Prefix ==
  ASSUME NEW T, NEW s \in Seq(T), NEW n \in Nat, n <= Len(s)
  PROVE  /\ SubSeq(s, 1, n) \in Seq(T) /\ Len(SubSeq(s, 1, n)) = n
         /\ \A i \in 1 .. n : SubSeq(s, 1, n)[i] = s[i]
         /\ n < Len(s) => Append(SubSeq(s, 1, n), s[n + 1]) = SubSeq(s, 1, n + 1)
OBVIOUS

\* All characters of the method, the path or the version: what has room of them.
LEMMA KeptLoop ==
  ASSUME NEW r, IsRequest(r), NEW field \in LineFields, NEW st, NEW ws0, Bare(r, field, st, ws0),
         NEW max \in Chars, NEW w, NEW s \in Seq(Chars),
         TakesAll(st, field, max, w, s)
  PROVE  requestParse(r, s)
         = KeptSoFar(r, field, Shorter(s, max), Beyond(Len(s), max, ws0, w))
<1>0. PICK mx \in Nat : mx = max /\ r[field] = <<>> /\ r.state = st /\ r.warnings = ws0
  BY DEF Chars, Bare
<1> DEFINE P(k) == KeptSoFar(r, field, SubSeq(s, 1, Least(k, mx)), Beyond(k, mx, ws0, w))
<1>1. PICK m \in Nat : m = Len(s)
  OBVIOUS
<1>2. PICK f : f = ParsedOf(r, s)
  OBVIOUS
<1>3. f[0] = r /\ Steps(f, s, m) /\ requestParse(r, s) = Place(f, m)
  BY <1>1, <1>2, ParsedSteps
<1>4. f[0] = P(0)
  <2>1. Least(0, mx) = 0 /\ Beyond(0, mx, ws0, w) = ws0
    BY DEF Least, Beyond
  <2>2. SubSeq(s, 1, 0) = <<>>
    BY SubSeqEmpty
  <2>3. r = KeptSoFar(r, field, r[field], r.warnings)
    <3>1. field \in Fields /\ "warnings" \in Fields /\ field # "warnings"
      BY DEF LineFields, Fields
    <3> QED
      BY <3>1 DEF KeptSoFar, IsRequest
  <2> QED
    BY <1>0, <1>3, <2>1, <2>2, <2>3
<1>5. ASSUME NEW k \in 0 .. m - 1, f[k] = P(k) PROVE f[k + 1] = P(k + 1)
  <2>1. f[k + 1] = ParseChar(f[k], s[k + 1])
    BY <1>3 DEF Steps
  <2>2. k + 1 \in 1 .. Len(s)
    BY <1>1
  <2>3. PICK n \in Nat : n = Least(k, mx) /\ n <= m
    BY DEF Least
  <2>4. PICK x : x = SubSeq(s, 1, n)
    OBVIOUS
  <2>5. PICK ws : ws = Beyond(k, mx, ws0, w)
    OBVIOUS
  <2>6. f[k] = KeptSoFar(r, field, x, ws)
    BY <1>5, <2>3, <2>4, <2>5
  <2>7. f[k].state = st
    <3>1. field # "state" /\ "state" \in Fields
      BY DEF LineFields, Fields
    <3> QED
      BY <1>0, <2>6, <3>1 DEF KeptSoFar, IsRequest
  <2>8. Takes(st, field, mx, w, s[k + 1])
    BY <1>0, <2>2 DEF TakesAll
  <2>9. f[k + 1] = Kept(KeptSoFar(r, field, x, ws), field, mx, w, s[k + 1])
    BY <2>1, <2>6, <2>7, <2>8 DEF Takes
  <2>10. Len(x) = n
    BY <1>1, <2>3, <2>4, Prefix
  <2>11. CASE k < mx
    <3>1. n = k /\ Least(k + 1, mx) = k + 1 /\ Beyond(k + 1, mx, ws0, w) = ws
      BY <2>3, <2>5, <2>11 DEF Least, Beyond
    <3>2. Append(x, s[k + 1]) = SubSeq(s, 1, k + 1)
      BY <1>1, <2>4, <3>1, Prefix
    <3>3. f[k + 1] = KeptSoFar(r, field, Append(x, s[k + 1]), ws)
      <4>1. Room(x, mx)
        BY <2>10, <2>11, <3>1 DEF Room
      <4>2. PICK c : c = s[k + 1]
        OBVIOUS
      <4>3. f[k + 1] = Kept(KeptSoFar(r, field, x, ws), field, mx, w, c)
        BY <2>9, <4>2
      <4>4. Kept(KeptSoFar(r, field, x, ws), field, mx, w, c) = KeptSoFar(r, field, Append(x, c), ws)
        <5>1. Kept(KeptSoFar(r, field, x, ws), field, mx, w, c) = KeptSoFar(r, field, Longer(x, c), ws)
          BY <4>1, KeptStep
        <5> QED
          BY <5>1 DEF Longer
      <4> QED
        BY <4>2, <4>3, <4>4
    <3> QED
      BY <3>1, <3>2, <3>3
  <2>12. CASE ~(k < mx)
    <3>1. n = mx /\ Least(k + 1, mx) = n /\ Beyond(k + 1, mx, ws0, w) = Also(ws, w)
      BY <2>3, <2>5, <2>12 DEF Least, Beyond, Also
    <3>2. f[k + 1] = KeptSoFar(r, field, x, Also(ws, w))
      <4>1. ~Room(x, mx)
        BY <2>10, <3>1 DEF Room
      <4> QED
        BY <2>9, <4>1, KeptStep
    <3> QED
      BY <2>4, <3>1, <3>2
  <2> QED
    BY <2>11, <2>12
<1> DEFINE S == {k \in Nat : k <= m => f[k] = P(k)}
<1>6. 0 \in S
  BY <1>4
<1>7. ASSUME NEW k \in Nat, k \in S PROVE k + 1 \in S
  <2>1. CASE k + 1 <= m
    <3>1. k \in 0 .. m - 1 /\ k <= m
      BY <2>1
    <3>2. f[k] = P(k)
      BY <1>7, <3>1
    <3>3. f[k + 1] = P(k + 1)
      BY <1>5, <3>1, <3>2
    <3> QED
      BY <3>3
  <2> QED
    BY <2>1
<1>8. m \in S
  <2> HIDE DEF S
  <2> QED
    BY <1>6, <1>7, SetInduction
<1>9. requestParse(r, s) = P(m)
  BY <1>3, <1>8 DEF Place
<1> QED
  BY <1>0, <1>1, <1>9 DEF Least, Shorter
---------------------------------------------------------------------------
(* What is written one after the other.                                    *)

\* The parts up to each one, together.
Flattens(g, s, T) ==
  /\ g[0] = <<>>
  /\ \A k \in 0 .. Len(s) : g[k] \in Seq(T)
  /\ \A k \in 0 .. Len(s) - 1 : g[k + 1] = Joins(g[k], s[k + 1])

\* FlattenSeq, as a function of the number of sequences it joins.
LEMMA FlattensExists ==
  ASSUME NEW T, NEW s \in Seq(Seq(T))
  PROVE  \E g : Flattens(g, s, T)
<1>0. PICK m \in Nat : m = Len(s)
  OBVIOUS
<1> DEFINE P(n, g) == /\ g[0] = <<>> /\ \A k \in 0 .. n : g[k] \in Seq(T)
                      /\ \A k \in 0 .. n - 1 : g[k + 1] = Joins(g[k], s[k + 1])
           S == {n \in Nat : n <= m => \E g : P(n, g)}
<1>1. 0 \in S
  <2>1. P(0, [i \in 0 .. m |-> <<>>])
    OBVIOUS
  <2> QED
    BY <2>1
<1>2. ASSUME NEW n \in Nat, n \in S PROVE n + 1 \in S
  <2>1. SUFFICES ASSUME n + 1 <= m PROVE \E g : P(n + 1, g)
    OBVIOUS
  <2>2. PICK g : P(n, g)
    BY <1>2, <2>1
  <2>3. PICK x \in Seq(T) : x = Joins(g[n], s[n + 1])
    <3>1. g[n] \in Seq(T) /\ s[n + 1] \in Seq(T)
      BY <1>0, <2>1, <2>2
    <3>2. PICK a \in Seq(T), b \in Seq(T) : a = g[n] /\ b = s[n + 1]
      BY <3>1
    <3>3. a \o b \in Seq(T)
      OBVIOUS
    <3> QED
      BY <3>2, <3>3 DEF Joins
  <2> DEFINE h == [i \in 0 .. m |-> IF i = n + 1 THEN x ELSE g[i]]
  <2>4. h[0] = <<>>
    BY <2>2
  <2>5. ASSUME NEW k \in 0 .. n + 1 PROVE h[k] \in Seq(T)
    BY <2>1, <2>2
  <2>6. ASSUME NEW k \in 0 .. (n + 1) - 1 PROVE h[k + 1] = Joins(h[k], s[k + 1])
    <3>0. h[k] = g[k]
      BY <2>1
    <3>1. CASE k = n
      BY <2>1, <2>3, <3>0, <3>1
    <3>2. CASE k \in 0 .. n - 1
      <4>1. h[k + 1] = g[k + 1]
        BY <2>1, <3>2
      <4> QED
        BY <2>2, <3>0, <3>2, <4>1
    <3> QED
      BY <3>1, <3>2
  <2> HIDE DEF h
  <2> QED
    BY <2>4, <2>5, <2>6
<1>3. m \in S
  <2> HIDE DEF S
  <2> QED
    BY <1>1, <1>2, SetInduction
<1> QED
  BY <1>0, <1>3 DEF Flattens

FlatLoop(f, s) ==
  f = [i \in 1 .. Len(s) |-> IF i = 1 THEN s[i] ELSE f[i - 1] \o s[i]]

\* It is FlattenSeq.
LEMMA FlattensIs ==
  ASSUME NEW T, NEW s \in Seq(Seq(T)), NEW g, Flattens(g, s, T)
  PROVE  FlattenSeq(s) = Place(g, Len(s))
<1>0. PICK m \in Nat : m = Len(s)
  OBVIOUS
<1>1. g[0] = <<>> /\ \A k \in 0 .. m : g[k] \in Seq(T)
  BY <1>0 DEF Flattens
<1>2. \A k \in 0 .. m - 1 : g[k + 1] = Joins(g[k], s[k + 1])
  BY <1>0 DEF Flattens
<1>3. CASE m = 0
  <2>1. s = <<>>
    BY <1>0, <1>3, EmptySeq
  <2>2. FlattenSeq(s) = s
    BY <1>0, <1>3 DEF FlattenSeq
  <2> QED
    BY <1>0, <1>1, <1>3, <2>1, <2>2 DEF Place
<1>4. CASE m # 0
  <2> DEFINE h == [i \in 1 .. m |-> g[i]]
  <2>1. ASSUME NEW i \in 1 .. m PROVE h[i] = IF i = 1 THEN s[i] ELSE h[i - 1] \o s[i]
    <3>1. PICK k \in 0 .. m - 1 : k = i - 1 /\ k + 1 = i
      OBVIOUS
    <3>2. h[i] = Joins(g[k], s[i])
      BY <1>2, <3>1
    <3>3. CASE i = 1
      <4>1. g[k] = <<>> /\ s[i] \in Seq(T)
        BY <1>0, <1>1, <3>1, <3>3
      <4> QED
        BY <3>2, <3>3, <4>1 DEF Joins
    <3>4. CASE i # 1
      <4>1. h[i - 1] = g[k]
        BY <3>1, <3>4
      <4> QED
        BY <3>2, <3>4, <4>1 DEF Joins
    <3> QED
      BY <3>3, <3>4
  <2>2. h = [i \in 1 .. m |-> h[i]]
    OBVIOUS
  <2>3. h[m] = g[m]
    BY <1>4
  <2> HIDE DEF h
  <2>4. FlatLoop(h, s)
    BY <1>0, <2>1, <2>2 DEF FlatLoop
  <2>5. PICK f : f = (CHOOSE x : FlatLoop(x, s)) /\ FlatLoop(f, s)
    BY <2>4
  <2>6. \A i \in 1 .. m : f[i] = IF i = 1 THEN s[i] ELSE f[i - 1] \o s[i]
    BY <1>0, <2>5 DEF FlatLoop
  <2>7. \A i \in 1 .. m : h[i] = IF i = 1 THEN s[i] ELSE h[i - 1] \o s[i]
    BY <2>1
  <2> DEFINE S == {k \in Nat : k + 1 <= m => f[k + 1] = h[k + 1]}
  <2>8. 0 \in S
    BY <1>4, <2>6, <2>7
  <2>9. ASSUME NEW k \in Nat, k \in S PROVE k + 1 \in S
    <3>1. SUFFICES ASSUME (k + 1) + 1 <= m PROVE f[(k + 1) + 1] = h[(k + 1) + 1]
      OBVIOUS
    <3>2. PICK i \in 1 .. m : i = (k + 1) + 1 /\ i # 1 /\ i - 1 = k + 1
      BY <3>1
    <3>3. f[k + 1] = h[k + 1]
      BY <2>9, <3>1
    <3>4. f[i] = f[i - 1] \o s[i] /\ h[i] = h[i - 1] \o s[i]
      BY <2>6, <2>7, <3>2
    <3> QED
      BY <3>2, <3>3, <3>4
  <2>10. \A k \in Nat : k \in S
    <3> HIDE DEF S
    <3> QED
      BY <2>8, <2>9, SetInduction
  <2>11. f[m] = h[m]
    <3>1. m - 1 \in Nat /\ (m - 1) + 1 = m
      BY <1>4
    <3>2. m - 1 \in S
      BY <2>10, <3>1
    <3> QED
      BY <3>1, <3>2
  <2>12. FlattenSeq(s) = f[m]
    BY <1>0, <1>4, <2>5 DEF FlattenSeq, FlatLoop
  <2> QED
    BY <1>0, <2>3, <2>11, <2>12 DEF Place
<1> QED
  BY <1>3, <1>4

LEMMA PrefixBegins ==
  ASSUME NEW S, NEW s \in Seq(S), NEW n \in Nat, n <= Len(s)
  PROVE  \E t \in Seq(S) : t = SubSeq(s, 1, n) /\ Len(t) = n /\ Begins(t, s, n)
<1>1. SubSeq(s, 1, n) \in Seq(S) /\ Len(SubSeq(s, 1, n)) = n
  OBVIOUS
<1>2. Begins(SubSeq(s, 1, n), s, n)
  BY DEF Begins
<1> QED
  BY <1>1, <1>2

\* Of the first few sequences, too.
LEMMA FlattensPrefix ==
  ASSUME NEW T, NEW s \in Seq(Seq(T)), NEW g, Flattens(g, s, T), NEW n \in Nat, n <= Len(s)
  PROVE  FlattenSeq(SubSeq(s, 1, n)) = Place(g, n)
<1>0. PICK m \in Nat : m = Len(s) /\ n <= m
  OBVIOUS
<1>1. PICK t \in Seq(Seq(T)) : t = SubSeq(s, 1, n) /\ Len(t) = n /\ Begins(t, s, n)
  BY PrefixBegins
<1>2. Flattens(g, t, T)
  <2>1. g[0] = <<>> /\ \A k \in 0 .. m : g[k] \in Seq(T)
    BY <1>0 DEF Flattens
  <2>2. \A k \in 0 .. m - 1 : g[k + 1] = Joins(g[k], s[k + 1])
    BY <1>0 DEF Flattens
  <2>3. ASSUME NEW k \in 0 .. n - 1 PROVE g[k + 1] = Joins(g[k], t[k + 1])
    <3>1. k \in 0 .. m - 1 /\ k + 1 \in 1 .. n
      BY <1>0
    <3>2. t[k + 1] = s[k + 1]
      BY <1>1, <3>1 DEF Begins
    <3> QED
      BY <2>2, <3>1, <3>2
  <2>4. \A k \in 0 .. n : g[k] \in Seq(T)
    BY <1>0, <2>1
  <2> QED
    BY <1>1, <2>1, <2>3, <2>4 DEF Flattens
<1>3. FlattenSeq(t) = Place(g, Len(t))
  BY <1>2, FlattensIs
<1> QED
  BY <1>1, <1>3

LenAt(g, k) == Len(g[k])

\* A part is where the ones before it end.
PartAt(g, s, n, m) == \A i \in 1 .. LenAt(s, n + 1) : g[m][LenAt(g, n) + i] = s[n + 1][i]
Longest(g, s, n) == LenAt(g, n + 1) = LenAt(g, n) + LenAt(s, n + 1)

\* Where each of the sequences is.
LEMMA FlattensPart ==
  ASSUME NEW T, NEW s \in Seq(Seq(T)), NEW g, Flattens(g, s, T), NEW n \in Nat, n + 1 <= Len(s)
  PROVE  /\ g[n] \in Seq(T) /\ g[n + 1] \in Seq(T) /\ s[n + 1] \in Seq(T)
         /\ LenAt(g, n) \in Nat /\ LenAt(s, n + 1) \in Nat /\ Longest(g, s, n)
         /\ \A m \in Nat : n + 1 <= m /\ m <= Len(s) => PartAt(g, s, n, m)
<1>0. PICK l \in Nat : l = Len(s) /\ n + 1 <= l
  OBVIOUS
<1>1. \A k \in 0 .. l : g[k] \in Seq(T)
  BY <1>0 DEF Flattens
<1>2. \A k \in 0 .. l - 1 : g[k + 1] = Joins(g[k], s[k + 1])
  BY <1>0 DEF Flattens
<1>3. g[n] \in Seq(T) /\ g[n + 1] \in Seq(T) /\ s[n + 1] \in Seq(T) /\ g[n + 1] = Joins(g[n], s[n + 1])
  BY <1>0, <1>1, <1>2
<1>4. PICK x \in Seq(T), y \in Seq(T) : x = g[n] /\ y = s[n + 1]
  BY <1>3
<1>5. PICK a \in Nat, b \in Nat : a = Len(x) /\ b = Len(y)
  OBVIOUS
<1>6. Len(g[n + 1]) = a + b /\ \A i \in 1 .. b : g[n + 1][a + i] = y[i]
  <2>1. g[n + 1] = Joins(x, y)
    BY <1>3, <1>4
  <2>2. Len(Joins(x, y)) = Len(x) + Len(y) /\ Ends(Joins(x, y), x, y)
    BY JoinedParts
  <2> QED
    BY <1>5, <2>1, <2>2 DEF Ends
<1> DEFINE S == {k \in Nat : (n + 1) + k <= l =>
                   \A i \in 1 .. b : a + i <= Len(g[(n + 1) + k]) /\ g[(n + 1) + k][a + i] = y[i]}
<1>7. 0 \in S
  <2>1. (n + 1) + 0 = n + 1
    OBVIOUS
  <2>2. ASSUME NEW i \in 1 .. b PROVE a + i <= Len(g[n + 1])
    BY <1>6
  <2> QED
    BY <1>6, <2>1, <2>2
<1>8. ASSUME NEW k \in Nat, k \in S PROVE k + 1 \in S
  <2>1. SUFFICES ASSUME (n + 1) + (k + 1) <= l, NEW i \in 1 .. b
        PROVE  a + i <= Len(g[(n + 1) + (k + 1)]) /\ g[(n + 1) + (k + 1)][a + i] = y[i]
    OBVIOUS
  <2>2. PICK j \in 0 .. l - 1 : j = (n + 1) + k /\ j + 1 = (n + 1) + (k + 1) /\ j <= l
    BY <2>1
  <2>3. a + i <= Len(g[j]) /\ g[j][a + i] = y[i]
    BY <1>8, <2>1, <2>2
  <2>4. PICK u \in Seq(T), v \in Seq(T) : u = g[j] /\ v = s[j + 1]
    <3>1. g[j] \in Seq(T) /\ s[j + 1] \in Seq(T)
      BY <1>0, <1>1, <2>2
    <3> QED
      BY <3>1
  <2>5. g[j + 1] = u \o v
    BY <1>2, <2>4 DEF Joins
  <2>6. PICK c \in Nat, d \in Nat : c = Len(u) /\ d = Len(v)
    OBVIOUS
  <2>7. Len(g[j + 1]) = c + d
    BY <2>5, <2>6, Joined
  <2>8. PICK e \in 1 .. c : e = a + i
    BY <2>3, <2>4, <2>6
  <2>9. (u \o v)[e] = u[e]
    BY <2>6
  <2>10. g[j + 1][e] = y[i]
    BY <2>3, <2>4, <2>5, <2>8, <2>9
  <2>11. e <= Len(g[j + 1])
    BY <2>7
  <2> QED
    BY <2>2, <2>8, <2>10, <2>11
<1>9. \A k \in Nat : k \in S
  <2> HIDE DEF S
  <2> QED
    BY <1>7, <1>8, SetInduction
<1>12. LenAt(g, n) = a /\ LenAt(s, n + 1) = b /\ LenAt(g, n + 1) = a + b
  BY <1>4, <1>5, <1>6 DEF LenAt
<1>10. ASSUME NEW m \in Nat, n + 1 <= m, m <= Len(s) PROVE PartAt(g, s, n, m)
  <2>1. m - (n + 1) \in Nat /\ (n + 1) + (m - (n + 1)) = m
    BY <1>10
  <2>2. m - (n + 1) \in S
    BY <1>9, <2>1
  <2>3. \A i \in 1 .. b : g[m][a + i] = y[i]
    BY <1>0, <1>10, <2>1, <2>2
  <2> QED
    BY <1>4, <2>3, <1>12 DEF PartAt
<1>11. LenAt(g, n) \in Nat /\ LenAt(s, n + 1) \in Nat /\ Longest(g, s, n)
  BY <1>12 DEF Longest
<1> QED
  BY <1>3, <1>10, <1>11
---------------------------------------------------------------------------
(* URLDecode.                                                              *)

DecodeLoop(f, s) ==
  f = [k \in 0 .. Len(s) |->
        IF k = 0 THEN [state |-> "normal", digit |-> NUL, out |-> <<>>]
        ELSE DecodeChar(f[k - 1], s[k])]

DecodeSteps(f, s, m) == \A k \in 0 .. m - 1 : f[k + 1] = DecodeChar(f[k], s[k + 1])

NoDigit == [state |-> "normal", digit |-> NUL, out |-> <<>>]

\* The function URLDecode is defined by exists.
LEMMA DecodeLoopExists ==
  ASSUME NEW s, NEW m \in Nat, Len(s) = m
  PROVE  \E f : DecodeLoop(f, s)
<1> DEFINE P(k, f) == f[0] = NoDigit /\ \A i \in 1 .. k : f[i] = DecodeChar(f[i - 1], s[i])
           T == {k \in Nat : k <= m => \E f : P(k, f)}
<1>1. 0 \in T
  <2>1. P(0, [i \in 0 .. m |-> NoDigit])
    OBVIOUS
  <2> QED
    BY <2>1
<1>2. ASSUME NEW k \in Nat, k \in T PROVE k + 1 \in T
  <2>1. SUFFICES ASSUME k + 1 <= m PROVE \E f : P(k + 1, f)
    OBVIOUS
  <2>2. PICK f : P(k, f)
    BY <1>2, <2>1
  <2>6. PICK x : x = DecodeChar(f[k], s[k + 1])
    OBVIOUS
  <2> DEFINE h == [i \in 0 .. m |-> IF i = k + 1 THEN x ELSE f[i]]
  <2>4. h[0] = NoDigit
    BY <2>2
  <2>5. ASSUME NEW i \in 1 .. k + 1 PROVE h[i] = DecodeChar(h[i - 1], s[i])
    <3>1. CASE i = k + 1
      <4>1. h[i] = x /\ h[i - 1] = f[k]
        BY <2>1, <3>1
      <4> QED
        BY <2>6, <3>1, <4>1
    <3>2. CASE i \in 1 .. k
      <4>1. h[i] = f[i] /\ h[i - 1] = f[i - 1]
        BY <2>1, <3>2
      <4> QED
        BY <2>2, <3>2, <4>1
    <3> QED
      BY <3>1, <3>2
  <2> HIDE DEF h
  <2> QED
    BY <2>4, <2>5
<1>3. m \in T
  <2> HIDE DEF T
  <2> QED
    BY <1>1, <1>2, SetInduction
<1>4. PICK f : P(m, f)
  BY <1>3
<1> DEFINE g == [i \in 0 .. m |-> f[i]]
<1>5. ASSUME NEW i \in 0 .. m PROVE g[i] = IF i = 0 THEN NoDigit ELSE DecodeChar(g[i - 1], s[i])
  <2>1. CASE i = 0
    BY <1>4, <2>1
  <2>2. CASE i # 0
    <3>1. i \in 1 .. m /\ i - 1 \in 0 .. m
      BY <2>2
    <3>2. g[i] = f[i] /\ g[i - 1] = f[i - 1]
      BY <3>1
    <3> QED
      BY <1>4, <2>2, <3>1, <3>2
  <2> QED
    BY <2>1, <2>2
<1>6. g = [i \in 0 .. m |-> g[i]]
  OBVIOUS
<1> HIDE DEF g
<1>7. g = [i \in 0 .. m |-> IF i = 0 THEN NoDigit ELSE DecodeChar(g[i - 1], s[i])]
  BY <1>5, <1>6
<1> QED
  BY <1>7 DEF DecodeLoop, NoDigit

\* What the loop has found.
Out(f, k) == f[k].out

\* Each character is a step of it.
LEMMA DecodedSteps ==
  ASSUME NEW s, Len(s) \in Nat
  PROVE  \E f : /\ f[0] = NoDigit /\ DecodeSteps(f, s, Len(s))
                /\ URLDecode(s) = Out(f, Len(s))
<1>0. PICK m \in Nat : m = Len(s)
  OBVIOUS
<1>2. PICK f : f = (CHOOSE x : DecodeLoop(x, s)) /\ DecodeLoop(f, s)
  BY DecodeLoopExists
<1>1. URLDecode(s) = Out(f, Len(s))
  BY <1>2 DEF URLDecode, DecodeLoop, Out
<1>3. \A k \in 0 .. m : f[k] = IF k = 0 THEN NoDigit ELSE DecodeChar(f[k - 1], s[k])
  BY <1>0, <1>2 DEF DecodeLoop, NoDigit
<1>4. f[0] = NoDigit
  BY <1>3
<1>5. ASSUME NEW k \in 0 .. m - 1 PROVE f[k + 1] = DecodeChar(f[k], s[k + 1])
  <2>1. PICK j \in 0 .. m : j = k + 1 /\ j # 0 /\ j - 1 = k
    OBVIOUS
  <2>2. f[j] = DecodeChar(f[j - 1], s[j])
    BY <1>3, <2>1
  <2> QED
    BY <2>1, <2>2
<1>6. DecodeSteps(f, s, m)
  BY <1>5 DEF DecodeSteps
<1> QED
  BY <1>0, <1>1, <1>4, <1>6

\* Between two pieces.
Normal(d, out) == DOMAIN d = {"state", "digit", "out"} /\ d.state = "normal" /\ d.out = out

\* A character that stands for itself, or a plus sign.
LEMMA DecodePlain ==
  ASSUME NEW d, NEW out, Normal(d, out), NEW c \in Nat, c # PERCENT
  PROVE  Normal(DecodeChar(d, c), Longer(out, IF c = PLUS THEN SP ELSE c))
<1>1. DecodeChar(d, c) = [d EXCEPT !.out = Append(@, IF c = PLUS THEN SP ELSE c)]
  BY DEF DecodeChar, Normal
<1>2. PICK e \in Nat : e = IF c = PLUS THEN SP ELSE c
  BY DEF SP
<1>3. DecodeChar(d, c) = [d EXCEPT !.out = Append(@, e)]
  BY <1>1, <1>2
<1>4. Normal(DecodeChar(d, c), Longer(out, e))
  BY <1>3 DEF Normal, Longer
<1> QED
  BY <1>2, <1>4

\* Within an escape there is nothing yet.
Waiting(d, out) == d.out = out

\* The three characters of an escape: nothing until the last, then its number.
LEMMA DecodeEscape ==
  ASSUME NEW d, NEW out, Normal(d, out), NEW p \in 0 .. 9, NEW q \in 0 .. 9
  PROVE  /\ Waiting(DecodeChar(d, PERCENT), out)
         /\ Waiting(DecodeChar(DecodeChar(d, PERCENT), p), out)
         /\ Normal(DecodeChar(DecodeChar(DecodeChar(d, PERCENT), p), q), Longer(out, 16 * p + q))
<1>1. PICK d1 : d1 = DecodeChar(d, PERCENT)
  OBVIOUS
<1>2. d1 = [d EXCEPT !.state = "first"]
  BY <1>1 DEF DecodeChar, Normal
<1>3. DOMAIN d1 = {"state", "digit", "out"} /\ d1.state = "first" /\ d1.out = out
  BY <1>2 DEF Normal
<1>4. PICK d2 : d2 = DecodeChar(d1, p)
  OBVIOUS
<1>5. d2 = [d1 EXCEPT !.state = "second", !.digit = p]
  BY <1>3, <1>4 DEF DecodeChar
<1>6. DOMAIN d2 = {"state", "digit", "out"} /\ d2.state = "second" /\ d2.digit = p /\ d2.out = out
  BY <1>3, <1>5
<1>7. PICK d3 : d3 = DecodeChar(d2, q)
  OBVIOUS
<1>8. d3 = [d2 EXCEPT !.state = "normal",
                      !.out = IF ~IsDigits(d2.digit) THEN @
                              ELSE Append(@, IF IsDigits(q) THEN 16 * d2.digit + q ELSE d2.digit)]
  BY <1>6, <1>7 DEF DecodeChar
<1>9. IsDigits(p) /\ IsDigits(q)
  BY DEF IsDigits
<1>10. PICK e \in Nat : e = 16 * p + q
  OBVIOUS
<1>11. d3 = [d2 EXCEPT !.state = "normal", !.out = Append(@, e)]
  BY <1>6, <1>8, <1>9, <1>10
<1>12. Normal(d3, Longer(out, e))
  BY <1>6, <1>11 DEF Normal, Longer
<1> QED
  BY <1>1, <1>3, <1>4, <1>6, <1>7, <1>10, <1>12 DEF Waiting

Follows(e, x, piece, n) == \A i \in 1 .. n : e[x + i] = piece[i]

Plain(piece) ==
  \E c \in Nat : /\ c # PERCENT /\ Len(piece) = 1 /\ piece[1] = c
                 /\ Decoded(piece) = IF c = PLUS THEN SP ELSE c
Escape(piece) ==
  \E p \in 0 .. 9, q \in 0 .. 9 :
     /\ Len(piece) = 3 /\ piece[1] = PERCENT /\ piece[2] = p /\ piece[3] = q
     /\ Decoded(piece) = 16 * p + q

\* A path is made of no other pieces.
LEMMA PieceForm ==
  ASSUME NEW piece \in Pieces
  PROVE  \/ \E c \in Nat \ {SP, PERCENT} : piece = <<c>>
         \/ \E d \in 0 .. 9, e \in 0 .. 9 : piece = <<PERCENT, d, e>>
<1>1. piece \in Seq(Nat)
  BY DEF Pieces
<1>2. CASE Len(piece) = 1 /\ piece[1] \notin {SP, PERCENT}
  <2>1. piece[1] \in Nat
    BY <1>1, <1>2, ElementOfSeq
  <2>2. piece = <<piece[1]>>
    BY <1>1, <1>2
  <2>3. piece[1] \in Nat \ {SP, PERCENT}
    BY <1>2, <2>1
  <2> QED
    BY <2>2, <2>3
<1>3. CASE Len(piece) = 3 /\ piece[1] = PERCENT /\ {piece[2], piece[3]} \subseteq 0 .. 9
  <2>1. piece[2] \in 0 .. 9 /\ piece[3] \in 0 .. 9
    BY <1>3
  <2>2. piece = <<PERCENT, piece[2], piece[3]>>
    BY <1>1, <1>3
  <2> QED
    BY <2>1, <2>2
<1> QED
  BY <1>2, <1>3 DEF Pieces

LEMMA PieceKinds == ASSUME NEW piece \in Pieces PROVE Plain(piece) \/ Escape(piece)
<1>1. CASE \E c \in Nat \ {SP, PERCENT} : piece = <<c>>
  <2>1. PICK c \in Nat \ {SP, PERCENT} : piece = <<c>>
    BY <1>1
  <2>2. Len(piece) = 1 /\ piece[1] = c
    BY <2>1
  <2>3. piece = <<PLUS>> <=> c = PLUS
    BY <2>1
  <2>4. Decoded(piece) = IF c = PLUS THEN SP ELSE c
    BY <2>2, <2>3 DEF Decoded
  <2> QED
    BY <2>1, <2>2, <2>4 DEF Plain
<1>2. CASE \E d \in 0 .. 9, e \in 0 .. 9 : piece = <<PERCENT, d, e>>
  <2>1. PICK p \in 0 .. 9, q \in 0 .. 9 : piece = <<PERCENT, p, q>>
    BY <1>2
  <2>2. Len(piece) = 3 /\ piece[1] = PERCENT /\ piece[2] = p /\ piece[3] = q
    BY <2>1
  <2>3. piece # <<PLUS>>
    BY <2>2
  <2>4. Decoded(piece) = 16 * p + q
    BY <2>2, <2>3 DEF Decoded
  <2> QED
    BY <2>2, <2>4 DEF Escape
<1> QED
  BY <1>1, <1>2, PieceForm

\* A piece of the path, decoded as a whole.
LEMMA PieceDecoded ==
  ASSUME NEW f, NEW e, NEW l \in Nat, DecodeSteps(f, e, l), NEW x \in Nat, NEW out,
         Normal(f[x], out), NEW piece \in Pieces, NEW n \in Nat, n = Len(piece), x + n <= l,
         Follows(e, x, piece, n)
  PROVE  Normal(f[x + n], Longer(out, Decoded(piece)))
<1>1. CASE Plain(piece)
  <2>1. PICK c \in Nat : /\ c # PERCENT /\ Len(piece) = 1 /\ piece[1] = c
                         /\ Decoded(piece) = IF c = PLUS THEN SP ELSE c
    BY <1>1 DEF Plain
  <2>2. n = 1 /\ x \in 0 .. l - 1 /\ 1 \in 1 .. n
    BY <2>1
  <2>3. f[x + 1] = DecodeChar(f[x], c)
    BY <2>1, <2>2 DEF DecodeSteps, Follows
  <2>4. Normal(DecodeChar(f[x], c), Longer(out, IF c = PLUS THEN SP ELSE c))
    <3>1. PICK d : d = f[x]
      OBVIOUS
    <3> QED
      BY <2>1, <3>1, DecodePlain
  <2> QED
    BY <2>1, <2>2, <2>3, <2>4
<1>2. CASE Escape(piece)
  <2>1. PICK p \in 0 .. 9, q \in 0 .. 9 :
              /\ Len(piece) = 3 /\ piece[1] = PERCENT /\ piece[2] = p /\ piece[3] = q
              /\ Decoded(piece) = 16 * p + q
    BY <1>2 DEF Escape
  <2>2. n = 3 /\ x \in 0 .. l - 1 /\ x + 1 \in 0 .. l - 1 /\ x + 2 \in 0 .. l - 1
        /\ (x + 1) + 1 = x + 2 /\ (x + 2) + 1 = x + 3
    BY <2>1
  <2>3. e[x + 1] = PERCENT /\ e[x + 2] = p /\ e[x + 3] = q
    BY <2>1, <2>2 DEF Follows
  <2>4. /\ f[x + 1] = DecodeChar(f[x], PERCENT) /\ f[x + 2] = DecodeChar(f[x + 1], p)
        /\ f[x + 3] = DecodeChar(f[x + 2], q)
    <3>1. f[x + 1] = DecodeChar(f[x], e[x + 1])
      BY <2>2 DEF DecodeSteps
    <3>2. f[(x + 1) + 1] = DecodeChar(f[x + 1], e[(x + 1) + 1])
      BY <2>2 DEF DecodeSteps
    <3>3. f[(x + 2) + 1] = DecodeChar(f[x + 2], e[(x + 2) + 1])
      BY <2>2 DEF DecodeSteps
    <3> QED
      BY <2>2, <2>3, <3>1, <3>2, <3>3
  <2>5. Normal(DecodeChar(DecodeChar(DecodeChar(f[x], PERCENT), p), q), Longer(out, 16 * p + q))
    <3>1. PICK d : d = f[x]
      OBVIOUS
    <3> QED
      BY <3>1, DecodeEscape
  <2> QED
    BY <2>1, <2>2, <2>4, <2>5
<1> QED
  BY <1>1, <1>2, PieceKinds

\* An escape the path is cut off in is lost.
LEMMA PieceCut ==
  ASSUME NEW f, NEW e, NEW l \in Nat, DecodeSteps(f, e, l), NEW x \in Nat, NEW out,
         Normal(f[x], out), NEW piece \in Pieces, NEW n \in Nat, x + n = l, n < Len(piece),
         Follows(e, x, piece, n)
  PROVE  Out(f, l) = out
<1>1. CASE n = 0
  BY <1>1 DEF Normal, Out
<1>2. CASE n # 0
  <2>1. PICK p \in 0 .. 9, q \in 0 .. 9 : /\ Len(piece) = 3 /\ piece[1] = PERCENT /\ piece[2] = p
    <3>1. ASSUME Plain(piece) PROVE FALSE
      <4>1. PICK k \in Nat : k = Len(piece) /\ k = 1
        BY <3>1 DEF Plain
      <4> QED
        BY <1>2, <4>1
    <3>2. Escape(piece)
      BY <3>1, PieceKinds
    <3> QED
      BY <3>2 DEF Escape
  <2>2. n \in {1, 2} /\ 1 \in 1 .. n /\ x \in 0 .. l - 1
    BY <1>2, <2>1
  <2>3. f[x + 1] = DecodeChar(f[x], PERCENT)
    BY <2>1, <2>2 DEF DecodeSteps, Follows
  <2>4. PICK d : d = f[x]
    OBVIOUS
  <2>5. Waiting(DecodeChar(d, PERCENT), out) /\ Waiting(DecodeChar(DecodeChar(d, PERCENT), p), out)
    BY <2>4, DecodeEscape
  <2>6. CASE n = 1
    BY <2>3, <2>4, <2>5, <2>6 DEF Waiting, Out
  <2>7. CASE n = 2
    <3>1. x + 1 \in 0 .. l - 1 /\ (x + 1) + 1 = l /\ x + 2 = l /\ 2 \in 1 .. n
      BY <2>7
    <3>2. f[(x + 1) + 1] = DecodeChar(f[x + 1], e[(x + 1) + 1])
      BY <3>1 DEF DecodeSteps
    <3>3. e[x + 2] = p
      BY <2>1, <3>1 DEF Follows
    <3> QED
      BY <2>3, <2>4, <2>5, <3>1, <3>2, <3>3 DEF Waiting, Out
  <2> QED
    BY <2>2, <2>6, <2>7
<1> QED
  BY <1>1, <1>2

\* A set of numbers with a bound has a greatest one.
LEMMA GreatestElement ==
  ASSUME NEW T, NEW m \in Nat, T \subseteq 0 .. m, T # {}
  PROVE  \E x \in T : \A y \in T : y <= x
<1> DEFINE R == {m - y : y \in T}
<1>1. R \subseteq Nat /\ R # {}
  <2>1. \A y \in T : y \in 0 .. m
    OBVIOUS
  <2>2. \A y \in 0 .. m : m - y \in Nat
    OBVIOUS
  <2>3. R # {}
    BY Zenon
  <2> QED
    BY <2>1, <2>2, <2>3, Zenon
<1>2. PICK z \in R : \A y \in R : z <= y
  BY <1>1, LeastElement
<1>3. PICK x \in T : z = m - x
  OBVIOUS
<1>4. ASSUME NEW y \in T PROVE y <= x
  <2>1. m - y \in R
    OBVIOUS
  <2>2. z <= m - y
    BY <1>2, <2>1
  <2> QED
    BY <1>3, <2>2
<1> QED
  BY <1>4

\* The pieces that are there whole.
Text(p, n) == [k \in 1 .. n |-> Decoded(p[k])]

LEMMA TextGrows ==
  ASSUME NEW p, NEW n \in Nat
  PROVE  Longer(Text(p, n), Decoded(p[n + 1])) = Text(p, n + 1)
<1>1. PICK v : v = Decoded(p[n + 1])
  OBVIOUS
<1> DEFINE S == {Decoded(p[k]) : k \in 1 .. n} \cup {v}
<1>2. PICK t \in Seq(S) : t = Text(p, n) /\ Len(t) = n /\ \A k \in 1 .. n : t[k] = Decoded(p[k])
  <2>1. PICK t \in [1 .. n -> S] : t = Text(p, n)
    BY DEF Text
  <2>2. t \in Seq(S) /\ Len(t) = n
    OBVIOUS
  <2> QED
    BY <2>1, <2>2 DEF Text
<1>6. v \in S
  OBVIOUS
<1>3. PICK u : u = Append(t, v)
  OBVIOUS
<1>4. u \in [1 .. n + 1 -> S] /\ \A k \in 1 .. n + 1 : u[k] = IF k = n + 1 THEN v ELSE t[k]
  <2> HIDE DEF S
  <2>1. u \in Seq(S) /\ Len(u) = n + 1
    BY <1>2, <1>3, <1>6
  <2>2. \A k \in 1 .. n + 1 : u[k] = IF k = n + 1 THEN v ELSE t[k]
    BY <1>2, <1>3, <1>6
  <2> QED
    BY <2>1, <2>2
<1>5. u = Text(p, n + 1)
  <2>1. \A k \in 1 .. n + 1 : u[k] = Decoded(p[k])
    BY <1>1, <1>2, <1>4
  <2> HIDE DEF S
  <2> QED
    BY <1>4, <2>1 DEF Text
<1> QED
  BY <1>1, <1>2, <1>3, <1>5 DEF Longer

\* The pieces before another one end before it.
LEMMA FlattensGrows ==
  ASSUME NEW T, NEW s \in Seq(Seq(T)), NEW g, Flattens(g, s, T), NEW n \in Nat, NEW m \in Nat,
         n <= m, m <= Len(s)
  PROVE  LenAt(g, n) <= LenAt(g, m)
<1>0. PICK l \in Nat : l = Len(s) /\ m <= l
  OBVIOUS
<1>1. \A k \in 0 .. l : LenAt(g, k) \in Nat
  BY <1>0 DEF Flattens, LenAt
<1>2. ASSUME NEW k \in Nat, k + 1 <= l PROVE LenAt(g, k) <= LenAt(g, k + 1)
  <2>1. LenAt(g, k) \in Nat /\ LenAt(s, k + 1) \in Nat /\ Longest(g, s, k)
    BY <1>0, <1>2, FlattensPart
  <2>2. PICK a \in Nat, b \in Nat : a = LenAt(g, k) /\ b = LenAt(s, k + 1)
    BY <2>1
  <2>3. LenAt(g, k + 1) = a + b
    BY <2>1, <2>2 DEF Longest
  <2> QED
    BY <2>2, <2>3
<1> DEFINE S == {k \in Nat : n + k <= l => LenAt(g, n) <= LenAt(g, n + k)}
<1>3. 0 \in S
  <2>1. n + 0 = n /\ n \in 0 .. l
    BY <1>0
  <2> QED
    BY <1>1, <2>1
<1>4. ASSUME NEW k \in Nat, k \in S PROVE k + 1 \in S
  <2>1. SUFFICES ASSUME n + (k + 1) <= l PROVE LenAt(g, n) <= LenAt(g, n + (k + 1))
    OBVIOUS
  <2>2. PICK j \in Nat : j = n + k /\ j + 1 = n + (k + 1) /\ j + 1 <= l
    BY <2>1
  <2>3. LenAt(g, n) <= LenAt(g, j)
    BY <1>4, <2>2
  <2>4. LenAt(g, j) <= LenAt(g, j + 1)
    BY <1>2, <2>2
  <2>5. LenAt(g, n) \in Nat /\ LenAt(g, j) \in Nat /\ LenAt(g, j + 1) \in Nat
    <3>1. n \in 0 .. l /\ j \in 0 .. l /\ j + 1 \in 0 .. l
      BY <1>0, <2>2
    <3> QED
      BY <1>1, <3>1
  <2> QED
    BY <2>2, <2>3, <2>4, <2>5
<1>5. \A k \in Nat : k \in S
  <2> HIDE DEF S
  <2> QED
    BY <1>3, <1>4, SetInduction
<1>6. m - n \in Nat /\ n + (m - n) = m
  OBVIOUS
<1>7. m - n \in S
  BY <1>5, <1>6
<1> QED
  BY <1>0, <1>6, <1>7

LEMMA ShorterIs ==
  ASSUME NEW S, NEW s \in Seq(S), NEW max \in Nat
  PROVE  \E t \in Seq(S) : /\ t = Shorter(s, max) /\ Len(t) = Least(Len(s), max)
                           /\ Begins(t, s, Least(Len(s), max))
<1>1. PICK n \in Nat : n = Least(Len(s), max) /\ n <= Len(s)
  BY DEF Least
<1>2. Shorter(s, max) = SubSeq(s, 1, n)
  BY <1>1 DEF Shorter, Least
<1> QED
  BY <1>1, <1>2, PrefixBegins

\* URLDecode of the path as far as it was kept: the pieces that are there whole.
LEMMA DecodedIs ==
  ASSUME NEW r, r.path \in Seq(Pieces), PathMax \in Nat
  PROVE  URLDecode(Shorter(FlattenSeq(r.path), PathMax)) = DecodedPath(r)
<1>1. PICK p \in Seq(Pieces) : p = r.path
  OBVIOUS
<1>2. p \in Seq(Seq(Nat))
  <2>1. ASSUME NEW piece \in Pieces PROVE piece \in Seq(Nat)
    BY DEF Pieces
  <2>2. Pieces \subseteq Seq(Nat)
    BY <2>1
  <2> QED
    BY <2>2, SeqMonotonic
<1>3. PICK M \in Nat : M = Len(p)
  OBVIOUS
<1>4. PICK g : Flattens(g, p, Nat)
  BY <1>2, FlattensExists
<1>5. PICK w : w = FlattenSeq(p)
  OBVIOUS
<1>6. w = g[M]
  BY <1>2, <1>3, <1>4, <1>5, FlattensIs DEF Place
<1>7. \A n \in 0 .. M : g[n] \in Seq(Nat) /\ LenAt(g, n) \in Nat
  BY <1>3, <1>4 DEF Flattens, LenAt
<1>8. w \in Seq(Nat)
  BY <1>6, <1>7
<1>9. PICK L \in Nat : L = Len(w)
  BY <1>8
<1>10. PICK l \in Nat : l = Least(L, PathMax)
  BY DEF Least
<1>11. PICK e \in Seq(Nat) : e = Shorter(w, PathMax) /\ Len(e) = l /\ Begins(e, w, l)
  BY <1>8, <1>9, <1>10, ShorterIs
<1>12. PICK f : f[0] = NoDigit /\ DecodeSteps(f, e, l) /\ URLDecode(e) = Out(f, l)
  BY <1>11, DecodedSteps
<1>13. ASSUME NEW n \in Nat, n + 1 <= M, NEW x \in Nat, x = LenAt(g, n), NEW c \in Nat,
              c <= LenAt(p, n + 1), x + c <= l
       PROVE  Follows(e, x, p[n + 1], c)
  <2>1. PartAt(g, p, n, M)
    BY <1>2, <1>3, <1>4, <1>13, FlattensPart
  <2>2. ASSUME NEW i \in 1 .. c PROVE e[x + i] = p[n + 1][i]
    <3>1. x + i \in 1 .. l
      BY <1>13
    <3>2. e[x + i] = w[x + i]
      BY <1>11, <3>1 DEF Begins
    <3>3. LenAt(p, n + 1) \in Nat
      BY <1>2, <1>3, <1>4, <1>13, FlattensPart
    <3>4. i \in 1 .. LenAt(p, n + 1)
      BY <1>13, <3>3
    <3>5. g[M][x + i] = p[n + 1][i]
      BY <1>13, <2>1, <3>4 DEF PartAt
    <3> QED
      BY <1>6, <3>2, <3>5
  <2> QED
    BY <2>2 DEF Follows
<1>14. ASSUME NEW n \in Nat, n + 1 <= M
       PROVE  /\ p[n + 1] \in Pieces /\ LenAt(p, n + 1) \in Nat
              /\ LenAt(g, n + 1) = LenAt(g, n) + LenAt(p, n + 1)
  <2>1. p[n + 1] \in Pieces
    BY <1>3, <1>14
  <2>2. LenAt(p, n + 1) \in Nat /\ Longest(g, p, n)
    BY <1>2, <1>3, <1>4, <1>14, FlattensPart
  <2> QED
    BY <2>1, <2>2 DEF Longest
<1> DEFINE C(n) == LenAt(g, n) <= l => Normal(f[LenAt(g, n)], Text(p, n))
           S == {n \in Nat : n <= M => C(n)}
<1>15. 0 \in S
  <2>1. LenAt(g, 0) = 0
    BY <1>4 DEF Flattens, LenAt
  <2>2. Text(p, 0) = <<>>
    BY DEF Text
  <2>3. Normal(f[0], <<>>)
    BY <1>12 DEF Normal, NoDigit
  <2> QED
    BY <2>1, <2>2, <2>3
<1>16. ASSUME NEW n \in Nat, n \in S PROVE n + 1 \in S
  <2>1. SUFFICES ASSUME n + 1 <= M, LenAt(g, n + 1) <= l
                 PROVE  Normal(f[LenAt(g, n + 1)], Text(p, n + 1))
    OBVIOUS
  <2>2. PICK x \in Nat, c \in Nat : x = LenAt(g, n) /\ c = LenAt(p, n + 1) /\ LenAt(g, n + 1) = x + c
    <3>1. LenAt(g, n) \in Nat
      <4>1. n \in 0 .. M
        BY <2>1
      <4> QED
        BY <1>7, <4>1
    <3>2. LenAt(p, n + 1) \in Nat /\ LenAt(g, n + 1) = LenAt(g, n) + LenAt(p, n + 1)
      BY <1>14, <2>1
    <3> QED
      BY <3>1, <3>2
  <2>3. x + c <= l /\ x <= l
    BY <2>1, <2>2
  <2>4. Normal(f[x], Text(p, n))
    BY <1>16, <2>1, <2>2, <2>3
  <2>5. PICK piece \in Pieces : piece = p[n + 1] /\ c = Len(piece) /\ Follows(e, x, piece, c)
    <3>1. PICK y : y = p[n + 1]
      OBVIOUS
    <3>2. y \in Pieces
      BY <1>14, <2>1, <3>1
    <3>3. Follows(e, x, p[n + 1], c)
      BY <1>13, <2>1, <2>2, <2>3
    <3>4. c = Len(y)
      BY <2>2, <3>1 DEF LenAt
    <3> QED
      BY <3>1, <3>2, <3>3, <3>4
  <2>6. Normal(f[x + c], Longer(Text(p, n), Decoded(piece)))
    BY <1>12, <2>3, <2>4, <2>5, PieceDecoded
  <2> QED
    BY <2>2, <2>5, <2>6, TextGrows
<1>17. \A n \in Nat : n \in S
  <2> HIDE DEF S
  <2> QED
    BY <1>15, <1>16, SetInduction
<1>18. ASSUME NEW n \in 0 .. M, LenAt(g, n) <= l PROVE Normal(f[LenAt(g, n)], Text(p, n))
  BY <1>17, <1>18
<1> HIDE DEF S
<1>19. ASSUME NEW n \in 0 .. M PROVE Len(FlattenSeq(SubSeq(p, 1, n))) = LenAt(g, n)
  <2>1. FlattenSeq(SubSeq(p, 1, n)) = Place(g, n)
    BY <1>2, <1>3, <1>4, FlattensPrefix
  <2> QED
    BY <2>1 DEF Place, LenAt
<1> DEFINE whole == {n \in 0 .. M : LenAt(g, n) <= PathMax}
<1>20. whole = {n \in 0 .. Len(r.path) : Len(FlattenSeq(SubSeq(r.path, 1, n))) <= PathMax}
  BY <1>1, <1>3, <1>19
<1>21. whole # {} /\ whole \subseteq 0 .. M
  <2>1. LenAt(g, 0) = 0
    BY <1>4 DEF Flattens, LenAt
  <2>2. 0 \in whole
    BY <2>1
  <2> QED
    BY <2>2
<1>22. PICK N \in whole : \A n \in whole : n <= N
  BY <1>21, GreatestElement
<1>23. (CHOOSE n \in whole : \A m \in whole : m <= n) = N
  <2>1. PICK k \in whole : k = (CHOOSE n \in whole : \A m \in whole : m <= n) /\ \A m \in whole : m <= k
    BY <1>22
  <2>2. k <= N /\ N <= k /\ k \in 0 .. M /\ N \in 0 .. M
    BY <1>21, <1>22, <2>1
  <2> QED
    BY <2>1, <2>2
<1>24. DecodedPath(r) = Text(p, N)
  <2> HIDE DEF whole
  <2>1. DecodedPath(r) = LET n == CHOOSE n \in whole : \A m \in whole : m <= n
                         IN  [k \in 1 .. n |-> Decoded(r.path[k])]
    BY <1>20 DEF DecodedPath
  <2> QED
    BY <1>1, <1>23, <2>1 DEF Text
<1>25. N \in 0 .. M /\ LenAt(g, N) <= PathMax /\ \A n \in 0 .. M : LenAt(g, n) <= PathMax => n <= N
  BY <1>22
<1>26. CASE N = M
  <2>1. l = L /\ LenAt(g, N) = l
    BY <1>6, <1>9, <1>10, <1>25, <1>26 DEF Least, LenAt
  <2>2. Normal(f[l], Text(p, N))
    BY <1>18, <1>25, <2>1
  <2> QED
    BY <1>1, <1>5, <1>11, <1>12, <1>24, <2>2 DEF Normal, Out
<1>27. CASE N # M
  <2>1. N \in Nat /\ N + 1 \in 0 .. M /\ N + 1 <= M
    BY <1>25, <1>27
  <2>2. PICK x \in Nat, c \in Nat : x = LenAt(g, N) /\ c = LenAt(p, N + 1) /\ LenAt(g, N + 1) = x + c
    BY <1>7, <1>14, <1>25, <2>1
  <2>3. x + c > PathMax
    <3>1. ~(N + 1 <= N)
      BY <2>1
    <3> QED
      BY <1>25, <2>1, <2>2, <3>1
  <2>4. x + c <= L
    <3>1. LenAt(g, N + 1) <= LenAt(g, M)
      BY <1>2, <1>3, <1>4, <2>1, FlattensGrows
    <3> QED
      BY <1>6, <1>9, <2>2, <3>1 DEF LenAt
  <2>5. l = PathMax /\ x <= l
    BY <1>10, <1>25, <2>2, <2>3, <2>4 DEF Least
  <2>6. PICK n \in Nat : x + n = l /\ n < c
    <3>1. l - x \in Nat /\ x + (l - x) = l /\ l - x < c
      BY <2>3, <2>5
    <3> QED
      BY <3>1
  <2>7. Normal(f[x], Text(p, N))
    BY <1>18, <1>25, <2>2, <2>5
  <2>8. PICK piece \in Pieces : piece = p[N + 1] /\ c = Len(piece) /\ Follows(e, x, piece, n)
    <3>1. PICK y : y = p[N + 1]
      OBVIOUS
    <3>2. y \in Pieces
      BY <1>14, <2>1, <3>1
    <3>3. Follows(e, x, p[N + 1], n)
      BY <1>13, <2>1, <2>2, <2>6
    <3>4. c = Len(y)
      BY <2>2, <3>1 DEF LenAt
    <3> QED
      BY <3>1, <3>2, <3>3, <3>4
  <2>9. Out(f, l) = Text(p, N)
    BY <1>12, <2>6, <2>7, <2>8, PieceCut
  <2> QED
    BY <1>1, <1>5, <1>11, <1>12, <1>24, <2>9
<1> QED
  BY <1>26, <1>27
---------------------------------------------------------------------------
(* The first line.                                                         *)

Rest(q) == <<q.headers, q.header, q.pool, q.headersStringPoolOffset, q.body, q.capacity>>

\* What is read of the line: its parts, and the parts of it that were cut.
Line(q, st, m, p, d, v, ws) ==
  /\ IsRequest(q) /\ Rest(q) = Rest(NoRequest) /\ q.state = st
  /\ q.method = m /\ q.path = p /\ q.pathDecoded = d /\ q.version = v /\ q.warnings = ws

\* calloc gives a request of which nothing has been read.
LEMMA LineBegins == Line(NoRequest, "Method", <<>>, <<>>, <<>>, <<>>, {})
<1>1. IsRequest(NoRequest)
  BY DEF IsRequest, NoRequest, Fields
<1> QED
  BY <1>1 DEF Line, NoRequest

\* Up to the space or the end of the line, each character is kept.
LEMMA LineTakes ==
  ASSUME NEW c
  PROVE  /\ c # SP => Takes("Method", "method", MethodMax, "methodTruncated", c)
         /\ c # SP => Takes("Path", "path", PathMax, "pathTruncated", c)
         /\ c # CR => Takes("Version", "version", VersionMax, "versionTruncated", c)
BY DEF Takes, ParseChar, ParseMethod, ParsePath, ParseVersion

\* What is kept of one part leaves the others alone.
LEMMA LineKept ==
  ASSUME NEW q, NEW st, NEW m, NEW p, NEW d, NEW v, NEW ws, Line(q, st, m, p, d, v, ws),
         NEW x, NEW y
  PROVE  /\ Line(KeptSoFar(q, "method", x, y), st, x, p, d, v, y)
         /\ Line(KeptSoFar(q, "path", x, y), st, m, x, d, v, y)
         /\ Line(KeptSoFar(q, "version", x, y), st, m, p, d, x, y)
<1>1. ASSUME NEW field \in LineFields
      PROVE  IsRequest(KeptSoFar(q, field, x, y)) /\ Rest(KeptSoFar(q, field, x, y)) = Rest(NoRequest)
  <2>1. field \in Fields
    BY DEF LineFields, Fields
  <2>2. IsRequest(KeptSoFar(q, field, x, y))
    BY <2>1 DEF Line, KeptSoFar, IsRequest
  <2>3. Rest(KeptSoFar(q, field, x, y)) = Rest(q)
    BY <2>1 DEF Line, KeptSoFar, IsRequest, Fields, LineFields, Rest
  <2> QED
    BY <2>2, <2>3 DEF Line
<1>2. Line(KeptSoFar(q, "method", x, y), st, x, p, d, v, y)
  <2>1. "method" \in LineFields
    BY DEF LineFields
  <2> QED
    BY <1>1, <2>1 DEF Line, KeptSoFar, IsRequest, Fields
<1>3. Line(KeptSoFar(q, "path", x, y), st, m, x, d, v, y)
  <2>1. "path" \in LineFields
    BY DEF LineFields
  <2> QED
    BY <1>1, <2>1 DEF Line, KeptSoFar, IsRequest, Fields
<1>4. Line(KeptSoFar(q, "version", x, y), st, m, p, d, x, y)
  <2>1. "version" \in LineFields
    BY DEF LineFields
  <2> QED
    BY <1>1, <2>1 DEF Line, KeptSoFar, IsRequest, Fields
<1> QED
  BY <1>2, <1>3, <1>4

\* The end of a part.
LEMMA LineEnds ==
  ASSUME NEW q, NEW m, NEW p, NEW d, NEW v, NEW ws
  PROVE  /\ Line(q, "Method", m, p, d, v, ws) => Line(ParseChar(q, SP), "Path", m, p, d, v, ws)
         /\ Line(q, "Path", m, p, d, v, ws) => Line(ParseChar(q, SP), "Version", m, p, URLDecode(p), v, ws)
         /\ Line(q, "Version", m, p, d, v, ws) => Line(ParseChar(q, CR), "CR", m, p, d, v, ws)
         /\ Line(q, "CR", m, p, d, v, ws) => Line(ParseChar(q, LF), "CRLF", m, p, d, v, ws)
<1>1. ASSUME NEW st, Line(q, st, m, p, d, v, ws), NEW nx
      PROVE  Line([q EXCEPT !.state = nx], nx, m, p, d, v, ws)
  BY <1>1 DEF Line, IsRequest, Fields, Rest
<1>2. ASSUME Line(q, "Method", m, p, d, v, ws) PROVE Line(ParseChar(q, SP), "Path", m, p, d, v, ws)
  <2>1. ParseChar(q, SP) = [q EXCEPT !.state = "Path"]
    BY <1>2 DEF ParseChar, ParseMethod, Line
  <2> QED
    BY <1>1, <1>2, <2>1
<1>3. ASSUME Line(q, "Path", m, p, d, v, ws)
      PROVE  Line(ParseChar(q, SP), "Version", m, p, URLDecode(p), v, ws)
  <2>1. ParseChar(q, SP) = [q EXCEPT !.state = "Version", !.pathDecoded = URLDecode(p)]
    BY <1>3 DEF ParseChar, ParsePath, Line
  <2>2. PICK u : u = URLDecode(p)
    OBVIOUS
  <2> QED
    BY <1>3, <2>1, <2>2 DEF Line, IsRequest, Fields, Rest
<1>4. ASSUME Line(q, "Version", m, p, d, v, ws) PROVE Line(ParseChar(q, CR), "CR", m, p, d, v, ws)
  <2>1. ParseChar(q, CR) = [q EXCEPT !.state = "CR"]
    BY <1>4 DEF ParseChar, ParseVersion, Line
  <2> QED
    BY <1>1, <1>4, <2>1
<1>5. ASSUME Line(q, "CR", m, p, d, v, ws) PROVE Line(ParseChar(q, LF), "CRLF", m, p, d, v, ws)
  <2>1. ParseChar(q, LF) = [q EXCEPT !.state = "CRLF"]
    BY <1>5 DEF ParseChar, ParseCR, Line
  <2> QED
    BY <1>1, <1>5, <2>1
<1> QED
  BY <1>2, <1>3, <1>4, <1>5

FirstLine(r) == r.method \o <<SP>> \o FlattenSeq(r.path) \o <<SP>> \o r.version \o <<CR, LF>>

HeaderWarnings == {"tooManyHeaders", "headersStringPoolExhausted"}

\* The line of a request has been read.
LineHeld(q, r) ==
  /\ q.method = Shorter(r.method, MethodMax) /\ q.path = Shorter(FlattenSeq(r.path), PathMax)
  /\ q.pathDecoded = DecodedPath(r) /\ q.version = Shorter(r.version, VersionMax)
  /\ "pathTruncated" \in q.warnings <=> Len(FlattenSeq(r.path)) > PathMax

LineCut(r) ==
  Beyond(Len(r.version), VersionMax,
         Beyond(Len(FlattenSeq(r.path)), PathMax,
                Beyond(Len(r.method), MethodMax, {}, "methodTruncated"), "pathTruncated"),
         "versionTruncated")

LEMMA LineCutIs ==
  ASSUME NEW r
  PROVE  /\ LineCut(r) \cap HeaderWarnings = {}
         /\ Len(FlattenSeq(r.path)) \in Nat /\ PathMax \in Nat =>
              ("pathTruncated" \in LineCut(r) <=> Len(FlattenSeq(r.path)) > PathMax)
BY DEF LineCut, Beyond, HeaderWarnings

LEMMA Flat ==
  ASSUME NEW T, NEW s \in Seq(Seq(T))
  PROVE  FlattenSeq(s) \in Seq(T)
<1>1. PICK g : Flattens(g, s, T)
  BY FlattensExists
<1>2. FlattenSeq(s) = g[Len(s)]
  BY <1>1, FlattensIs DEF Place
<1>3. PICK m \in Nat : m = Len(s)
  OBVIOUS
<1>4. m \in 0 .. m
  OBVIOUS
<1> QED
  BY <1>1, <1>2, <1>3, <1>4 DEF Flattens

LEMMA PiecesAre == Pieces \subseteq Seq(Nat \ {SP})
<1>1. ASSUME NEW piece \in Pieces PROVE piece \in Seq(Nat \ {SP})
  <2>1. CASE \E c \in Nat \ {SP, PERCENT} : piece = <<c>>
    BY <2>1
  <2>2. CASE \E d \in 0 .. 9, e \in 0 .. 9 : piece = <<PERCENT, d, e>>
    BY <2>2 DEF PERCENT, SP
  <2> QED
    BY <2>1, <2>2, PieceForm
<1> QED
  BY <1>1

\* The first line, all of it.
LEMMA LineRead ==
  ASSUME RequestAssumption, NEW r \in Requests
  PROVE  /\ FirstLine(r) \in Seq(Chars)
         /\ Line(requestParse(NoRequest, FirstLine(r)), "CRLF", Shorter(r.method, MethodMax),
                 Shorter(FlattenSeq(r.path), PathMax), DecodedPath(r), Shorter(r.version, VersionMax),
                 LineCut(r))
<1>1. PICK m \in Seq(Nat \ {SP}) : m = r.method
  BY DEF RequestAssumption
<1>2. PICK v \in Seq(Nat \ {CR}) : v = r.version
  BY DEF RequestAssumption
<1>3. r.path \in Seq(Pieces) /\ PathMax \in Chars /\ MethodMax \in Chars /\ VersionMax \in Chars
  BY DEF RequestAssumption, Chars
<1>4. PICK f \in Seq(Nat \ {SP}) : f = FlattenSeq(r.path)
  BY <1>3, Flat, PiecesAre, SeqMonotonic
<1>5. SP \in Chars /\ CR \in Chars /\ LF \in Chars
  BY DEF SP, CR, LF, Chars
<1>6. m \in Seq(Chars) /\ v \in Seq(Chars) /\ f \in Seq(Chars)
  <2>1. Nat \ {SP} \subseteq Chars /\ Nat \ {CR} \subseteq Chars
    BY DEF Chars
  <2> QED
    BY <2>1, SeqMonotonic
<1>7. PICK s1 \in Seq(Chars) : s1 = Joins(m, One(SP))
  BY <1>5, <1>6, ParsedMore
<1>8. PICK s2 \in Seq(Chars) : s2 = Joins(s1, f)
  BY <1>6, JoinedParts
<1>9. PICK s3 \in Seq(Chars) : s3 = Joins(s2, One(SP))
  BY <1>5, ParsedMore
<1>10. PICK s4 \in Seq(Chars) : s4 = Joins(s3, v)
  BY <1>6, JoinedParts
<1>11. PICK s5 \in Seq(Chars) : s5 = Joins(s4, Two(CR, LF))
  BY <1>5, ParsedTwoMore
<1>12. FirstLine(r) = s5
  BY <1>1, <1>2, <1>4, <1>7, <1>8, <1>9, <1>10, <1>11 DEF FirstLine, Joins, One, Two
<1>13. PICK lm, lp, lv : lm = Shorter(m, MethodMax) /\ lp = Shorter(f, PathMax) /\ lv = Shorter(v, VersionMax)
  OBVIOUS
<1>14. PICK wm, wp, wv : /\ wm = Beyond(Len(m), MethodMax, {}, "methodTruncated")
                         /\ wp = Beyond(Len(f), PathMax, wm, "pathTruncated")
                         /\ wv = Beyond(Len(v), VersionMax, wp, "versionTruncated")
  OBVIOUS
<1>25. PICK none : none = {}
  OBVIOUS
<1>15. wv = LineCut(r)
  BY <1>1, <1>2, <1>4, <1>14 DEF LineCut
<1>16. PICK q0 : q0 = NoRequest /\ Line(q0, "Method", <<>>, <<>>, <<>>, <<>>, {})
  BY LineBegins
<1>17. Line(requestParse(q0, m), "Method", lm, <<>>, <<>>, <<>>, wm)
  <2>1. TakesAll("Method", "method", MethodMax, "methodTruncated", m)
    <3>1. ASSUME NEW k \in 1 .. Len(m) PROVE m[k] # SP
      OBVIOUS
    <3> QED
      BY <3>1, LineTakes DEF TakesAll
  <2>2. "method" \in LineFields /\ IsRequest(q0) /\ Bare(q0, "method", "Method", none)
    BY <1>16, <1>25 DEF Line, LineFields, Bare
  <2>3. requestParse(q0, m) = KeptSoFar(q0, "method", Shorter(m, MethodMax), Beyond(Len(m), MethodMax, none, "methodTruncated"))
    BY <1>3, <1>6, <2>1, <2>2, KeptLoop
  <2> QED
    BY <1>13, <1>14, <1>16, <1>25, <2>2, <2>3, LineKept
<1>18. Line(requestParse(q0, s1), "Path", lm, <<>>, <<>>, <<>>, wm)
  <2>1. requestParse(q0, s1) = ParseChar(requestParse(q0, m), SP)
    BY <1>5, <1>6, <1>7, ParsedMore
  <2> QED
    BY <1>17, <2>1, LineEnds
<1>19. PICK q1 : q1 = requestParse(q0, s1) /\ Line(q1, "Path", lm, <<>>, <<>>, <<>>, wm)
  BY <1>18
<1>20. Line(requestParse(q1, f), "Path", lm, lp, <<>>, <<>>, wp)
  <2>1. TakesAll("Path", "path", PathMax, "pathTruncated", f)
    <3>1. ASSUME NEW k \in 1 .. Len(f) PROVE f[k] # SP
      OBVIOUS
    <3> QED
      BY <3>1, LineTakes DEF TakesAll
  <2>2. "path" \in LineFields /\ IsRequest(q1) /\ Bare(q1, "path", "Path", wm)
    BY <1>19 DEF Line, LineFields, Bare
  <2>3. requestParse(q1, f) = KeptSoFar(q1, "path", Shorter(f, PathMax), Beyond(Len(f), PathMax, wm, "pathTruncated"))
    BY <1>3, <1>6, <2>1, <2>2, KeptLoop
  <2> QED
    BY <1>13, <1>14, <1>19, <2>2, <2>3, LineKept
<1>21. Line(requestParse(q0, s3), "Version", lm, lp, URLDecode(lp), <<>>, wp)
  <2>1. requestParse(q0, s2) = requestParse(q1, f)
    BY <1>6, <1>8, <1>19, ParsedJoin
  <2>2. requestParse(q0, s3) = ParseChar(requestParse(q1, f), SP)
    BY <1>5, <1>9, <2>1, ParsedMore
  <2> QED
    BY <1>20, <2>2, LineEnds
<1>22. PICK q2 : q2 = requestParse(q0, s3) /\ Line(q2, "Version", lm, lp, DecodedPath(r), <<>>, wp)
  BY <1>3, <1>4, <1>13, <1>21, DecodedIs DEF Chars
<1>23. Line(requestParse(q2, v), "Version", lm, lp, DecodedPath(r), lv, wv)
  <2>1. TakesAll("Version", "version", VersionMax, "versionTruncated", v)
    <3>1. ASSUME NEW k \in 1 .. Len(v) PROVE v[k] # CR
      OBVIOUS
    <3> QED
      BY <3>1, LineTakes DEF TakesAll
  <2>2. "version" \in LineFields /\ IsRequest(q2) /\ Bare(q2, "version", "Version", wp)
    BY <1>22 DEF Line, LineFields, Bare
  <2>3. requestParse(q2, v) = KeptSoFar(q2, "version", Shorter(v, VersionMax), Beyond(Len(v), VersionMax, wp, "versionTruncated"))
    BY <1>3, <1>6, <2>1, <2>2, KeptLoop
  <2> QED
    BY <1>13, <1>14, <1>22, <2>2, <2>3, LineKept
<1>24. Line(requestParse(q0, s5), "CRLF", lm, lp, DecodedPath(r), lv, wv)
  <2>1. requestParse(q0, s4) = requestParse(q2, v)
    BY <1>6, <1>10, <1>22, ParsedJoin
  <2>2. requestParse(q0, s5) = ParseChar(ParseChar(requestParse(q2, v), CR), LF)
    BY <1>5, <1>11, <2>1, ParsedTwoMore
  <2>3. PICK q3 : q3 = requestParse(q2, v)
    OBVIOUS
  <2>4. PICK q4 : q4 = ParseChar(q3, CR) /\ Line(q4, "CR", lm, lp, DecodedPath(r), lv, wv)
    BY <1>23, <2>3, LineEnds
  <2>5. Line(ParseChar(q4, LF), "CRLF", lm, lp, DecodedPath(r), lv, wv)
    BY <2>4, LineEnds
  <2> QED
    BY <2>2, <2>3, <2>4, <2>5
<1> QED
  BY <1>1, <1>2, <1>4, <1>12, <1>13, <1>15, <1>16, <1>24
---------------------------------------------------------------------------
(* The pool.                                                               *)

HeaderFields == {"name", "value"}
StringAt(a, n) == [at |-> a, length |-> n]
Exhausted(ws) == ws \cup {"headersStringPoolExhausted"}
With(pool, k, c) == [pool EXCEPT ![k] = c]

\* A string that is being stored.
PutString(b, field, x, pool, o, ws) ==
  [b EXCEPT !.header = [@ EXCEPT ![field] = x], !.string = x, !.pool = pool,
            !.headersStringPoolOffset = o, !.warnings = ws]

HasHeader(b) == IsRequest(b) /\ DOMAIN b.header = HeaderFields
                /\ b.header = [x \in HeaderFields |-> b.header[x]]

\* What there is after that.
IsPut(q, b, field, x, pool, o, ws) ==
  /\ HasHeader(q) /\ q.pool = pool /\ q.headersStringPoolOffset = o
  /\ q.warnings = ws /\ q.header[field] = x
  /\ \A f \in HeaderFields : f # field => q.header[f] = b.header[f]
  /\ \A f \in Fields \ {"header", "string", "pool", "headersStringPoolOffset", "warnings"} :
       q[f] = b[f]

\* What a request is after a string of its header has been put into it.
LEMMA PutFields ==
  ASSUME NEW b, HasHeader(b), NEW field \in HeaderFields, NEW x, NEW pool, NEW o, NEW ws,
         NEW q, q = PutString(b, field, x, pool, o, ws)
  PROVE  IsPut(q, b, field, x, pool, o, ws)
<1>1. q.header = [b.header EXCEPT ![field] = x]
  BY DEF PutString, HasHeader, IsRequest, Fields
<1>2. HasHeader(q)
  <2>1. IsRequest(q)
    BY DEF PutString, HasHeader, IsRequest, Fields
  <2> QED
    BY <1>1, <2>1 DEF HasHeader
<1>3. q.header[field] = x /\ \A f \in HeaderFields : f # field => q.header[f] = b.header[f]
  BY <1>1 DEF HasHeader
<1>4. q.pool = pool /\ q.headersStringPoolOffset = o /\ q.warnings = ws
  BY DEF PutString, HasHeader, IsRequest, Fields
<1>5. \A f \in Fields \ {"header", "string", "pool", "headersStringPoolOffset", "warnings"} :
              q[f] = b[f]
  BY DEF PutString, HasHeader, IsRequest, Fields
<1> QED
  BY <1>1, <1>2, <1>3, <1>4, <1>5 DEF IsPut

\* A string that has been started and has room, one that has none, and the
\* first character of a string.
LEMMA StoreMore ==
  ASSUME NEW q, HasHeader(q), NEW field \in HeaderFields, NEW a \in Nat, NEW n \in Nat,
         q.header[field] = StringAt(a, n), NEW o \in Nat, q.headersStringPoolOffset = o,
         NEW c, PoolLimit \in Nat
  PROVE  /\ o < PoolLimit => Stored(q, field, c) =
              PutString(q, field, StringAt(a, n + 1), With(q.pool, a + n, c), o + 1, q.warnings)
         /\ ~(o < PoolLimit) => Stored(q, field, c) =
              PutString(q, field, StringAt(a, n), q.pool, o, Exhausted(q.warnings))
<1>1. PICK on : on = [q EXCEPT !.string = StringAt(a, n)]
  OBVIOUS
<1>2. /\ IsRequest(on) /\ on.string = StringAt(a, n) /\ on.headersStringPoolOffset = o
      /\ on.pool = q.pool /\ on.warnings = q.warnings /\ on.header = q.header
  BY <1>1 DEF HasHeader, IsRequest, Fields
<1>3. StringAt(a, n).at = a /\ StringAt(a, n).length = n /\ a # None
  BY DEF StringAt, None
<1>4. PICK app : app = poolStringAppendChar(on, c)
  OBVIOUS
<1>5. Stored(q, field, c) = [app EXCEPT !.header[field] = app.string]
  BY <1>1, <1>2, <1>3, <1>4 DEF Stored
<1>6. ASSUME o < PoolLimit
      PROVE Stored(q, field, c) =
              PutString(q, field, StringAt(a, n + 1), With(q.pool, a + n, c), o + 1, q.warnings)
  <2>1. ~PoolFull(on)
    BY <1>2, <1>6 DEF PoolFull
  <2>2. app = [on EXCEPT !.pool = With(q.pool, a + n, c), !.string = StringAt(a, n + 1),
                         !.headersStringPoolOffset = o + 1]
    <3>1. PICK y : y = StringAt(a, n + 1)
      OBVIOUS
    <3>2. [on.string EXCEPT !.length = @ + 1] = y
      BY <1>2, <3>1 DEF StringAt
    <3>3. PICK p : p = With(q.pool, a + n, c)
      OBVIOUS
    <3>4. [on.pool EXCEPT ![on.string.at + on.string.length] = c] = p
      BY <1>2, <1>3, <3>3 DEF With
    <3>5. app = [on EXCEPT !.pool = [@ EXCEPT ![on.string.at + on.string.length] = c],
                           !.string.length = @ + 1, !.headersStringPoolOffset = @ + 1]
      BY <1>4, <2>1 DEF poolStringAppendChar
    <3>6. app = [on EXCEPT !.pool = p, !.string = y, !.headersStringPoolOffset = o + 1]
      BY <1>2, <3>2, <3>4, <3>5 DEF IsRequest, Fields
    <3> QED
      BY <3>1, <3>3, <3>6
  <2> QED
    BY <1>1, <1>2, <1>5, <2>2 DEF PutString, HasHeader, IsRequest, Fields
<1>7. ASSUME ~(o < PoolLimit)
      PROVE Stored(q, field, c) = PutString(q, field, StringAt(a, n), q.pool, o, Exhausted(q.warnings))
  <2>1. PoolFull(on)
    BY <1>2, <1>7 DEF PoolFull
  <2>2. app = [on EXCEPT !.warnings = Exhausted(q.warnings)]
    BY <1>2, <1>4, <2>1 DEF poolStringAppendChar, Exhausted, IsRequest, Fields
  <2> QED
    BY <1>1, <1>2, <1>5, <2>2 DEF PutString, HasHeader, IsRequest, Fields
<1> QED
  BY <1>6, <1>7

\* The first character of a string.
LEMMA StoreFirst ==
  ASSUME NEW q, HasHeader(q), NEW field \in HeaderFields, q.header[field] = NoString,
         NEW o \in Nat, q.headersStringPoolOffset = o, NEW c, PoolLimit \in Nat, PoolLimit > 0
  PROVE  /\ o = 0 => Stored(q, field, c) =
              PutString(q, field, StringAt(0, 1), With(q.pool, 0, c), 1, q.warnings)
         /\ o # 0 /\ o + 1 < PoolLimit => Stored(q, field, c) =
              PutString(q, field, StringAt(o + 1, 1), With(q.pool, o + 1, c), o + 2, q.warnings)
         /\ o # 0 /\ o + 1 = PoolLimit => Stored(q, field, c) =
              PutString(q, field, StringAt(PoolLimit, 0), q.pool, PoolLimit, Exhausted(q.warnings))
         /\ o >= PoolLimit => Stored(q, field, c) =
              PutString(q, field, NoString, q.pool, o, Exhausted(q.warnings))
<1>0. PICK L \in Nat : L = PoolLimit
  OBVIOUS
<1>1. PICK on : on = [q EXCEPT !.string = NoString]
  OBVIOUS
<1>2. /\ IsRequest(on) /\ on.string = NoString /\ on.headersStringPoolOffset = o
      /\ on.pool = q.pool /\ on.warnings = q.warnings /\ on.header = q.header
  BY <1>1 DEF HasHeader, IsRequest, Fields
<1>3. PICK started : started = poolStringStartNewString(on)
  OBVIOUS
<1>4. PICK app : app = poolStringAppendChar(started, c)
  OBVIOUS
<1>5. Stored(q, field, c) = [app EXCEPT !.header[field] = app.string]
  <2>1. NoString.at = None
    BY DEF NoString
  <2> QED
    BY <1>1, <1>2, <1>3, <1>4, <2>1 DEF Stored
<1>6. ASSUME NEW a \in Nat, NEW z \in Nat, z < L,
             started = [on EXCEPT !.headersStringPoolOffset = z, !.string = StringAt(a, 0)]
      PROVE  Stored(q, field, c) =
               PutString(q, field, StringAt(a, 1), With(q.pool, a, c), z + 1, q.warnings)
  <2>1. /\ IsRequest(started) /\ started.string = StringAt(a, 0) /\ started.headersStringPoolOffset = z
        /\ started.pool = q.pool /\ started.warnings = q.warnings
    BY <1>2, <1>6 DEF IsRequest, Fields
  <2>2. PICK y : y = StringAt(a, 1)
    OBVIOUS
  <2>3. [started.string EXCEPT !.length = @ + 1] = y
    BY <2>1, <2>2 DEF StringAt
  <2>4. PICK p : p = With(q.pool, a, c)
    OBVIOUS
  <2>5. [started.pool EXCEPT ![started.string.at + started.string.length] = c] = p
    <3>1. started.string.at + started.string.length = a
      BY <2>1 DEF StringAt
    <3> QED
      BY <2>1, <2>4, <3>1 DEF With
  <2>6. app = [started EXCEPT !.pool = [@ EXCEPT ![started.string.at + started.string.length] = c],
                           !.string.length = @ + 1, !.headersStringPoolOffset = @ + 1]
    <3>1. ~PoolFull(started)
      BY <1>0, <1>6, <2>1 DEF PoolFull
    <3> QED
      BY <1>4, <3>1 DEF poolStringAppendChar
  <2>7. app = [started EXCEPT !.pool = p, !.string = y, !.headersStringPoolOffset = z + 1]
    BY <2>1, <2>3, <2>5, <2>6 DEF IsRequest, Fields
  <2>8. app = [on EXCEPT !.pool = p, !.string = y, !.headersStringPoolOffset = z + 1]
    BY <1>2, <1>6, <2>7 DEF IsRequest, Fields
  <2>9. app = [q EXCEPT !.pool = p, !.string = y, !.headersStringPoolOffset = z + 1]
    BY <1>1, <2>8 DEF HasHeader, IsRequest, Fields
  <2> QED
    BY <1>5, <2>2, <2>4, <2>9 DEF PutString, HasHeader, IsRequest, Fields
<1>7. CASE o = 0
  <2>1. started = [on EXCEPT !.string = StringAt(0, 0)]
    BY <1>2, <1>3, <1>7 DEF poolStringStartNewString, StringAt
  <2>2. started = [on EXCEPT !.headersStringPoolOffset = 0, !.string = StringAt(0, 0)]
    BY <1>2, <1>7, <2>1 DEF IsRequest, Fields
  <2>3. Stored(q, field, c) =
               PutString(q, field, StringAt(0, 1), With(q.pool, 0, c), 0 + 1, q.warnings)
    BY <1>0, <1>6, <2>2
  <2> QED
    BY <1>7, <2>3
<1>8. ASSUME o # 0, o < L
      PROVE  started = [on EXCEPT !.headersStringPoolOffset = o + 1, !.string = StringAt(o + 1, 0)]
  BY <1>0, <1>2, <1>3, <1>8 DEF poolStringStartNewString, StringAt, PoolFull, IsRequest, Fields
<1>9. CASE o # 0 /\ o + 1 < L
  <2>1. PICK z \in Nat : z = o + 1
    OBVIOUS
  <2>2. Stored(q, field, c) =
               PutString(q, field, StringAt(z, 1), With(q.pool, z, c), z + 1, q.warnings)
    <3>1. started = [on EXCEPT !.headersStringPoolOffset = z, !.string = StringAt(z, 0)]
      BY <1>8, <1>9, <2>1
    <3> QED
      BY <1>6, <1>9, <2>1, <3>1
  <2>3. PICK y \in Nat : y = z + 1
    OBVIOUS
  <2>4. y = o + 2
    BY <2>1, <2>3
  <2>5. Stored(q, field, c) =
               PutString(q, field, StringAt(z, 1), With(q.pool, z, c), y, q.warnings)
    BY <2>2, <2>3
  <2>6. Stored(q, field, c) =
               PutString(q, field, StringAt(o + 1, 1), With(q.pool, o + 1, c), o + 2, q.warnings)
    BY <2>1, <2>4, <2>5
  <2> QED
    BY <1>0, <1>9, <2>6
<1>10. CASE o # 0 /\ o + 1 = L
  <2>0. PICK z \in Nat : z = o + 1
    OBVIOUS
  <2>6. started = [on EXCEPT !.headersStringPoolOffset = z, !.string = StringAt(z, 0)]
    BY <1>8, <1>10, <2>0
  <2>7. z = L
    BY <1>10, <2>0
  <2>1. started = [on EXCEPT !.headersStringPoolOffset = L, !.string = StringAt(L, 0)]
    BY <2>6, <2>7
  <2>2. /\ IsRequest(started) /\ started.headersStringPoolOffset = L /\ started.warnings = q.warnings
    BY <1>2, <2>1 DEF IsRequest, Fields
  <2>3. app = [started EXCEPT !.warnings = Exhausted(q.warnings)]
    <3>1. PoolFull(started)
      BY <1>0, <2>2 DEF PoolFull
    <3> QED
      BY <1>4, <2>2, <3>1 DEF poolStringAppendChar, Exhausted, IsRequest, Fields
  <2>4. app = [q EXCEPT !.headersStringPoolOffset = L, !.string = StringAt(L, 0), !.warnings = Exhausted(q.warnings)]
    <3>1. PICK y, w : y = StringAt(L, 0) /\ w = Exhausted(q.warnings)
      OBVIOUS
    <3> QED
      BY <1>1, <2>1, <2>3, <3>1 DEF HasHeader, IsRequest, Fields
  <2>5. Stored(q, field, c) =
              PutString(q, field, StringAt(L, 0), q.pool, L, Exhausted(q.warnings))
    BY <1>5, <2>4 DEF PutString, HasHeader, IsRequest, Fields
  <2> QED
    BY <1>0, <1>10, <2>5
<1>11. CASE o >= L
  <2>1. started = [on EXCEPT !.string = NoString, !.warnings = Exhausted(q.warnings)]
    BY <1>0, <1>2, <1>3, <1>11 DEF poolStringStartNewString, PoolFull, Exhausted, IsRequest, Fields
  <2>2. /\ IsRequest(started) /\ started.headersStringPoolOffset = o /\ started.warnings = Exhausted(q.warnings)
    BY <1>2, <2>1 DEF IsRequest, Fields
  <2>3. app = [started EXCEPT !.warnings = Exhausted(q.warnings)]
    <3>1. PoolFull(started)
      BY <1>0, <1>11, <2>2 DEF PoolFull
    <3>2. started.warnings \cup {"headersStringPoolExhausted"} = Exhausted(q.warnings)
      BY <2>2 DEF Exhausted
    <3> QED
      BY <1>4, <2>2, <3>1, <3>2 DEF poolStringAppendChar, IsRequest, Fields
  <2>4. app = [q EXCEPT !.string = NoString, !.warnings = Exhausted(q.warnings)]
    <3>1. PICK w : w = Exhausted(q.warnings)
      OBVIOUS
    <3> QED
      BY <1>1, <2>1, <2>3, <3>1 DEF HasHeader, IsRequest, Fields
  <2>5. Stored(q, field, c) =
              PutString(q, field, NoString, q.pool, o, Exhausted(q.warnings))
    BY <1>5, <2>4 DEF PutString, HasHeader, IsRequest, Fields
  <2> QED
    BY <1>0, <1>11, <2>5
<1> QED
  BY <1>0, <1>7, <1>9, <1>10, <1>11

\* The pool, with the first characters of a string written to it.
Filled(pool, ix, s, n) ==
  [i \in DOMAIN pool |-> IF i \in ix .. ix + n - 1 THEN s[i - ix + 1] ELSE pool[i]]

Places == 0 .. REQUEST_HEADERS_MAX_MEMORY - 1
IsPool(pool) == pool = [i \in Places |-> pool[i]]

LEMMA FilledNone ==
  ASSUME NEW pool, IsPool(pool), NEW ix \in Nat, NEW s
  PROVE  Filled(pool, ix, s, 0) = pool
<1>1. DOMAIN pool = Places
  BY DEF IsPool
<1>2. \A i \in Places : ~(i \in ix .. ix + 0 - 1)
  OBVIOUS
<1>3. Filled(pool, ix, s, 0) = [i \in Places |-> pool[i]]
  BY <1>1, <1>2 DEF Filled
<1> QED
  BY <1>3 DEF IsPool

\* A character more in the pool.
LEMMA FilledMore ==
  ASSUME NEW pool, IsPool(pool), NEW ix \in Nat, NEW n \in Nat, ix + n \in Places, NEW s,
         REQUEST_HEADERS_MAX_MEMORY \in Nat
  PROVE  With(Filled(pool, ix, s, n), ix + n, s[n + 1]) = Filled(pool, ix, s, n + 1)
<1>1. DOMAIN pool = Places /\ Places \subseteq Int
  BY DEF IsPool, Places
<1>2. PICK c : c = s[n + 1]
  OBVIOUS
<1>3. PICK p : p = Filled(pool, ix, s, n)
  OBVIOUS
<1>4. DOMAIN p = Places /\ p = [i \in Places |-> p[i]]
  BY <1>1, <1>3 DEF Filled
<1>5. PICK e \in Places : e = ix + n
  OBVIOUS
<1>6. With(p, e, c) = [i \in Places |-> IF i = e THEN c ELSE p[i]]
  BY <1>4 DEF With
<1>7. ASSUME NEW i \in Places
      PROVE  (IF i = e THEN c ELSE p[i])
             = IF i \in ix .. ix + (n + 1) - 1 THEN s[i - ix + 1] ELSE pool[i]
  <2>1. p[i] = IF i \in ix .. ix + n - 1 THEN s[i - ix + 1] ELSE pool[i]
    BY <1>1, <1>3 DEF Filled
  <2>2. CASE i = e
    <3>1. i - ix + 1 = n + 1 /\ i \in ix .. ix + (n + 1) - 1
      BY <1>1, <1>5, <2>2
    <3> QED
      BY <1>2, <2>2, <3>1
  <2>3. CASE i # e
    <3>1. i \in ix .. ix + (n + 1) - 1 <=> i \in ix .. ix + n - 1
      BY <1>1, <1>5, <2>3
    <3> QED
      BY <2>1, <2>3, <3>1
  <2> QED
    BY <2>2, <2>3
<1>8. Filled(pool, ix, s, n + 1)
      = [i \in Places |-> IF i \in ix .. ix + (n + 1) - 1 THEN s[i - ix + 1] ELSE pool[i]]
  BY <1>1 DEF Filled
<1>9. With(p, e, c) = Filled(pool, ix, s, n + 1)
  BY <1>6, <1>7, <1>8
<1> QED
  BY <1>2, <1>3, <1>5, <1>9

\* What a request keeps while a string of it is stored.
Aside == Fields \ {"state", "header", "string", "pool", "headersStringPoolOffset", "warnings"}

SameBut(q, b, st, field) ==
  /\ HasHeader(q) /\ q.state = st
  /\ \A f \in HeaderFields : f # field => q.header[f] = b.header[f]
  /\ \A f \in Aside : q[f] = b[f]

\* Where the string goes that is stored next.
Start(o) == IF o = 0 THEN 0 ELSE o + 1

\* After some characters of the string s all of it fits, the rest of it is cut
\* off, or nothing of it is there.
Fits(q, b, st, field, ix, s, k) ==
  /\ SameBut(q, b, st, field) /\ ix + k <= PoolLimit
  /\ q.header[field] = StringAt(ix, k) /\ q.pool = Filled(b.pool, ix, s, k)
  /\ q.headersStringPoolOffset = ix + k /\ q.warnings = b.warnings

Cut(q, b, st, field, ix, s) ==
  /\ SameBut(q, b, st, field) /\ ix < PoolLimit
  /\ q.header[field] = StringAt(ix, PoolLimit - ix) /\ q.pool = Filled(b.pool, ix, s, PoolLimit - ix)
  /\ q.headersStringPoolOffset = PoolLimit /\ q.warnings = Exhausted(b.warnings)

Lost(q, b, st, field) ==
  /\ SameBut(q, b, st, field)
  /\ q.header[field] = NoString \/ q.header[field] = StringAt(PoolLimit, 0)
  /\ q.pool = b.pool /\ q.headersStringPoolOffset \in Nat /\ q.headersStringPoolOffset >= PoolLimit
  /\ q.warnings = Exhausted(b.warnings)

LEMMA PutSame ==
  ASSUME NEW q, NEW b, NEW st, NEW field \in HeaderFields, SameBut(q, b, st, field),
         NEW x, NEW pool, NEW o, NEW ws, NEW n, n = PutString(q, field, x, pool, o, ws)
  PROVE  /\ SameBut(n, b, st, field) /\ n.header[field] = x /\ n.pool = pool
         /\ n.headersStringPoolOffset = o /\ n.warnings = ws
<1>1. HasHeader(q)
  BY DEF SameBut
<1>2. IsPut(n, q, field, x, pool, o, ws)
  BY <1>1, PutFields
<1>3. n.state = st
  BY <1>2 DEF SameBut, IsPut, Fields
<1>4. \A f \in Aside : n[f] = b[f]
  <2>1. Aside \subseteq Fields \ {"header", "string", "pool", "headersStringPoolOffset", "warnings"}
    BY DEF Aside
  <2> QED
    BY <1>2, <2>1 DEF SameBut, IsPut
<1>5. \A f \in HeaderFields : f # field => n.header[f] = b.header[f]
  BY <1>2 DEF SameBut, IsPut
<1> QED
  BY <1>2, <1>3, <1>4, <1>5 DEF SameBut, IsPut

LEMMA FirstStored ==
  ASSUME RequestAssumption, NEW q, NEW b, NEW st, NEW field \in HeaderFields,
         SameBut(q, b, st, field), IsPool(b.pool), q.header[field] = NoString,
         q.pool = b.pool, q.warnings = b.warnings,
         NEW o \in Nat, q.headersStringPoolOffset = o, NEW s,
         NEW ix \in Nat, ix = Start(o), NEW n, n = Stored(q, field, s[1])
  PROVE  /\ ix < PoolLimit => Fits(n, b, st, field, ix, s, 1)
         /\ ~(ix < PoolLimit) => Lost(n, b, st, field)
<1>1. PICK L \in Nat : L = PoolLimit /\ L > 0 /\ L < REQUEST_HEADERS_MAX_MEMORY - 1
  BY DEF RequestAssumption, PoolLimit
<1>2. PICK c : c = s[1]
  OBVIOUS
<1>3. HasHeader(q)
  BY DEF SameBut
<1>4. ASSUME ix < L PROVE Fits(n, b, st, field, ix, s, 1)
  <2>1. n = PutString(q, field, StringAt(ix, 1), With(q.pool, ix, c), ix + 1, q.warnings)
    <3>1. CASE o = 0
      <4>1. ix = 0 /\ ix + 1 = 1
        BY <3>1 DEF Start
      <4>2. n = PutString(q, field, StringAt(0, 1), With(q.pool, 0, c), 1, q.warnings)
        BY <1>1, <1>2, <1>3, <3>1, StoreFirst
      <4> QED
        BY <4>1, <4>2
    <3>2. CASE o # 0
      <4>1. ix = o + 1 /\ ix + 1 = o + 2
        BY <3>2 DEF Start
      <4>2. n = PutString(q, field, StringAt(o + 1, 1), With(q.pool, o + 1, c), o + 2, q.warnings)
        BY <1>1, <1>2, <1>3, <1>4, <3>2, <4>1, StoreFirst
      <4> QED
        BY <4>1, <4>2
    <3> QED
      BY <3>1, <3>2
  <2>2. With(q.pool, ix, c) = Filled(b.pool, ix, s, 1)
    <3>1. Filled(b.pool, ix, s, 0) = b.pool
      BY FilledNone
    <3>2. ix + 0 \in Places /\ REQUEST_HEADERS_MAX_MEMORY \in Nat
      BY <1>1, <1>4 DEF Places, RequestAssumption
    <3>3. PICK z \in Nat : z = 0
      OBVIOUS
    <3>4. With(Filled(b.pool, ix, s, z), ix + z, s[z + 1]) = Filled(b.pool, ix, s, z + 1)
      BY <3>2, <3>3, FilledMore
    <3>5. ix + z = ix /\ z + 1 = 1
      BY <3>3
    <3> QED
      BY <1>2, <3>1, <3>3, <3>4, <3>5
  <2>3. ix + 1 <= L
    BY <1>1, <1>4
  <2>4. PICK p, y, e : p = With(q.pool, ix, c) /\ y = StringAt(ix, 1) /\ e = ix + 1
    OBVIOUS
  <2>5. /\ SameBut(n, b, st, field) /\ n.header[field] = y /\ n.pool = p
        /\ n.headersStringPoolOffset = e /\ n.warnings = q.warnings
    BY <2>1, <2>4, PutSame
  <2> QED
    BY <1>1, <2>2, <2>3, <2>4, <2>5 DEF Fits
<1>5. ASSUME ~(ix < L) PROVE Lost(n, b, st, field)
  <2>1. o # 0 /\ (o + 1 = L \/ o >= L)
    BY <1>1, <1>5 DEF Start
  <2>2. PICK w : w = Exhausted(q.warnings)
    OBVIOUS
  <2>3. CASE o + 1 = L
    <3>1. n = PutString(q, field, StringAt(PoolLimit, 0), q.pool, PoolLimit, w)
      BY <1>1, <1>2, <1>3, <2>1, <2>2, <2>3, StoreFirst
    <3>2. PICK y : y = StringAt(PoolLimit, 0)
      OBVIOUS
    <3>3. /\ SameBut(n, b, st, field) /\ n.header[field] = y /\ n.pool = q.pool
          /\ n.headersStringPoolOffset = PoolLimit /\ n.warnings = w
      BY <3>1, <3>2, PutSame
    <3> QED
      BY <1>1, <2>2, <3>2, <3>3 DEF Lost
  <2>4. CASE o >= L
    <3>1. n = PutString(q, field, NoString, q.pool, o, w)
      BY <1>1, <1>2, <1>3, <2>1, <2>2, <2>4, StoreFirst
    <3>2. PICK y : y = NoString
      OBVIOUS
    <3>3. /\ SameBut(n, b, st, field) /\ n.header[field] = y /\ n.pool = q.pool
          /\ n.headersStringPoolOffset = o /\ n.warnings = w
      BY <3>1, <3>2, PutSame
    <3> QED
      BY <1>1, <2>2, <2>4, <3>2, <3>3 DEF Lost
  <2> QED
    BY <2>1, <2>3, <2>4
<1> QED
  BY <1>1, <1>4, <1>5

\* The last place a string is written to is within the pool.
LEMMA PoolSize ==
  ASSUME RequestAssumption
  PROVE  /\ PoolLimit \in Nat /\ PoolLimit > 0 /\ REQUEST_HEADERS_MAX_MEMORY \in Nat
         /\ \A i \in Nat : i <= PoolLimit => i \in Places
BY DEF RequestAssumption, PoolLimit, Places

\* A character more, where there is room for it.
LEMMA FitsMore ==
  ASSUME RequestAssumption, NEW q, NEW b, NEW st, NEW field \in HeaderFields, IsPool(b.pool),
         NEW ix \in Nat, NEW k \in Nat, NEW s, Fits(q, b, st, field, ix, s, k),
         NEW n, n = Stored(q, field, s[k + 1])
  PROVE  /\ ix + k + 1 <= PoolLimit => Fits(n, b, st, field, ix, s, k + 1)
         /\ ix < PoolLimit /\ ~(ix + k + 1 <= PoolLimit) => Cut(n, b, st, field, ix, s)
<1>1. PICK L \in Nat : L = PoolLimit
  BY PoolSize
<1>2. PICK c, p, x : c = s[k + 1] /\ p = q.pool /\ x = q.header[field]
  OBVIOUS
<1>3. PICK o \in Nat : o = ix + k /\ o <= L
  BY <1>1 DEF Fits
<1>7. q.headersStringPoolOffset = o
  BY <1>3 DEF Fits
<1>4. HasHeader(q) /\ SameBut(q, b, st, field) /\ q.warnings = b.warnings /\ q.header[field] = StringAt(ix, k)
      /\ p = Filled(b.pool, ix, s, k)
  BY <1>2 DEF Fits, SameBut
<1>5. ASSUME ix + k + 1 <= L PROVE Fits(n, b, st, field, ix, s, k + 1)
  <2>1. n = PutString(q, field, StringAt(ix, k + 1), With(q.pool, ix + k, c), o + 1, q.warnings)
    <3>1. o < PoolLimit
      BY <1>1, <1>3, <1>5
    <3>2. PICK d : d = s[k + 1]
      OBVIOUS
    <3>3. n = PutString(q, field, StringAt(ix, k + 1), With(q.pool, ix + k, d), o + 1, q.warnings)
      BY <1>4, <1>7, <3>1, <3>2, PoolSize, StoreMore
    <3> QED
      BY <1>2, <3>2, <3>3
  <2>2. With(q.pool, ix + k, c) = Filled(b.pool, ix, s, k + 1)
    <3>1. ix + k \in Places /\ REQUEST_HEADERS_MAX_MEMORY \in Nat
      BY <1>1, <1>5, PoolSize
    <3> QED
      BY <1>2, <1>4, <3>1, FilledMore
  <2>3. PICK y, w, e : y = StringAt(ix, k + 1) /\ w = With(q.pool, ix + k, c) /\ e = o + 1
    OBVIOUS
  <2>4. /\ SameBut(n, b, st, field) /\ n.header[field] = y /\ n.pool = w
        /\ n.headersStringPoolOffset = e /\ n.warnings = q.warnings
    BY <1>4, <2>1, <2>3, PutSame
  <2>5. e = ix + (k + 1) /\ ix + (k + 1) <= L
    BY <1>3, <1>5, <2>3
  <2> QED
    BY <1>1, <1>4, <2>2, <2>3, <2>4, <2>5 DEF Fits
<1>6. ASSUME ix < L, ~(ix + k + 1 <= L) PROVE Cut(n, b, st, field, ix, s)
  <2>1. o = L /\ k = L - ix
    BY <1>3, <1>6
  <2>2. PICK y, e : y = StringAt(ix, k) /\ e = Exhausted(q.warnings)
    OBVIOUS
  <2>3. n = PutString(q, field, y, q.pool, o, e)
    <3>1. ~(o < PoolLimit)
      BY <1>1, <2>1
    <3> QED
      BY <1>4, <1>7, <2>2, <3>1, PoolSize, StoreMore
  <2>4. /\ SameBut(n, b, st, field) /\ n.header[field] = y /\ n.pool = q.pool
        /\ n.headersStringPoolOffset = o /\ n.warnings = e
    BY <1>4, <2>3, PutSame
  <2> QED
    BY <1>1, <1>2, <1>4, <1>6, <2>1, <2>2, <2>4 DEF Cut
<1> QED
  BY <1>1, <1>5, <1>6

LEMMA ExhaustedTwice == ASSUME NEW ws PROVE Exhausted(Exhausted(ws)) = Exhausted(ws)
BY DEF Exhausted

\* None, once the pool is full.
LEMMA CutMore ==
  ASSUME RequestAssumption, NEW q, NEW b, NEW st, NEW field \in HeaderFields,
         NEW ix \in Nat, NEW s, Cut(q, b, st, field, ix, s), NEW c, NEW n, n = Stored(q, field, c)
  PROVE  Cut(n, b, st, field, ix, s)
<1>1. PICK L \in Nat : L = PoolLimit
  BY PoolSize
<1>2. /\ HasHeader(q) /\ SameBut(q, b, st, field) /\ q.warnings = Exhausted(b.warnings) /\ ix < L
      /\ q.header[field] = StringAt(ix, L - ix) /\ q.headersStringPoolOffset = L
  BY <1>1 DEF Cut, SameBut
<1>3. PICK y, e : y = StringAt(ix, L - ix) /\ e = Exhausted(q.warnings)
  OBVIOUS
<1>4. n = PutString(q, field, y, q.pool, L, e)
  <2>1. PICK k \in Nat : k = L - ix
    BY <1>2
  <2>2. ~(L < PoolLimit) /\ q.header[field] = StringAt(ix, k)
    BY <1>1, <1>2, <2>1
  <2>3. n = PutString(q, field, StringAt(ix, k), q.pool, L, Exhausted(q.warnings))
    BY <1>1, <1>2, <2>2, StoreMore
  <2> QED
    BY <1>3, <2>1, <2>3
<1>5. /\ SameBut(n, b, st, field) /\ n.header[field] = y /\ n.pool = q.pool
      /\ n.headersStringPoolOffset = L /\ n.warnings = e
  BY <1>2, <1>4, PutSame
<1>6. e = Exhausted(b.warnings)
  BY <1>2, <1>3, ExhaustedTwice
<1>7. q.pool = Filled(b.pool, ix, s, L - ix)
  BY <1>1 DEF Cut
<1> QED
  BY <1>1, <1>2, <1>3, <1>5, <1>6, <1>7 DEF Cut

\* None, when the string could not even begin.
LEMMA LostMore ==
  ASSUME RequestAssumption, NEW q, NEW b, NEW st, NEW field \in HeaderFields,
         Lost(q, b, st, field), NEW c, NEW n, n = Stored(q, field, c)
  PROVE  Lost(n, b, st, field)
<1>1. PICK L \in Nat : L = PoolLimit /\ L > 0
  BY PoolSize
<1>2. PICK o \in Nat : q.headersStringPoolOffset = o /\ o >= L
  BY <1>1 DEF Lost
<1>3. /\ HasHeader(q) /\ SameBut(q, b, st, field) /\ q.warnings = Exhausted(b.warnings)
      /\ q.pool = b.pool
  BY DEF Lost, SameBut
<1>4. PICK e : e = Exhausted(q.warnings)
  OBVIOUS
<1>5. e = Exhausted(b.warnings)
  BY <1>3, <1>4, ExhaustedTwice
<1>6. \E y : (y = NoString \/ y = StringAt(L, 0)) /\ n = PutString(q, field, y, q.pool, o, e)
  <2>1. CASE q.header[field] = NoString
    BY <1>1, <1>2, <1>3, <1>4, <2>1, StoreFirst
  <2>2. CASE q.header[field] = StringAt(PoolLimit, 0)
    <3>1. PICK z \in Nat : z = 0
      OBVIOUS
    <3>2. n = PutString(q, field, StringAt(L, z), q.pool, o, Exhausted(q.warnings))
      <4>1. ~(o < PoolLimit) /\ q.header[field] = StringAt(L, z)
        BY <1>1, <1>2, <2>2, <3>1
      <4> QED
        BY <1>2, <1>3, <4>1, PoolSize, StoreMore
    <3> QED
      BY <1>4, <3>1, <3>2
  <2> QED
    BY <2>1, <2>2 DEF Lost
<1>7. PICK y : (y = NoString \/ y = StringAt(L, 0)) /\ n = PutString(q, field, y, q.pool, o, e)
  BY <1>6
<1>8. /\ SameBut(n, b, st, field) /\ n.header[field] = y /\ n.pool = q.pool
      /\ n.headersStringPoolOffset = o /\ n.warnings = e
  BY <1>3, <1>7, PutSame
<1> QED
  BY <1>1, <1>2, <1>3, <1>5, <1>7, <1>8 DEF Lost

\* A state in which the characters of a string are stored; a space before a
\* value is passed over.
Stores(st, field, c) ==
  \A q : q.state = st =>
    \/ ParseChar(q, c) = Stored(q, field, c)
    \/ q.header[field].length = 0 /\ ParseChar(q, c) = q

StoresAll(st, field, s) == \A k \in 1 .. Len(s) : Stores(st, field, s[k])

\* What a string of n characters is after all of them.
StringRead(q, b, st, field, ix, s, n) ==
  /\ ix + n <= PoolLimit => Fits(q, b, st, field, ix, s, n)
  /\ ix < PoolLimit /\ ~(ix + n <= PoolLimit) => Cut(q, b, st, field, ix, s)
  /\ ~(ix < PoolLimit) => Lost(q, b, st, field)

\* So a character leads from what a string is to what it is with one more.
LEMMA StringMore ==
  ASSUME RequestAssumption, NEW q, NEW b, NEW st, NEW field \in HeaderFields, IsPool(b.pool),
         NEW ix \in Nat, NEW k \in Nat, k > 0, NEW s, StringRead(q, b, st, field, ix, s, k),
         Stores(st, field, s[k + 1]), NEW n, n = ParseChar(q, s[k + 1])
  PROVE  StringRead(n, b, st, field, ix, s, k + 1)
<1>1. PICK L \in Nat : L = PoolLimit
  BY PoolSize
<1>2. PICK c : c = s[k + 1]
  OBVIOUS
<1>3. q.state = st
  BY <1>1 DEF StringRead, Fits, Cut, Lost, SameBut
<1>4. n = Stored(q, field, c) \/ (q.header[field].length = 0 /\ n = q)
  BY <1>2, <1>3 DEF Stores
<1>5. CASE ix + k <= L /\ ix < L
  <2>1. Fits(q, b, st, field, ix, s, k)
    BY <1>1, <1>5 DEF StringRead
  <2>2. n = Stored(q, field, s[k + 1])
    <3>1. q.header[field].length = k
      BY <2>1 DEF Fits, StringAt
    <3> QED
      BY <1>2, <1>4, <3>1
  <2>3. ix + (k + 1) = ix + k + 1
    OBVIOUS
  <2>4. /\ ix + k + 1 <= PoolLimit => Fits(n, b, st, field, ix, s, k + 1)
        /\ ix < PoolLimit /\ ~(ix + k + 1 <= PoolLimit) => Cut(n, b, st, field, ix, s)
    BY <2>1, <2>2, FitsMore
  <2> QED
    BY <1>1, <1>5, <2>3, <2>4 DEF StringRead
<1>6. CASE ~(ix + k <= L) /\ ix < L
  <2>1. Cut(q, b, st, field, ix, s)
    BY <1>1, <1>6 DEF StringRead
  <2>2. n = Stored(q, field, c)
    <3>1. q.header[field].length = L - ix /\ L - ix # 0
      BY <1>1, <1>6, <2>1 DEF Cut, StringAt
    <3> QED
      BY <1>4, <3>1
  <2>3. Cut(n, b, st, field, ix, s)
    BY <2>1, <2>2, CutMore
  <2> QED
    BY <1>1, <1>6, <2>3 DEF StringRead
<1>7. CASE ~(ix < L)
  <2>1. Lost(q, b, st, field)
    BY <1>1, <1>7 DEF StringRead
  <2>2. Lost(n, b, st, field)
    BY <1>4, <2>1, LostMore
  <2> QED
    BY <1>1, <1>7, <2>2 DEF StringRead
<1> QED
  BY <1>5, <1>6, <1>7

\* A string of any length.
LEMMA StringLoop ==
  ASSUME RequestAssumption, NEW b, NEW st, NEW field \in HeaderFields, IsPool(b.pool),
         NEW ix \in Nat, NEW s, NEW m \in Nat, Len(s) = m, m > 0, StoresAll(st, field, s),
         NEW f, Steps(f, s, m), StringRead(f[1], b, st, field, ix, s, 1)
  PROVE  StringRead(f[m], b, st, field, ix, s, m)
<1> DEFINE S == {k \in Nat : 0 < k /\ k <= m => StringRead(f[k], b, st, field, ix, s, k)}
<1>1. 0 \in S
  OBVIOUS
<1>2. ASSUME NEW k \in Nat, k \in S PROVE k + 1 \in S
  <2>1. SUFFICES ASSUME k + 1 <= m PROVE StringRead(f[k + 1], b, st, field, ix, s, k + 1)
    OBVIOUS
  <2>2. CASE k = 0
    BY <2>2
  <2>3. CASE k > 0
    <3>1. StringRead(f[k], b, st, field, ix, s, k)
      BY <1>2, <2>1, <2>3
    <3>2. f[k + 1] = ParseChar(f[k], s[k + 1])
      <4>1. k \in 0 .. m - 1
        BY <2>1
      <4> QED
        BY <4>1 DEF Steps
    <3>3. Stores(st, field, s[k + 1])
      <4>1. k + 1 \in 1 .. Len(s)
        BY <2>1
      <4> QED
        BY <4>1 DEF StoresAll
    <3>4. PICK q, n : q = f[k] /\ n = f[k + 1]
      OBVIOUS
    <3> QED
      BY <2>3, <3>1, <3>2, <3>3, <3>4, StringMore
  <2> QED
    BY <2>2, <2>3
<1>3. m \in S
  <2> HIDE DEF S
  <2> QED
    BY <1>1, <1>2, SetInduction
<1> QED
  BY <1>3

---------------------------------------------------------------------------
(* The name and the value of a header.                                     *)

\* The same request, in another state.
InState(b, st) == [b EXCEPT !.state = st]

LEMMA InStateSame ==
  ASSUME NEW b, HasHeader(b), NEW st, NEW n, n = InState(b, st), NEW field \in HeaderFields
  PROVE  SameBut(n, b, st, field) /\ n.header = b.header /\ n.pool = b.pool /\ n.warnings = b.warnings
         /\ n.headersStringPoolOffset = b.headersStringPoolOffset
BY DEF InState, SameBut, HasHeader, IsRequest, Fields, Aside

\* A header may begin: there is room for one.
AtHeader(b) ==
  /\ HasHeader(b) /\ IsPool(b.pool) /\ b.header.name = NoString /\ b.header.value = NoString
  /\ b.headersStringPoolOffset \in Nat

\* The name of a header.
LEMMA NameRead ==
  ASSUME RequestAssumption, NEW b, AtHeader(b), b.state = "CRLF",
         ~(Len(b.headers) >= REQUEST_MAX_HEADERS), b.warnings \cap HeaderWarnings = {},
         NEW s \in Seq(Chars), s # <<>>, \A k \in 1 .. Len(s) : s[k] # COLON /\ s[k] # CR,
         NEW ix \in Nat, ix = Start(b.headersStringPoolOffset)
  PROVE  StringRead(requestParse(b, s), b, "HeaderName", "name", ix, s, Len(s))
<1>1. PICK m \in Nat : m = Len(s) /\ m > 0
  BY EmptySeq DEF Chars
<1>2. PICK f : f = ParsedOf(b, s)
  OBVIOUS
<1>3. f[0] = b /\ Steps(f, s, m) /\ requestParse(b, s) = Place(f, m)
  BY <1>1, <1>2, ParsedSteps
<1>4. PICK c : c = s[1] /\ c # COLON /\ c # CR
  BY <1>1
<1>5. f[1] = ParseChar(b, c)
  <2>1. 0 \in 0 .. m - 1 /\ 0 + 1 = 1
    BY <1>1
  <2> QED
    BY <1>3, <1>4, <2>1 DEF Steps
<1>6. PICK q : q = InState(b, "HeaderName")
  OBVIOUS
<1>7. stateHeaderNameIfSpaceLeft(b) = q
  BY <1>6 DEF stateHeaderNameIfSpaceLeft, HeaderWarnings, InState
<1>8. q.state = "HeaderName"
  BY <1>6 DEF InState, AtHeader, HasHeader, IsRequest, Fields
<1>9. f[1] = Stored(q, "name", c)
  BY <1>4, <1>5, <1>7, <1>8 DEF ParseChar, ParseCRLF, ParseHeaderName
<1>10. "name" \in HeaderFields /\ HasHeader(b) /\ IsPool(b.pool)
  BY DEF HeaderFields, AtHeader
<1>11. SameBut(q, b, "HeaderName", "name") /\ q.header = b.header /\ q.pool = b.pool /\ q.warnings = b.warnings
         /\ q.headersStringPoolOffset = b.headersStringPoolOffset
  BY <1>6, <1>10, InStateSame
<1>12. PICK o \in Nat : q.headersStringPoolOffset = o /\ ix = Start(o)
  BY <1>11 DEF AtHeader
<1>13. q.header["name"] = NoString
  BY <1>11 DEF AtHeader
<1>14. /\ ix < PoolLimit => Fits(f[1], b, "HeaderName", "name", ix, s, 1)
       /\ ~(ix < PoolLimit) => Lost(f[1], b, "HeaderName", "name")
  <2>1. PICK n : n = f[1] /\ n = Stored(q, "name", s[1])
    BY <1>4, <1>9
  <2> QED
    BY <1>10, <1>11, <1>12, <1>13, <2>1, FirstStored
<1>15. StringRead(f[1], b, "HeaderName", "name", ix, s, 1)
  BY <1>14, PoolSize DEF StringRead
<1>16. StoresAll("HeaderName", "name", s)
  BY DEF StoresAll, Stores, ParseChar, ParseHeaderName
<1>17. StringRead(f[m], b, "HeaderName", "name", ix, s, m)
  BY <1>1, <1>3, <1>10, <1>15, <1>16, StringLoop
<1> QED
  BY <1>1, <1>3, <1>17 DEF Place

\* Its value.
LEMMA ValueRead ==
  ASSUME RequestAssumption, NEW b, HasHeader(b), IsPool(b.pool), b.header.value = NoString,
         b.headersStringPoolOffset \in Nat, b.state = "HeaderValue",
         NEW s \in Seq(Chars), s # <<>>, s[1] # SP, \A k \in 1 .. Len(s) : s[k] # CR,
         NEW ix \in Nat, ix = Start(b.headersStringPoolOffset)
  PROVE  StringRead(requestParse(b, s), b, "HeaderValue", "value", ix, s, Len(s))
<1>1. PICK m \in Nat : m = Len(s) /\ m > 0
  BY EmptySeq DEF Chars
<1>2. PICK f : f = ParsedOf(b, s)
  OBVIOUS
<1>3. f[0] = b /\ Steps(f, s, m) /\ requestParse(b, s) = Place(f, m)
  BY <1>1, <1>2, ParsedSteps
<1>4. PICK c : c = s[1] /\ c # SP /\ c # CR
  BY <1>1
<1>5. f[1] = ParseChar(b, c)
  <2>1. 0 \in 0 .. m - 1 /\ 0 + 1 = 1
    BY <1>1
  <2> QED
    BY <1>3, <1>4, <2>1 DEF Steps
<1>9. f[1] = Stored(b, "value", c)
  BY <1>4, <1>5 DEF ParseChar, ParseHeaderValue
<1>10. "value" \in HeaderFields
  BY DEF HeaderFields
<1>11. SameBut(b, b, "HeaderValue", "value") /\ b.header["value"] = NoString
  BY DEF SameBut
<1>12. PICK o \in Nat : b.headersStringPoolOffset = o /\ ix = Start(o)
  OBVIOUS
<1>14. /\ ix < PoolLimit => Fits(f[1], b, "HeaderValue", "value", ix, s, 1)
       /\ ~(ix < PoolLimit) => Lost(f[1], b, "HeaderValue", "value")
  <2>1. PICK n : n = f[1] /\ n = Stored(b, "value", s[1])
    BY <1>4, <1>9
  <2> QED
    BY <1>10, <1>11, <1>12, <2>1, FirstStored
<1>15. StringRead(f[1], b, "HeaderValue", "value", ix, s, 1)
  BY <1>14, PoolSize DEF StringRead
<1>16. StoresAll("HeaderValue", "value", s)
  BY DEF StoresAll, Stores, ParseChar, ParseHeaderValue
<1>17. StringRead(f[m], b, "HeaderValue", "value", ix, s, m)
  BY <1>1, <1>3, <1>10, <1>15, <1>16, StringLoop
<1> QED
  BY <1>1, <1>3, <1>17 DEF Place

\* The colon and the space after the name.
LEMMA ColonRead ==
  ASSUME NEW q, HasHeader(q), q.state = "HeaderName", q.header.value = NoString,
         NEW n, n = ParseChar(ParseChar(q, COLON), SP)
  PROVE  n = InState(q, "HeaderValue")
<1>1. ParseChar(q, COLON) = InState(q, "HeaderValue")
  BY DEF ParseChar, ParseHeaderName, InState
<1>2. PICK i : i = InState(q, "HeaderValue")
  OBVIOUS
<1>3. i.state = "HeaderValue" /\ i.header = q.header
  BY <1>2 DEF InState, HasHeader, IsRequest, Fields
<1>4. i.header.value.length = 0
  BY <1>3 DEF NoString
<1> QED
  BY <1>1, <1>2, <1>3, <1>4 DEF ParseChar, ParseHeaderValue

\* The end of the line.
LEMMA ValueEnds ==
  ASSUME NEW q, HasHeader(q), q.state = "HeaderValue",
         NEW n, n = ParseChar(ParseChar(q, CR), LF)
  PROVE  /\ FilledOut(q) => n = [q EXCEPT !.state = "CRLF", !.headers = Append(q.headers, q.header),
                                           !.header = NoHeader]
         /\ ~FilledOut(q) => n = InState(q, "CRLF")
<1>1. PICK i : i = ParseChar(q, CR)
  OBVIOUS
<1>2. i = [q EXCEPT !.state = "CR", !.headers = IF FilledOut(q) THEN Append(@, q.header) ELSE @,
                      !.header = IF FilledOut(q) THEN NoHeader ELSE @]
  BY <1>1 DEF ParseChar, ParseHeaderValue, CR, SP
<1>3. i.state = "CR"
  BY <1>2 DEF HasHeader, IsRequest, Fields
<1>4. n = [i EXCEPT !.state = "CRLF"]
  BY <1>1, <1>3 DEF ParseChar, ParseCR
<1>5. CASE FilledOut(q)
  <2>1. i = [q EXCEPT !.state = "CR", !.headers = Append(q.headers, q.header), !.header = NoHeader]
    BY <1>2, <1>5 DEF HasHeader, IsRequest, Fields
  <2>2. PICK hs : hs = Append(q.headers, q.header)
    OBVIOUS
  <2>3. n = [q EXCEPT !.state = "CRLF", !.headers = hs, !.header = NoHeader]
    BY <1>4, <2>1, <2>2 DEF HasHeader, IsRequest, Fields
  <2> QED
    BY <1>5, <2>2, <2>3
<1>6. CASE ~FilledOut(q)
  <2>1. i = [q EXCEPT !.state = "CR"]
    BY <1>2, <1>6 DEF HasHeader, IsRequest, Fields
  <2>3. n = InState(q, "CRLF")
    BY <1>4, <2>1 DEF HasHeader, IsRequest, Fields, InState
  <2> QED
    BY <1>6, <2>3
<1> QED
  BY <1>5, <1>6

\* A header there is no room for is passed over.
Eaten(q, b, st) ==
  /\ IsRequest(q) /\ q.state = st
  /\ \A f \in Fields \ {"state", "warnings"} : q[f] = b[f]
  /\ b.warnings \subseteq q.warnings /\ q.warnings \subseteq b.warnings \cup HeaderWarnings
  /\ q.warnings \cap HeaderWarnings # {}

Eats(b) ==
  \/ Len(b.headers) >= REQUEST_MAX_HEADERS
  \/ "headersStringPoolExhausted" \in b.warnings

\* The first character of a header there is no room for.
LEMMA EatBegins ==
  ASSUME NEW b, IsRequest(b), b.state = "CRLF", Eats(b), NEW c, c # CR
  PROVE  Eaten(ParseChar(b, c), b, "EatHeaders")
<1>1. PICK next : next = stateHeaderNameIfSpaceLeft(b)
  OBVIOUS
<1>2. next.state = "EatHeaders" /\ Eaten(next, b, "EatHeaders")
  <2>1. CASE Len(b.headers) >= REQUEST_MAX_HEADERS
    <3>1. next = [b EXCEPT !.state = "EatHeaders", !.warnings = @ \cup {"tooManyHeaders"}]
      BY <1>1, <2>1 DEF stateHeaderNameIfSpaceLeft
    <3> QED
      BY <3>1 DEF Eaten, IsRequest, Fields, HeaderWarnings
  <2>2. CASE "headersStringPoolExhausted" \in b.warnings /\ ~(Len(b.headers) >= REQUEST_MAX_HEADERS)
    <3>1. next = [b EXCEPT !.state = "EatHeaders"]
      BY <1>1, <2>2 DEF stateHeaderNameIfSpaceLeft
    <3> QED
      BY <2>2, <3>1 DEF Eaten, IsRequest, Fields, HeaderWarnings
  <2> QED
    BY <2>1, <2>2 DEF Eats
<1>3. ParseChar(b, c) = next
  BY <1>1, <1>2 DEF ParseChar, ParseCRLF
<1> QED
  BY <1>2, <1>3

\* All other characters of it.
LEMMA EatRun ==
  ASSUME NEW b, IsRequest(b), b.state = "CRLF", Eats(b),
         NEW s \in Seq(Chars), s # <<>>, \A k \in 1 .. Len(s) : s[k] # CR
  PROVE  Eaten(requestParse(b, s), b, "EatHeaders")
<1>1. PICK m \in Nat : m = Len(s) /\ m > 0
  BY EmptySeq DEF Chars
<1>2. PICK f : f = ParsedOf(b, s)
  OBVIOUS
<1>3. f[0] = b /\ Steps(f, s, m) /\ requestParse(b, s) = Place(f, m)
  BY <1>1, <1>2, ParsedSteps
<1>4. Eaten(f[1], b, "EatHeaders")
  <2>1. 0 \in 0 .. m - 1 /\ 0 + 1 = 1 /\ 1 \in 1 .. m
    BY <1>1
  <2>2. f[1] = ParseChar(b, s[1]) /\ s[1] # CR
    BY <1>1, <1>3, <2>1 DEF Steps
  <2> QED
    BY <2>2, EatBegins
<1> DEFINE S == {k \in Nat : 0 < k /\ k <= m => Eaten(f[k], b, "EatHeaders")}
<1>5. 0 \in S
  OBVIOUS
<1>6. ASSUME NEW k \in Nat, k \in S PROVE k + 1 \in S
  <2>1. SUFFICES ASSUME k + 1 <= m PROVE Eaten(f[k + 1], b, "EatHeaders")
    OBVIOUS
  <2>2. CASE k = 0
    BY <1>4, <2>2
  <2>3. CASE k > 0
    <3>1. Eaten(f[k], b, "EatHeaders")
      BY <1>6, <2>1, <2>3
    <3>2. f[k + 1] = ParseChar(f[k], s[k + 1])
      <4>1. k \in 0 .. m - 1
        BY <2>1
      <4> QED
        BY <1>3, <4>1 DEF Steps
    <3>3. s[k + 1] # CR
      BY <1>1, <2>1
    <3>4. ParseChar(f[k], s[k + 1]) = f[k]
      BY <3>1, <3>3 DEF ParseChar, ParseEatHeaders, Eaten
    <3> QED
      BY <3>1, <3>2, <3>4
  <2> QED
    BY <2>2, <2>3
<1>7. m \in S
  <2> HIDE DEF S
  <2> QED
    BY <1>5, <1>6, SetInduction
<1> QED
  BY <1>1, <1>3, <1>7 DEF Place

\* The end of its line.
LEMMA EatEnds ==
  ASSUME NEW b, NEW q, Eaten(q, b, "EatHeaders"), NEW n, n = ParseChar(ParseChar(q, CR), LF)
  PROVE  Eaten(n, b, "CRLF")
<1>1. PICK i : i = ParseChar(q, CR)
  OBVIOUS
<1>2. i = [q EXCEPT !.state = "CR"]
  BY <1>1 DEF ParseChar, ParseEatHeaders, Eaten
<1>3. i.state = "CR"
  BY <1>2 DEF Eaten, IsRequest, Fields
<1>4. n = [i EXCEPT !.state = "CRLF"]
  BY <1>1, <1>3 DEF ParseChar, ParseCR
<1>5. n = [q EXCEPT !.state = "CRLF"]
  BY <1>2, <1>4 DEF Eaten, IsRequest, Fields
<1> QED
  BY <1>5 DEF Eaten, IsRequest, Fields

---------------------------------------------------------------------------
(* Where the headers of a request lie in the pool.                         *)

\* The lengths of the name and of the value of a header.
NameLen(r, k) == Len(r.headers[k].name)
ValueLen(r, k) == Len(r.headers[k].value)

NextName(r, a, k) == a + NameLen(r, k) + 1 + ValueLen(r, k) + 1
Chain(f, r, m) == f[1] = 0 /\ \A j \in 1 .. m - 1 : f[j + 1] = NextName(r, f[j], j)
NameLoop(f, r, m) ==
  f = [j \in 1 .. m |-> IF j = 1 THEN 0
                        ELSE f[j - 1] + NameLen(r, j - 1) + 1 + ValueLen(r, j - 1) + 1]

\* The function NameAt is defined by exists.
LEMMA NameLoopExists ==
  ASSUME NEW r, NEW m \in Nat, m > 0
  PROVE  \E f : NameLoop(f, r, m)
<1> DEFINE S == {n \in Nat : n > 0 => \E f : Chain(f, r, n)}
<1>1. 0 \in S
  OBVIOUS
<1>2. ASSUME NEW n \in Nat, n \in S PROVE n + 1 \in S
  <2>1. CASE n = 0
    <3>1. Chain([j \in 1 .. 1 |-> 0], r, n + 1)
      BY <2>1 DEF Chain
    <3> QED
      BY <3>1
  <2>2. CASE n > 0
    <3>1. PICK f : Chain(f, r, n)
      BY <1>2, <2>2
    <3>2. PICK x : x = NextName(r, f[n], n)
      OBVIOUS
    <3> DEFINE h == [j \in 1 .. n + 1 |-> IF j = n + 1 THEN x ELSE f[j]]
    <3>3. h[1] = 0
      BY <2>2, <3>1 DEF Chain
    <3>4. ASSUME NEW j \in 1 .. (n + 1) - 1 PROVE h[j + 1] = NextName(r, h[j], j)
      <4>1. h[j] = f[j]
        OBVIOUS
      <4>2. CASE j = n
        BY <3>2, <4>1, <4>2
      <4>3. CASE j \in 1 .. n - 1
        <5>1. h[j + 1] = f[j + 1]
          BY <4>3
        <5> QED
          BY <3>1, <4>1, <4>3, <5>1 DEF Chain
      <4> QED
        BY <4>2, <4>3
    <3> HIDE DEF h
    <3>5. Chain(h, r, n + 1)
      BY <3>3, <3>4 DEF Chain
    <3> QED
      BY <3>5
  <2> QED
    BY <2>1, <2>2
<1>3. m \in S
  <2> HIDE DEF S
  <2> QED
    BY <1>1, <1>2, SetInduction
<1>4. PICK f : Chain(f, r, m)
  BY <1>3
<1> DEFINE g == [j \in 1 .. m |-> f[j]]
<1>5. ASSUME NEW j \in 1 .. m
      PROVE  g[j] = IF j = 1 THEN 0 ELSE g[j - 1] + NameLen(r, j - 1) + 1 + ValueLen(r, j - 1) + 1
  <2>1. CASE j = 1
    BY <1>4, <2>1 DEF Chain
  <2>2. CASE j # 1
    <3>1. PICK i \in 1 .. m - 1 : j = i + 1 /\ i = j - 1
      BY <2>2
    <3>2. g[j] = f[j] /\ g[i] = f[i]
      BY <3>1
    <3>3. f[i + 1] = NextName(r, f[i], i)
      BY <1>4 DEF Chain
    <3>4. g[j] = NextName(r, g[i], i)
      BY <3>1, <3>2, <3>3
    <3> QED
      BY <2>2, <3>1, <3>4 DEF NextName
  <2> QED
    BY <2>1, <2>2
<1>6. g = [j \in 1 .. m |-> g[j]]
  OBVIOUS
<1> HIDE DEF g
<1>7. NameLoop(g, r, m)
  BY <1>5, <1>6 DEF NameLoop
<1> QED
  BY <1>7

\* Each header begins behind the one before it.
LEMMA NameChain ==
  ASSUME NEW r, NEW m \in Nat, m > 0
  PROVE  \E f : Chain(f, r, m) /\ NameAt(r, m) = Place(f, m)
<1>1. PICK f : f = (CHOOSE g : NameLoop(g, r, m)) /\ NameLoop(f, r, m)
  BY NameLoopExists
<1>2. NameAt(r, m) = Place(f, m)
  BY <1>1 DEF NameAt, NameLoop, NameLen, ValueLen, Place
<1>3. f[1] = 0
  <2>1. \A j \in 1 .. m : f[j] = IF j = 1 THEN 0
                                 ELSE f[j - 1] + NameLen(r, j - 1) + 1 + ValueLen(r, j - 1) + 1
    BY <1>1 DEF NameLoop
  <2>2. 1 \in 1 .. m
    OBVIOUS
  <2> QED
    BY <2>1, <2>2
<1>4. ASSUME NEW j \in 1 .. m - 1 PROVE f[j + 1] = NextName(r, f[j], j)
  <2>1. PICK i \in 1 .. m : i = j + 1 /\ i # 1 /\ i - 1 = j
    OBVIOUS
  <2>2. f[i] = f[i - 1] + NameLen(r, i - 1) + 1 + ValueLen(r, i - 1) + 1
    BY <1>1, <2>1 DEF NameLoop
  <2> QED
    BY <2>1, <2>2 DEF NextName
<1> QED
  BY <1>2, <1>3, <1>4 DEF Chain

LEMMA ChainsAgree ==
  ASSUME NEW r, NEW m \in Nat, m > 0, NEW f, NEW g, Chain(f, r, m), Chain(g, r, m)
  PROVE  Place(f, m) = Place(g, m)
<1> DEFINE S == {n \in Nat : 0 < n /\ n <= m => f[n] = g[n]}
<1>1. 0 \in S
  OBVIOUS
<1>2. ASSUME NEW n \in Nat, n \in S PROVE n + 1 \in S
  <2>1. CASE n = 0
    BY <2>1 DEF Chain
  <2>2. CASE n > 0
    <3>1. SUFFICES ASSUME n + 1 <= m PROVE f[n + 1] = g[n + 1]
      OBVIOUS
    <3>2. n \in 1 .. m - 1 /\ f[n] = g[n]
      BY <1>2, <2>2, <3>1
    <3>3. f[n + 1] = NextName(r, f[n], n) /\ g[n + 1] = NextName(r, g[n], n)
      BY <3>2 DEF Chain
    <3> QED
      BY <3>2, <3>3
  <2> QED
    BY <2>1, <2>2
<1>3. m \in S
  <2> HIDE DEF S
  <2> QED
    BY <1>1, <1>2, SetInduction
<1> QED
  BY <1>3 DEF Place

\* NameAt, one header after the other.
LEMMA NamesAt ==
  ASSUME NEW r
  PROVE  /\ NameAt(r, 1) = 0
         /\ \A k \in Nat : k > 0 => NameAt(r, k + 1) = NextName(r, NameAt(r, k), k)
<1>1. NameAt(r, 1) = 0
  <2>1. PICK f : Chain(f, r, 1) /\ NameAt(r, 1) = Place(f, 1)
    BY NameChain
  <2> QED
    BY <2>1 DEF Chain, Place
<1>2. ASSUME NEW k \in Nat, k > 0 PROVE NameAt(r, k + 1) = NextName(r, NameAt(r, k), k)
  <2>1. PICK f : Chain(f, r, k + 1) /\ NameAt(r, k + 1) = Place(f, k + 1)
    BY NameChain
  <2>2. PICK g : Chain(g, r, k) /\ NameAt(r, k) = Place(g, k)
    BY <1>2, NameChain
  <2>3. Chain(f, r, k) /\ f[k + 1] = NextName(r, f[k], k)
    BY <1>2, <2>1 DEF Chain
  <2>4. Place(f, k) = Place(g, k)
    BY <1>2, <2>2, <2>3, ChainsAgree
  <2> QED
    BY <2>1, <2>2, <2>3, <2>4 DEF Place
<1> QED
  BY <1>1, <1>2

\* A string of the pool, and what has not been written yet.
TextAt(pool, ix, s, n) ==
  /\ ix + n \in Places /\ pool[ix + n] = NUL
  /\ \A i \in 1 .. n : pool[ix + i - 1] = s[i]

Clear(pool, o) == \A i \in Places : i >= o => pool[i] = NUL

LEMMA FilledAt ==
  ASSUME NEW pool, IsPool(pool), NEW ix, NEW s, NEW n, NEW p, p = Filled(pool, ix, s, n)
  PROVE  /\ IsPool(p)
         /\ \A i \in Places : p[i] = IF i \in ix .. ix + n - 1 THEN s[i - ix + 1] ELSE pool[i]
BY DEF IsPool, Filled

\* A string that has been written is there.
LEMMA TextFilled ==
  ASSUME NEW pool, IsPool(pool), NEW ix \in Nat, NEW n \in Nat, ix + n \in Places, NEW s,
         NEW o \in Nat, Clear(pool, o), o <= ix,
         REQUEST_HEADERS_MAX_MEMORY \in Nat, NEW p, p = Filled(pool, ix, s, n)
  PROVE  TextAt(p, ix, s, n) /\ Clear(p, ix + n)
<1>1. \A i \in Places : p[i] = IF i \in ix .. ix + n - 1 THEN s[i - ix + 1] ELSE pool[i]
  BY FilledAt
<1>2. PICK e \in Places : e = ix + n /\ e >= o
  OBVIOUS
<1>3. p[e] = NUL
  <2>1. ~(e \in ix .. ix + n - 1)
    BY <1>2
  <2> QED
    BY <1>1, <1>2, <2>1 DEF Clear
<1>4. ASSUME NEW i \in 1 .. n PROVE p[ix + i - 1] = s[i]
  <2>1. PICK j \in Places : j = ix + i - 1
    BY DEF Places
  <2>2. j \in ix .. ix + n - 1 /\ j - ix + 1 = i
    BY <2>1
  <2> QED
    BY <1>1, <2>1, <2>2
<1>5. ASSUME NEW i \in Places, i >= ix + n PROVE p[i] = NUL
  <2>1. ~(i \in ix .. ix + n - 1) /\ i >= o
    BY <1>5 DEF Places
  <2> QED
    BY <1>1, <2>1 DEF Clear
<1> QED
  BY <1>2, <1>3, <1>4, <1>5 DEF TextAt, Clear

\* It is still there after another string has been written behind it.
LEMMA TextKept ==
  ASSUME NEW pool, IsPool(pool), NEW a \in Nat, NEW k \in Nat, NEW t, TextAt(pool, a, t, k),
         NEW ix \in Nat, NEW n, NEW s, a + k < ix,
         REQUEST_HEADERS_MAX_MEMORY \in Nat, NEW p, p = Filled(pool, ix, s, n)
  PROVE  TextAt(p, a, t, k)
<1>1. \A i \in Places : p[i] = IF i \in ix .. ix + n - 1 THEN s[i - ix + 1] ELSE pool[i]
  BY FilledAt
<1>2. ASSUME NEW i \in Places, i <= a + k PROVE p[i] = pool[i]
  <2>1. ~(i \in ix .. ix + n - 1)
    BY <1>2 DEF Places
  <2> QED
    BY <1>1, <2>1
<1>3. PICK e \in Places : e = a + k
  BY DEF TextAt
<1>4. ASSUME NEW i \in 1 .. k PROVE p[a + i - 1] = t[i]
  <2>1. PICK j \in Places : j = a + i - 1 /\ j <= a + k
    BY <1>3 DEF Places
  <2>2. pool[j] = t[i]
    BY <2>1 DEF TextAt
  <2> QED
    BY <1>2, <2>1, <2>2
<1>5. p[e] = pool[e] /\ pool[e] = NUL
  BY <1>2, <1>3 DEF TextAt
<1> QED
  BY <1>3, <1>4, <1>5 DEF TextAt

\* A string without a NUL that is followed by one is read back as it is.
LEMMA CStringIs ==
  ASSUME NEW pool, IsPool(pool), NEW ix \in Nat, NEW n \in Nat, NEW s \in Seq(Chars), n <= Len(s),
         TextAt(pool, ix, s, n), \A i \in 1 .. n : s[i] # NUL, REQUEST_HEADERS_MAX_MEMORY \in Nat
  PROVE  CString(pool, ix) = SubSeq(s, 1, n)
<1> DEFINE P(e) == /\ e >= ix /\ pool[e] = NUL
                   /\ \A k \in ix .. e - 1 : pool[k] # NUL
<1>1. DOMAIN pool = Places
  BY DEF IsPool
<1>2. PICK z \in Places : z = ix + n
  BY DEF TextAt
<1>3. P(z)
  <2>1. pool[z] = NUL
    BY <1>2 DEF TextAt
  <2>2. ASSUME NEW k \in ix .. z - 1 PROVE pool[k] # NUL
    <3>1. PICK i \in 1 .. n : k = ix + i - 1
      <4>1. k - ix + 1 \in 1 .. n /\ k = ix + (k - ix + 1) - 1
        BY <1>2
      <4> QED
        BY <4>1
    <3>2. pool[ix + i - 1] = s[i] /\ s[i] # NUL
      BY DEF TextAt
    <3> QED
      BY <3>1, <3>2
  <2> QED
    BY <1>2, <2>1, <2>2
<1>4. ASSUME NEW e \in Places, P(e) PROVE e = z
  <2>1. e \in Int /\ z \in Int
    BY DEF Places
  <2>2. ~(e < z)
    <3>1. e < z => e \in ix .. z - 1
      BY <1>4, <2>1
    <3> QED
      BY <1>3, <1>4, <3>1
  <2>3. ~(z < e)
    <3>1. z < e => z \in ix .. e - 1
      BY <1>2, <2>1
    <3> QED
      BY <1>3, <1>4, <3>1
  <2> QED
    BY <2>1, <2>2, <2>3
<1>5. (CHOOSE e \in Places : P(e)) = z
  BY <1>3, <1>4
<1>6. CString(pool, ix) = [k \in 1 .. z - ix |-> pool[ix + k - 1]]
  BY <1>1, <1>5 DEF CString
<1>7. z - ix = n
  BY <1>2
<1>8. \A k \in 1 .. n : pool[ix + k - 1] = s[k]
  BY DEF TextAt
<1>9. CString(pool, ix) = [k \in 1 .. n |-> s[k]]
  BY <1>6, <1>7, <1>8
<1>10. SubSeq(s, 1, n) = [k \in 1 .. n |-> s[k]]
  OBVIOUS
<1> QED
  BY <1>9, <1>10
---------------------------------------------------------------------------
(* The headers.                                                            *)

LEMMA Element ==
  ASSUME NEW T, NEW s, s \in Seq(T), NEW k \in 1 .. Len(s)
  PROVE  s[k] \in T
OBVIOUS

\* What a header is made of.
LEMMA HeadersAre ==
  ASSUME RequestAssumption, NEW r \in Requests, WellFormed(r)
  PROVE  /\ Len(r.headers) \in Nat /\ DOMAIN r.headers = 1 .. Len(r.headers)
         /\ \A k \in 1 .. Len(r.headers) :
              /\ r.headers[k].name \in Seq(Chars) /\ r.headers[k].name # <<>>
              /\ NameLen(r, k) \in Nat /\ NameLen(r, k) > 0
              /\ r.headers[k].value \in Seq(Chars) /\ r.headers[k].value # <<>>
              /\ ValueLen(r, k) \in Nat /\ ValueLen(r, k) > 0
<1>1. r.headers \in Seq([name : HeaderNames, value : HeaderValues])
  BY DEF RequestAssumption
<1>2. Len(r.headers) \in Nat /\ DOMAIN r.headers = 1 .. Len(r.headers)
  BY <1>1
<1>3. ASSUME NEW k \in 1 .. Len(r.headers)
      PROVE  /\ r.headers[k].name \in Seq(Chars) /\ r.headers[k].name # <<>>
             /\ NameLen(r, k) \in Nat /\ NameLen(r, k) > 0
             /\ r.headers[k].value \in Seq(Chars) /\ r.headers[k].value # <<>>
             /\ ValueLen(r, k) \in Nat /\ ValueLen(r, k) > 0
  <2>1. PICK h \in [name : HeaderNames, value : HeaderValues] : h = r.headers[k]
    BY <1>1, Element
  <2>2. h.name # <<>> /\ h.value # <<>>
    BY <1>2, <2>1 DEF WellFormed
  <2>3. Nat \ {COLON, CR, NUL} \subseteq Chars /\ Nat \ {CR, NUL} \subseteq Chars
    BY DEF Chars
  <2>4. h.name \in Seq(Chars) /\ h.value \in Seq(Chars)
    <3>1. h.name \in Seq(Nat \ {COLON, CR, NUL}) /\ h.value \in Seq(Nat \ {CR, NUL})
      BY DEF HeaderNames, HeaderValues
    <3> QED
      BY <2>3, <3>1, SeqMonotonic
  <2>5. ASSUME NEW s \in Seq(Chars), s # <<>> PROVE Len(s) \in Nat /\ Len(s) > 0
    BY <2>5, EmptySeq DEF Chars
  <2> QED
    BY <2>1, <2>2, <2>4, <2>5 DEF NameLen, ValueLen
<1> QED
  BY <1>2, <1>3

LEMMA HeaderChars ==
  ASSUME RequestAssumption, NEW r \in Requests, WellFormed(r), NEW k \in 1 .. Len(r.headers)
  PROVE  /\ \A i \in 1 .. NameLen(r, k) :
              /\ r.headers[k].name[i] # COLON /\ r.headers[k].name[i] # CR
              /\ r.headers[k].name[i] # NUL
         /\ \A i \in 1 .. ValueLen(r, k) : r.headers[k].value[i] # CR /\ r.headers[k].value[i] # NUL
         /\ r.headers[k].value[1] # SP
<1>1. r.headers \in Seq([name : HeaderNames, value : HeaderValues])
  BY DEF RequestAssumption
<1>2. PICK h \in [name : HeaderNames, value : HeaderValues] : h = r.headers[k]
  BY <1>1, Element
<1>3. h.name \in Seq(Nat \ {COLON, CR, NUL})
  BY DEF HeaderNames
<1>4. h.value \in Seq(Nat \ {CR, NUL}) /\ (h.value # <<>> => h.value[1] # SP)
  BY DEF HeaderValues
<1>5. h.value # <<>>
  BY <1>2, HeadersAre DEF WellFormed
<1> QED
  BY <1>2, <1>3, <1>4, <1>5 DEF NameLen, ValueLen

\* Where the last of the first k headers ends.
Top(r, k) == IF k = 0 THEN 0 ELSE ValueAt(r, k) + ValueLen(r, k)

\* Where its name and its value begin, and where the next header does.
LEMMA Positions ==
  ASSUME RequestAssumption, NEW r \in Requests, WellFormed(r), NEW k \in 1 .. Len(r.headers)
  PROVE  /\ NameAt(r, k) \in Nat /\ ValueAt(r, k) \in Nat
         /\ ValueAt(r, k) = NameAt(r, k) + NameLen(r, k) + 1
         /\ Top(r, k) \in Nat /\ Top(r, k) = ValueAt(r, k) + ValueLen(r, k) /\ Top(r, k) # 0
         /\ Top(r, k - 1) \in Nat /\ NameAt(r, k) = Start(Top(r, k - 1))
<1>1. PICK M \in Nat : M = Len(r.headers)
  BY HeadersAre
<1>2. \A j \in 1 .. M : NameLen(r, j) \in Nat /\ ValueLen(r, j) \in Nat /\ ValueLen(r, j) > 0
  BY <1>1, HeadersAre
<1>3. \A j \in 1 .. M : ValueAt(r, j) = NameAt(r, j) + NameLen(r, j) + 1
  BY <1>1 DEF ValueAt, NameLen
<1> DEFINE S == {n \in Nat : 0 < n /\ n <= M => NameAt(r, n) \in Nat}
<1>4. 0 \in S
  OBVIOUS
<1>5. ASSUME NEW n \in Nat, n \in S PROVE n + 1 \in S
  <2>1. CASE n = 0
    BY <2>1, NamesAt
  <2>2. CASE n > 0
    <3>1. SUFFICES ASSUME n + 1 <= M PROVE NameAt(r, n + 1) \in Nat
      OBVIOUS
    <3>2. NameAt(r, n) \in Nat /\ NameLen(r, n) \in Nat /\ ValueLen(r, n) \in Nat
      BY <1>2, <1>5, <2>2, <3>1
    <3>3. NameAt(r, n + 1) = NextName(r, NameAt(r, n), n)
      BY <2>2, NamesAt
    <3> QED
      BY <3>2, <3>3 DEF NextName
  <2> QED
    BY <2>1, <2>2
<1>6. \A n \in Nat : n \in S
  <2> HIDE DEF S
  <2> QED
    BY <1>4, <1>5, SetInduction
<1>7. \A n \in 1 .. M : NameAt(r, n) \in Nat
  BY <1>6
<1> HIDE DEF S
<1>8. ASSUME NEW n \in 1 .. M
      PROVE  ValueAt(r, n) \in Nat /\ Top(r, n) \in Nat /\ Top(r, n) = ValueAt(r, n) + ValueLen(r, n)
             /\ Top(r, n) # 0
  BY <1>2, <1>3, <1>7 DEF Top
<1>9. Top(r, k - 1) \in Nat /\ NameAt(r, k) = Start(Top(r, k - 1))
  <2>1. CASE k = 1
    BY <2>1, NamesAt DEF Top, Start
  <2>2. CASE k # 1
    <3>1. PICK n \in 1 .. M : n = k - 1 /\ n + 1 = k
      BY <1>1, <2>2
    <3>2. NameAt(r, n + 1) = NextName(r, NameAt(r, n), n)
      <4>1. n \in Nat /\ n > 0
        BY <1>1
      <4> QED
        BY <4>1, NamesAt
    <3>3. /\ NameAt(r, n) \in Nat /\ NameLen(r, n) \in Nat /\ ValueLen(r, n) \in Nat
          /\ ValueAt(r, n) = NameAt(r, n) + NameLen(r, n) + 1
          /\ Top(r, n) = ValueAt(r, n) + ValueLen(r, n) /\ Top(r, n) # 0 /\ Top(r, n) \in Nat
      BY <1>2, <1>3, <1>7, <1>8
    <3>4. NameAt(r, n + 1) = Top(r, n) + 1
      BY <3>2, <3>3 DEF NextName
    <3> QED
      BY <3>1, <3>3, <3>4 DEF Start
  <2> QED
    BY <2>1, <2>2
<1> QED
  BY <1>1, <1>3, <1>7, <1>8, <1>9

\* Headers lie in the order in which they come.
LEMMA Increasing ==
  ASSUME RequestAssumption, NEW r \in Requests, WellFormed(r), NEW j \in 1 .. Len(r.headers),
         NEW k \in 1 .. Len(r.headers), j < k
  PROVE  Top(r, j) < NameAt(r, k)
<1>1. PICK M \in Nat : M = Len(r.headers)
  BY HeadersAre
<1>2. ASSUME NEW i \in 1 .. M, i + 1 \in 1 .. M
      PROVE NameAt(r, i + 1) = Top(r, i) + 1 /\ Top(r, i) \in Nat /\ NameAt(r, i) < Top(r, i)
            /\ NameAt(r, i) \in Nat
  <2>1. PICK n \in 1 .. M : n = i + 1 /\ n - 1 = i
    BY <1>2
  <2>2. NameAt(r, n) = Start(Top(r, i))
    BY <1>1, <2>1, Positions
  <2>3. Top(r, i) # 0 /\ Top(r, i) = ValueAt(r, i) + ValueLen(r, i) /\ NameAt(r, i) \in Nat
        /\ ValueAt(r, i) = NameAt(r, i) + NameLen(r, i) + 1 /\ Top(r, i) \in Nat
    BY <1>1, Positions
  <2>4. NameLen(r, i) \in Nat /\ ValueLen(r, i) \in Nat
    BY <1>1, HeadersAre
  <2> QED
    BY <2>1, <2>2, <2>3, <2>4 DEF Start
<1> DEFINE S == {n \in Nat : j < n /\ n <= M => Top(r, j) < NameAt(r, n)}
<1>3. 0 \in S
  OBVIOUS
<1>4. ASSUME NEW n \in Nat, n \in S PROVE n + 1 \in S
  <2>1. SUFFICES ASSUME j < n + 1, n + 1 <= M PROVE Top(r, j) < NameAt(r, n + 1)
    OBVIOUS
  <2>2. n \in 1 .. M /\ n + 1 \in 1 .. M
    BY <2>1
  <2>3. NameAt(r, n + 1) = Top(r, n) + 1 /\ Top(r, n) \in Nat /\ NameAt(r, n) < Top(r, n)
        /\ NameAt(r, n) \in Nat
    BY <1>2, <2>2
  <2>4. CASE j = n
    BY <2>3, <2>4
  <2>5. CASE j < n
    <3>1. Top(r, j) < NameAt(r, n) /\ Top(r, j) \in Nat
      BY <1>4, <2>2, <2>5, Positions
    <3> QED
      BY <2>3, <3>1
  <2> QED
    BY <2>1, <2>4, <2>5
<1>5. k \in S
  <2> HIDE DEF S
  <2> QED
    BY <1>3, <1>4, SetInduction
<1> QED
  BY <1>1, <1>5

---------------------------------------------------------------------------
(* The headers there is room for, and what headerInRequest and the handler *)
(* read of them.                                                           *)

\* What is kept of a header's value.
KeptLen(r, k) == Least(ValueLen(r, k), PoolLimit - ValueAt(r, k))
Slot(r, k) ==
  [name |-> StringAt(NameAt(r, k), NameLen(r, k)), value |-> StringAt(ValueAt(r, k), KeptLen(r, k))]

\* The first m headers are the ones there is room for.
AllFit(r, m) ==
  /\ m \in 0 .. Len(r.headers)
  /\ \A k \in 1 .. m : k <= REQUEST_MAX_HEADERS /\ ValueAt(r, k) < PoolLimit
NoMore(r, m) ==
  m < Len(r.headers) => m + 1 > REQUEST_MAX_HEADERS \/ ValueAt(r, m + 1) >= PoolLimit

KeptHeader(r, k) ==
  [name |-> r.headers[k].name,
   value |-> Shorter(r.headers[k].value, PoolLimit - ValueAt(r, k))]

\* KeptHeaders, when the first m headers are the ones there is room for.
LEMMA KeptIs ==
  ASSUME RequestAssumption, NEW r \in Requests, WellFormed(r), NEW m \in Nat, AllFit(r, m), NoMore(r, m)
  PROVE  KeptHeaders(r) = [k \in 1 .. m |-> KeptHeader(r, k)]
<1> DEFINE fits == {k \in DOMAIN r.headers : k <= REQUEST_MAX_HEADERS /\ ValueAt(r, k) < PoolLimit}
<1>1. PICK M \in Nat : M = Len(r.headers) /\ DOMAIN r.headers = 1 .. M
  BY HeadersAre
<1>2. m \in 0 .. M
  BY <1>1 DEF AllFit
<1>3. ASSUME NEW k \in 1 .. M, ~(k <= m) PROVE ~(k <= REQUEST_MAX_HEADERS /\ ValueAt(r, k) < PoolLimit)
  <2>1. PICK n \in 1 .. M : n = m + 1 /\ n <= k
    BY <1>2, <1>3
  <2>2. n > REQUEST_MAX_HEADERS \/ ValueAt(r, n) >= PoolLimit
    <3>1. m < Len(r.headers)
      BY <1>1, <2>1
    <3>2. m + 1 > REQUEST_MAX_HEADERS \/ ValueAt(r, m + 1) >= PoolLimit
      BY <3>1 DEF NoMore
    <3> QED
      BY <2>1, <3>2
  <2>3. REQUEST_MAX_HEADERS \in Nat /\ PoolLimit \in Nat
    BY PoolSize DEF RequestAssumption
  <2>4. ValueAt(r, n) <= ValueAt(r, k)
    <3>1. CASE n = k
      BY <1>1, <3>1, Positions
    <3>2. CASE n < k
      <4>1. Top(r, n) < NameAt(r, k)
        BY <1>1, <3>2, Increasing
      <4>2. Top(r, n) = ValueAt(r, n) + ValueLen(r, n) /\ ValueAt(r, n) \in Nat
        BY <1>1, Positions
      <4>3. ValueAt(r, k) = NameAt(r, k) + NameLen(r, k) + 1 /\ NameAt(r, k) \in Nat
        BY <1>1, Positions
      <4>4. ValueLen(r, n) \in Nat /\ NameLen(r, k) \in Nat
        BY <1>1, HeadersAre
      <4> QED
        BY <4>1, <4>2, <4>3, <4>4
    <3> QED
      BY <2>1, <3>1, <3>2
  <2>5. ValueAt(r, n) \in Nat /\ ValueAt(r, k) \in Nat
    BY <1>1, Positions
  <2> QED
    BY <2>1, <2>2, <2>3, <2>4, <2>5
<1>4. fits = 1 .. m
  <2>1. \A k \in 1 .. m : k \in 1 .. M /\ k <= REQUEST_MAX_HEADERS /\ ValueAt(r, k) < PoolLimit
    BY <1>2 DEF AllFit
  <2> QED
    BY <1>1, <1>2, <1>3, <2>1
<1>5. Cardinality(fits) = m
  <2>1. Cardinality(1 .. m) = m
    BY FS_Interval
  <2> QED
    BY <1>4, <2>1
<1>6. KeptHeaders(r) = [k \in 1 .. Cardinality(fits) |-> KeptHeader(r, k)]
  BY DEF KeptHeaders, KeptHeader
<1> QED
  BY <1>5, <1>6

\* The first m headers have been read: where they are, and that they are there.
HeadersHeld(q, r, m) ==
  /\ IsPool(q.pool) /\ q.headers = [k \in 1 .. m |-> Slot(r, k)]
  /\ \A k \in 1 .. m : /\ TextAt(q.pool, NameAt(r, k), r.headers[k].name, NameLen(r, k))
                       /\ TextAt(q.pool, ValueAt(r, k), r.headers[k].value, KeptLen(r, k))

ReadBack(q) ==
  [k \in DOMAIN q.headers |-> [name |-> CString(q.pool, q.headers[k].name.at),
                               value |-> CString(q.pool, q.headers[k].value.at)]]

\* Something is kept of each of them.
LEMMA KeptLenIs ==
  ASSUME RequestAssumption, NEW r \in Requests, WellFormed(r), NEW k \in 1 .. Len(r.headers),
         ValueAt(r, k) < PoolLimit
  PROVE  /\ KeptLen(r, k) \in Nat /\ KeptLen(r, k) > 0 /\ KeptLen(r, k) <= ValueLen(r, k)
         /\ ValueAt(r, k) + KeptLen(r, k) <= PoolLimit
         /\ ValueAt(r, k) + ValueLen(r, k) <= PoolLimit => KeptLen(r, k) = ValueLen(r, k)
         /\ ~(ValueAt(r, k) + ValueLen(r, k) <= PoolLimit) => KeptLen(r, k) = PoolLimit - ValueAt(r, k)
<1>1. ValueAt(r, k) \in Nat
  BY Positions
<1>2. ValueLen(r, k) \in Nat /\ ValueLen(r, k) > 0
  BY HeadersAre
<1>3. PoolLimit \in Nat
  BY PoolSize
<1> QED
  BY <1>1, <1>2, <1>3 DEF KeptLen, Least

\* The headers that have been read are the ones that are to be kept.
LEMMA ReadBackIs ==
  ASSUME RequestAssumption, NEW r \in Requests, WellFormed(r), NEW m \in Nat, AllFit(r, m), NoMore(r, m),
         NEW q, HeadersHeld(q, r, m)
  PROVE  ReadBack(q) = KeptHeaders(r)
<1>1. PICK M \in Nat : M = Len(r.headers)
  BY HeadersAre
<1>2. m \in 0 .. M /\ \A k \in 1 .. m : k \in 1 .. M /\ ValueAt(r, k) < PoolLimit
  BY <1>1 DEF AllFit
<1>3. DOMAIN q.headers = 1 .. m /\ \A k \in 1 .. m : q.headers[k] = Slot(r, k)
  BY DEF HeadersHeld
<1>4. ASSUME NEW k \in 1 .. m
      PROVE  [name |-> CString(q.pool, q.headers[k].name.at),
              value |-> CString(q.pool, q.headers[k].value.at)] = KeptHeader(r, k)
  <2>1. k \in 1 .. M /\ ValueAt(r, k) < PoolLimit
    BY <1>2
  <2>2. PICK na \in Nat, va \in Nat : na = NameAt(r, k) /\ va = ValueAt(r, k)
    BY <1>1, <2>1, Positions
  <2>3. q.headers[k].name.at = na /\ q.headers[k].value.at = va
    <3>1. PICK x, y : x = StringAt(NameAt(r, k), NameLen(r, k)) /\ y = StringAt(ValueAt(r, k), KeptLen(r, k))
      OBVIOUS
    <3>4. PICK d : d = q.headers[k] /\ d = Slot(r, k)
      BY <1>3
    <3>5. d = [name |-> x, value |-> y]
      BY <3>1, <3>4 DEF Slot
    <3>2. q.headers[k].name = x /\ q.headers[k].value = y
      BY <3>4, <3>5
    <3>3. x.at = na /\ y.at = va
      BY <2>2, <3>1 DEF StringAt
    <3> QED
      BY <3>2, <3>3
  <2>4. PICK s \in Seq(Chars), v \in Seq(Chars) : s = r.headers[k].name /\ v = r.headers[k].value
    BY <1>1, <2>1, HeadersAre
  <2>5. PICK n \in Nat, l \in Nat : n = NameLen(r, k) /\ l = KeptLen(r, k) /\ l <= ValueLen(r, k)
    BY <1>1, <2>1, HeadersAre, KeptLenIs
  <2>6. n = Len(s) /\ l <= Len(v) /\ ValueLen(r, k) = Len(v)
    BY <2>4, <2>5 DEF NameLen, ValueLen
  <2>7. (\A i \in 1 .. n : s[i] # NUL) /\ \A i \in 1 .. l : v[i] # NUL
    <3>1. PICK d \in Nat : d = ValueLen(r, k)
      BY <2>6
    <3>2. \A i \in 1 .. d : v[i] # NUL
      BY <1>1, <2>1, <2>4, <3>1, HeaderChars
    <3>3. \A i \in 1 .. n : s[i] # NUL
      BY <1>1, <2>1, <2>4, <2>5, HeaderChars
    <3> QED
      BY <2>5, <3>1, <3>2, <3>3
  <2>8. TextAt(q.pool, na, s, n) /\ TextAt(q.pool, va, v, l) /\ IsPool(q.pool)
    BY <2>2, <2>4, <2>5 DEF HeadersHeld
  <2>9. CString(q.pool, na) = SubSeq(s, 1, n)
    BY <2>6, <2>7, <2>8, PoolSize, CStringIs
  <2>10. CString(q.pool, va) = SubSeq(v, 1, l)
    BY <2>6, <2>7, <2>8, PoolSize, CStringIs
  <2>11. SubSeq(s, 1, n) = s
    BY <2>6
  <2>12. SubSeq(v, 1, l) = Shorter(v, PoolLimit - ValueAt(r, k))
    BY <2>5, <2>6 DEF KeptLen, Least, Shorter
  <2> QED
    BY <2>3, <2>4, <2>9, <2>10, <2>11, <2>12 DEF KeptHeader
<1>5. ReadBack(q) = [k \in 1 .. m |-> KeptHeader(r, k)]
  BY <1>3, <1>4 DEF ReadBack
<1> QED
  BY <1>5, KeptIs

\* What has been read of a request when m headers of it have.
Reading(q, r, m, st) ==
  /\ HasHeader(q) /\ q.state = st /\ LineHeld(q, r) /\ q.body = <<>> /\ q.capacity = 0
  /\ HeadersHeld(q, r, m)

Widened(ws, old) == old \subseteq ws /\ ws \subseteq old \cup HeaderWarnings

\* Warnings about headers say nothing about the line.
LEMMA LineStays ==
  ASSUME NEW b, NEW r, LineHeld(b, r), NEW q, \A f \in Aside : q[f] = b[f],
         Widened(q.warnings, b.warnings)
  PROVE  LineHeld(q, r)
<1>1. q.method = b.method /\ q.path = b.path /\ q.pathDecoded = b.pathDecoded /\ q.version = b.version
  BY DEF Aside, Fields
<1>2. "pathTruncated" \in q.warnings <=> "pathTruncated" \in b.warnings
  BY DEF Widened, HeaderWarnings
<1> QED
  BY <1>1, <1>2 DEF LineHeld

\* A string of the next header leaves the headers before it alone.
LEMMA HeadersStay ==
  ASSUME RequestAssumption, NEW r \in Requests, WellFormed(r), NEW m \in Nat, AllFit(r, m),
         NEW b, HeadersHeld(b, r, m), NEW q, q.headers = b.headers, NEW ix \in Nat, NEW s, NEW n,
         \A k \in 1 .. m : Top(r, k) < ix,
         q.pool = Filled(b.pool, ix, s, n)
  PROVE  HeadersHeld(q, r, m)
<1>1. PICK M \in Nat : M = Len(r.headers)
  BY HeadersAre
<1>2. m \in 0 .. M /\ \A k \in 1 .. m : k \in 1 .. M /\ ValueAt(r, k) < PoolLimit
  BY <1>1 DEF AllFit
<1>3. PICK p : p = b.pool /\ IsPool(p)
  BY DEF HeadersHeld
<1>4. PICK w : w = q.pool /\ w = Filled(p, ix, s, n)
  BY <1>3
<1>5. IsPool(w)
  BY <1>3, <1>4, FilledAt
<1>6. ASSUME NEW k \in 1 .. m
      PROVE  /\ TextAt(w, NameAt(r, k), r.headers[k].name, NameLen(r, k))
             /\ TextAt(w, ValueAt(r, k), r.headers[k].value, KeptLen(r, k))
  <2>1. k \in 1 .. M /\ ValueAt(r, k) < PoolLimit /\ Top(r, k) < ix
    BY <1>2
  <2>2. PICK na \in Nat, va \in Nat : na = NameAt(r, k) /\ va = ValueAt(r, k) /\ va = na + NameLen(r, k) + 1
                                      /\ Top(r, k) = va + ValueLen(r, k)
    BY <1>1, <2>1, Positions
  <2>3. PICK x \in Nat, y \in Nat : x = NameLen(r, k) /\ y = KeptLen(r, k) /\ y <= ValueLen(r, k)
    BY <1>1, <2>1, HeadersAre, KeptLenIs
  <2>4. ValueLen(r, k) \in Nat
    BY <1>1, <2>1, HeadersAre
  <2>5. na + x < ix /\ va + y < ix
    BY <2>1, <2>2, <2>3, <2>4
  <2>6. PICK t, v : t = r.headers[k].name /\ v = r.headers[k].value
    OBVIOUS
  <2>7. TextAt(p, na, t, x) /\ TextAt(p, va, v, y)
    BY <1>3, <2>2, <2>3, <2>6 DEF HeadersHeld
  <2>8. REQUEST_HEADERS_MAX_MEMORY \in Nat
    BY PoolSize
  <2>9. TextAt(w, na, t, x)
    BY <1>3, <1>4, <2>5, <2>7, <2>8, TextKept
  <2>10. TextAt(w, va, v, y)
    BY <1>3, <1>4, <2>5, <2>7, <2>8, TextKept
  <2> QED
    BY <2>2, <2>3, <2>6, <2>9, <2>10
<1> QED
  BY <1>4, <1>5, <1>6 DEF HeadersHeld

\* Neither does it touch what else has been read.
LEMMA StringLeaves ==
  ASSUME RequestAssumption, NEW r \in Requests, WellFormed(r), NEW m \in Nat, AllFit(r, m),
         NEW b, NEW st0, Reading(b, r, m, st0), NEW q, NEW st, NEW field, NEW ix \in Nat, NEW s, NEW n,
         \A k \in 1 .. m : Top(r, k) < ix,
         StringRead(q, b, st, field, ix, s, n), n \in Nat
  PROVE  /\ Reading(q, r, m, st) /\ SameBut(q, b, st, field) /\ Widened(q.warnings, b.warnings)
         /\ q.headersStringPoolOffset \in Nat
<1>1. PICK L \in Nat : L = PoolLimit
  BY PoolSize
<1>2. /\ SameBut(q, b, st, field) /\ q.headersStringPoolOffset \in Nat
      /\ q.warnings = b.warnings \/ q.warnings = Exhausted(b.warnings)
      /\ q.pool = b.pool \/ \E l : q.pool = Filled(b.pool, ix, s, l)
  <2>1. CASE ix + n <= L /\ ix < L
    BY <1>1, <2>1 DEF StringRead, Fits
  <2>2. CASE ~(ix + n <= L) /\ ix < L
    BY <1>1, <2>2 DEF StringRead, Cut
  <2>3. CASE ~(ix < L)
    BY <1>1, <2>3 DEF StringRead, Lost
  <2> QED
    BY <2>1, <2>2, <2>3
<1>3. Widened(q.warnings, b.warnings)
  BY <1>2 DEF Widened, Exhausted, HeaderWarnings
<1>4. HasHeader(q) /\ q.state = st /\ \A f \in Aside : q[f] = b[f]
  BY <1>2 DEF SameBut
<1>5. q.headers = b.headers /\ q.body = b.body /\ q.capacity = b.capacity
  BY <1>4 DEF Aside, Fields
<1>6. LineHeld(q, r)
  BY <1>3, <1>4, LineStays DEF Reading
<1>7. HeadersHeld(q, r, m)
  <2>1. CASE q.pool = b.pool
    BY <1>5, <2>1 DEF HeadersHeld, Reading
  <2>2. CASE \E l : q.pool = Filled(b.pool, ix, s, l)
    BY <1>5, <2>2, HeadersStay DEF Reading
  <2> QED
    BY <1>2, <2>1, <2>2
<1> QED
  BY <1>2, <1>3, <1>4, <1>5, <1>6, <1>7 DEF Reading

---------------------------------------------------------------------------
(* A header line.                                                          *)

\* The header line in its parts.
InParts(h, s, v, s2, s3, s4) ==
  /\ s = h.name /\ v = h.value /\ s2 = Joins(s, Two(COLON, SP)) /\ s3 = Joins(s2, v)
  /\ s4 = Joins(s3, Two(CR, LF)) /\ s4 = HeaderLine(h)
  /\ s3 # <<>> /\ \A k \in 1 .. Len(s3) : s3[k] # CR

LEMMA HeaderInParts ==
  ASSUME RequestAssumption, NEW r \in Requests, WellFormed(r), NEW k \in 1 .. Len(r.headers)
  PROVE  \E s \in Seq(Chars), v \in Seq(Chars), s2 \in Seq(Chars), s3 \in Seq(Chars), s4 \in Seq(Chars) :
           InParts(r.headers[k], s, v, s2, s3, s4)
<1>1. PICK h \in [name : HeaderNames, value : HeaderValues] : h = r.headers[k]
  BY Element DEF RequestAssumption
<1> DEFINE T == Nat \ {CR}
<1>2. h.name \in Seq(T) /\ h.value \in Seq(T) /\ COLON \in T /\ SP \in T
  <2>1. h.name \in Seq(Nat \ {COLON, CR, NUL}) /\ h.value \in Seq(Nat \ {CR, NUL})
    BY DEF HeaderNames, HeaderValues
  <2>2. Nat \ {COLON, CR, NUL} \subseteq T /\ Nat \ {CR, NUL} \subseteq T
    OBVIOUS
  <2>3. COLON \in T /\ SP \in T
    BY DEF COLON, SP, CR
  <2> HIDE DEF T
  <2> QED
    BY <2>1, <2>2, <2>3, SeqMonotonic
<1>3. PICK s \in Seq(T), v \in Seq(T) : s = h.name /\ v = h.value
  BY <1>2
<1>4. Seq(T) \subseteq Seq(Chars) /\ CR \in Chars /\ LF \in Chars
  <2>1. T \subseteq Chars /\ CR \in Chars /\ LF \in Chars
    BY DEF Chars, CR, LF
  <2> HIDE DEF T
  <2> QED
    BY <2>1, SeqMonotonic
<1>5. PICK s2 \in Seq(T) : s2 = Joins(s, Two(COLON, SP)) /\ Len(s2) > 0
  <2> HIDE DEF T
  <2>3. Len(Two(COLON, SP)) = 2
    BY DEF Two
  <2>1. PICK t \in Seq(T) : t = Two(COLON, SP) /\ Len(t) = 2
    BY <1>2, <2>3, Pair DEF Two
  <2>2. Joins(s, t) \in Seq(T) /\ Len(Joins(s, t)) = Len(s) + Len(t)
    BY JoinedParts
  <2> QED
    BY <2>1, <2>2
<1>6. PICK s3 \in Seq(T) : s3 = Joins(s2, v) /\ Len(s3) > 0
  <2> HIDE DEF T
  <2>2. Joins(s2, v) \in Seq(T) /\ Len(Joins(s2, v)) = Len(s2) + Len(v)
    BY JoinedParts
  <2> QED
    BY <1>5, <2>2
<1>7. PICK s4 \in Seq(Chars) : s4 = Joins(s3, Two(CR, LF))
  BY <1>4, ParsedTwoMore
<1>8. s4 = HeaderLine(h)
  BY <1>3, <1>5, <1>6, <1>7 DEF HeaderLine, Joins, Two
<1>9. s3 # <<>> /\ \A i \in 1 .. Len(s3) : s3[i] # CR
  BY <1>6
<1>10. InParts(h, s, v, s2, s3, s4)
  BY <1>3, <1>5, <1>6, <1>7, <1>8, <1>9 DEF InParts
<1> QED
  BY <1>1, <1>4, <1>10

\* Every header so far has been read, and the next one may begin.
WholeLine(q, r, k) ==
  /\ Reading(q, r, k, "CRLF") /\ q.warnings \cap HeaderWarnings = {} /\ q.header = NoHeader
  /\ AllFit(r, k) /\ k <= REQUEST_MAX_HEADERS
  /\ Top(r, k) \in Nat /\ Top(r, k) <= PoolLimit /\ q.headersStringPoolOffset = Top(r, k)
  /\ Clear(q.pool, Top(r, k))

\* There is no room for more.
SpoiltAt(q, r, m) ==
  /\ Reading(q, r, m, "CRLF") /\ q.warnings \cap HeaderWarnings # {} /\ Eats(q)
  /\ AllFit(r, m) /\ NoMore(r, m)
Spoilt(q, r) == \E m \in Nat : SpoiltAt(q, r, m)

\* A header that is passed over.
LEMMA LineEaten ==
  ASSUME RequestAssumption, NEW r \in Requests, WellFormed(r), NEW m \in Nat, AllFit(r, m), NoMore(r, m),
         NEW q, Reading(q, r, m, "CRLF"), Eats(q), NEW k \in 1 .. Len(r.headers),
         NEW n, n = requestParse(q, HeaderLine(r.headers[k]))
  PROVE  SpoiltAt(n, r, m)
<1>1. PICK s \in Seq(Chars), v \in Seq(Chars), s2 \in Seq(Chars), s3 \in Seq(Chars), s4 \in Seq(Chars) :
           InParts(r.headers[k], s, v, s2, s3, s4)
  BY HeaderInParts
<1>2. s4 = Joins(s3, Two(CR, LF)) /\ s4 = HeaderLine(r.headers[k])
      /\ s3 # <<>> /\ \A i \in 1 .. Len(s3) : s3[i] # CR
  BY <1>1 DEF InParts
<1>3. IsRequest(q) /\ q.state = "CRLF"
  BY DEF Reading, HasHeader
<1>4. PICK e : e = requestParse(q, s3) /\ Eaten(e, q, "EatHeaders")
  BY <1>2, <1>3, EatRun
<1>5. n = ParseChar(ParseChar(e, CR), LF)
  <2>1. CR \in Chars /\ LF \in Chars
    BY DEF Chars, CR, LF
  <2>2. requestParse(q, Joins(s3, Two(CR, LF))) = ParseChar(ParseChar(requestParse(q, s3), CR), LF)
    BY <2>1, ParsedTwoMore
  <2> QED
    BY <1>2, <1>4, <2>2
<1>6. Eaten(n, q, "CRLF")
  BY <1>4, <1>5, EatEnds
<1>7. n.headers = q.headers /\ n.header = q.header /\ n.pool = q.pool /\ n.body = q.body
      /\ n.capacity = q.capacity /\ \A f \in Aside : n[f] = q[f]
  BY <1>6 DEF Eaten, Fields, Aside
<1>8. IsRequest(n) /\ n.state = "CRLF" /\ Widened(n.warnings, q.warnings)
      /\ n.warnings \cap HeaderWarnings # {}
  BY <1>6 DEF Eaten, Widened
<1>9. HasHeader(n)
  BY <1>7, <1>8 DEF HasHeader, Reading
<1>10. LineHeld(n, r)
  BY <1>7, <1>8, LineStays DEF Reading
<1>11. HeadersHeld(n, r, m)
  BY <1>7 DEF Reading, HeadersHeld
<1>12. Eats(n)
  BY <1>7, <1>8 DEF Eats, Widened
<1> QED
  BY <1>7, <1>8, <1>9, <1>10, <1>11, <1>12 DEF Reading, SpoiltAt

\* The header that has been read is added behind the others.
LEMMA OneMoreSlot ==
  ASSUME NEW r, NEW k \in Nat, NEW hs, hs = [j \in 1 .. k |-> Slot(r, j)], NEW x, x = Slot(r, k + 1)
  PROVE  Append(hs, x) = [j \in 1 .. k + 1 |-> Slot(r, j)]
<1> DEFINE S == [j \in 1 .. k + 1 |-> Slot(r, j)]
<1>1. hs \in Seq({Slot(r, j) : j \in 1 .. k + 1}) /\ Len(hs) = k
  OBVIOUS
<1>2. Append(hs, x) = [i \in 1 .. k + 1 |-> IF i = k + 1 THEN x ELSE hs[i]]
  BY <1>1
<1>3. ASSUME NEW i \in 1 .. k + 1 PROVE (IF i = k + 1 THEN x ELSE hs[i]) = Slot(r, i)
  OBVIOUS
<1> QED
  BY <1>2, <1>3

\* After the name of a header, after the colon and the space, and after its value.
HeaderRun(q1, q2, q3, q, r, k, j, n) ==
  /\ StringRead(q1, q, "HeaderName", "name", NameAt(r, j), r.headers[j].name, NameLen(r, j))
  /\ q2 = InState(q1, "HeaderValue")
  /\ Reading(q1, r, k, "HeaderName") /\ Reading(q2, r, k, "HeaderValue")
  /\ SameBut(q1, q, "HeaderName", "name")
  /\ StringRead(q3, q2, "HeaderValue", "value", Start(q2.headersStringPoolOffset),
                r.headers[j].value, ValueLen(r, j))
  /\ n = ParseChar(ParseChar(q3, CR), LF)
  /\ q2.header = q1.header /\ q2.pool = q1.pool /\ q2.warnings = q1.warnings
  /\ q2.headersStringPoolOffset = q1.headersStringPoolOffset
  /\ q1.headersStringPoolOffset \in Nat /\ Widened(q1.warnings, q.warnings)

\* A header line with room for its name and value.
LEMMA HeaderParts ==
  ASSUME RequestAssumption, NEW r \in Requests, WellFormed(r), NEW k \in Nat, NEW j \in 1 .. Len(r.headers),
         j = k + 1, NEW q, WholeLine(q, r, k), j <= REQUEST_MAX_HEADERS,
         NEW n, n = requestParse(q, HeaderLine(r.headers[j]))
  PROVE  \E q1, q2, q3 : HeaderRun(q1, q2, q3, q, r, k, j, n)
<1>1. PICK s \in Seq(Chars), v \in Seq(Chars), s2 \in Seq(Chars), s3 \in Seq(Chars), s4 \in Seq(Chars) :
           InParts(r.headers[j], s, v, s2, s3, s4)
  BY HeaderInParts
<1>2. /\ s = r.headers[j].name /\ v = r.headers[j].value /\ s2 = Joins(s, Two(COLON, SP))
      /\ s3 = Joins(s2, v) /\ s4 = Joins(s3, Two(CR, LF)) /\ s4 = HeaderLine(r.headers[j])
  BY <1>1 DEF InParts
<1>3. /\ s # <<>> /\ v # <<>> /\ v[1] # SP /\ NameLen(r, j) = Len(s) /\ ValueLen(r, j) = Len(v)
      /\ \A i \in 1 .. Len(s) : s[i] # COLON /\ s[i] # CR
      /\ \A i \in 1 .. Len(v) : v[i] # CR
  BY <1>2, HeadersAre, HeaderChars DEF NameLen, ValueLen
<1>4. PICK ix \in Nat : ix = NameAt(r, j) /\ ix = Start(q.headersStringPoolOffset)
  <2>1. j - 1 = k
    OBVIOUS
  <2> QED
    BY <2>1, Positions DEF WholeLine
<1>5. AtHeader(q) /\ q.state = "CRLF" /\ q.warnings \cap HeaderWarnings = {}
      /\ ~(Len(q.headers) >= REQUEST_MAX_HEADERS)
  <2>1. q.headers = [i \in 1 .. k |-> Slot(r, i)] /\ IsPool(q.pool) /\ HasHeader(q) /\ q.state = "CRLF"
    BY DEF WholeLine, Reading, HeadersHeld
  <2>2. Len(q.headers) = k
    BY <2>1
  <2>3. q.header.name = NoString /\ q.header.value = NoString
    BY DEF WholeLine, NoHeader
  <2>4. q.headersStringPoolOffset \in Nat /\ REQUEST_MAX_HEADERS \in Nat
    BY DEF WholeLine, RequestAssumption
  <2> QED
    BY <2>1, <2>2, <2>3, <2>4 DEF AtHeader, WholeLine
<1>6. PICK q1 : q1 = requestParse(q, s) /\ StringRead(q1, q, "HeaderName", "name", ix, s, Len(s))
  BY <1>3, <1>4, <1>5, NameRead
<1>7. AllFit(r, k) /\ Reading(q, r, k, "CRLF")
  BY DEF WholeLine
<1>8. \A i \in 1 .. k : Top(r, i) < ix
  <2>1. \A i \in 1 .. k : i \in 1 .. Len(r.headers) /\ i < j
    BY HeadersAre
  <2> QED
    BY <1>4, <2>1, Increasing
<1>9. Reading(q1, r, k, "HeaderName") /\ SameBut(q1, q, "HeaderName", "name")
      /\ Widened(q1.warnings, q.warnings) /\ q1.headersStringPoolOffset \in Nat
  <2>1. Len(s) \in Nat
    OBVIOUS
  <2> QED
    BY <1>6, <1>7, <1>8, <2>1, StringLeaves
<1>10. PICK q2 : q2 = ParseChar(ParseChar(q1, COLON), SP) /\ q2 = InState(q1, "HeaderValue")
  <2>1. HasHeader(q1) /\ q1.state = "HeaderName" /\ q1.header.value = q.header.value
    BY <1>9 DEF Reading, SameBut, HeaderFields
  <2>2. q1.header.value = NoString
    BY <1>5, <2>1 DEF AtHeader
  <2> QED
    BY <2>1, <2>2, ColonRead
<1>11. requestParse(q, s2) = q2
  <2>1. COLON \in Chars /\ SP \in Chars
    BY DEF Chars, COLON, SP
  <2> QED
    <3>1. requestParse(q, Joins(s, Two(COLON, SP))) = ParseChar(ParseChar(requestParse(q, s), COLON), SP)
      BY <2>1, ParsedTwoMore
    <3> QED
      BY <1>2, <1>6, <1>10, <3>1
<1>12. SameBut(q2, q1, "HeaderValue", "value") /\ q2.header = q1.header /\ q2.pool = q1.pool
       /\ q2.warnings = q1.warnings /\ q2.headersStringPoolOffset = q1.headersStringPoolOffset
  <2>1. "value" \in HeaderFields /\ HasHeader(q1)
    BY <1>9 DEF HeaderFields, Reading
  <2> QED
    <3>1. q2 = InState(q1, "HeaderValue")
      BY <1>10
    <3> QED
      BY <2>1, <3>1, InStateSame
<1>13. Reading(q2, r, k, "HeaderValue")
  <2>1. HasHeader(q2) /\ q2.state = "HeaderValue" /\ \A f \in Aside : q2[f] = q1[f]
    BY <1>12 DEF SameBut
  <2>2. q2.headers = q1.headers /\ q2.body = q1.body /\ q2.capacity = q1.capacity
    BY <2>1 DEF Aside, Fields
  <2>3. LineHeld(q2, r)
    <3>1. Widened(q2.warnings, q1.warnings)
      BY <1>12 DEF Widened
    <3> QED
      BY <1>9, <2>1, <3>1, LineStays DEF Reading
  <2>4. HeadersHeld(q2, r, k)
    BY <1>9, <1>12, <2>2 DEF Reading, HeadersHeld
  <2> QED
    BY <1>9, <2>1, <2>2, <2>3, <2>4 DEF Reading
<1>14. PICK q3 : q3 = requestParse(q2, v)
  OBVIOUS
<1>15. StringRead(q3, q2, "HeaderValue", "value", Start(q2.headersStringPoolOffset), v, Len(v))
  <2>1. HasHeader(q2) /\ IsPool(q2.pool) /\ q2.state = "HeaderValue"
    BY <1>13 DEF Reading, HeadersHeld
  <2>2. q2.header.value = NoString
    BY <1>5, <1>9, <1>12 DEF AtHeader, SameBut, HeaderFields
  <2>3. q2.headersStringPoolOffset \in Nat
    BY <1>9, <1>12
  <2>4. PICK a \in Nat : a = Start(q2.headersStringPoolOffset)
    BY <2>3 DEF Start
  <2> QED
    BY <1>3, <1>14, <2>1, <2>2, <2>3, <2>4, ValueRead
<1>16. n = ParseChar(ParseChar(q3, CR), LF)
  <2>1. CR \in Chars /\ LF \in Chars
    BY DEF Chars, CR, LF
  <2>2. requestParse(q, s3) = q3
    BY <1>2, <1>11, <1>14, ParsedJoin
  <2> QED
    <3>1. requestParse(q, Joins(s3, Two(CR, LF))) = ParseChar(ParseChar(requestParse(q, s3), CR), LF)
      BY <2>1, ParsedTwoMore
    <3> QED
      BY <1>2, <2>2, <3>1
<1> QED
  BY <1>2, <1>3, <1>4, <1>6, <1>9, <1>10, <1>12, <1>13, <1>15, <1>16 DEF HeaderRun

\* A header whose name has room, and some of its value.
LEMMA HeaderFits ==
  ASSUME RequestAssumption, NEW r \in Requests, WellFormed(r), NEW k \in Nat, NEW j \in Nat,
         j \in 1 .. Len(r.headers), j = k + 1, NEW q, WholeLine(q, r, k), j <= REQUEST_MAX_HEADERS,
         ValueAt(r, j) < PoolLimit, NEW n, n = requestParse(q, HeaderLine(r.headers[j]))
  PROVE  WholeLine(n, r, j) \/ SpoiltAt(n, r, j)
<1>0. PICK L \in Nat : L = PoolLimit
  BY PoolSize
<1>1. PICK s, v : s = r.headers[j].name /\ v = r.headers[j].value
  OBVIOUS
<1>2. PICK na \in Nat, va \in Nat : na = NameAt(r, j) /\ va = ValueAt(r, j) /\ va = na + NameLen(r, j) + 1
                                    /\ na = Start(Top(r, k)) /\ Top(r, j) = va + ValueLen(r, j)
  <2>1. k = j - 1
    OBVIOUS
  <2> QED
    BY <2>1, Positions
<1>3. PICK x \in Nat, y \in Nat : x = NameLen(r, j) /\ y = ValueLen(r, j) /\ x > 0 /\ y > 0
  BY HeadersAre
<1>4. PICK l \in Nat : /\ l = KeptLen(r, j) /\ l > 0 /\ l <= y /\ va + l <= L
                       /\ va + y <= L => l = y
                       /\ ~(va + y <= L) => l = L - va
  BY <1>0, <1>2, <1>3, KeptLenIs
<1>5. PICK q1, q2, q3 :
           /\ StringRead(q1, q, "HeaderName", "name", na, s, x)
           /\ q2 = InState(q1, "HeaderValue")
           /\ Reading(q1, r, k, "HeaderName") /\ Reading(q2, r, k, "HeaderValue")
           /\ SameBut(q1, q, "HeaderName", "name")
           /\ StringRead(q3, q2, "HeaderValue", "value", Start(q2.headersStringPoolOffset), v, y)
           /\ n = ParseChar(ParseChar(q3, CR), LF)
           /\ q2.header = q1.header /\ q2.pool = q1.pool /\ q2.warnings = q1.warnings
           /\ q2.headersStringPoolOffset = q1.headersStringPoolOffset
           /\ q1.headersStringPoolOffset \in Nat /\ Widened(q1.warnings, q.warnings)
  <2>1. PICK q1, q2, q3 : HeaderRun(q1, q2, q3, q, r, k, j, n)
    BY HeaderParts
  <2> QED
    BY <1>1, <1>2, <1>3, <2>1 DEF HeaderRun
<1>6. Fits(q1, q, "HeaderName", "name", na, s, x)
  <2>1. na + x <= L
    BY <1>0, <1>2, <1>3
  <2> QED
    BY <1>0, <1>5, <2>1 DEF StringRead
<1>7. /\ q2.headersStringPoolOffset = na + x /\ q2.warnings = q.warnings
      /\ q2.header.name = StringAt(na, x) /\ q2.pool = Filled(q.pool, na, s, x)
  BY <1>5, <1>6 DEF Fits
<1>8. StringRead(q3, q2, "HeaderValue", "value", va, v, y)
  <2>1. Start(na + x) = va
    BY <1>2, <1>3 DEF Start
  <2> QED
    BY <1>5, <1>7, <2>1
<1>9. /\ SameBut(q3, q2, "HeaderValue", "value") /\ q3.header.value = StringAt(va, l)
      /\ q3.pool = Filled(q2.pool, va, v, l) /\ q3.headersStringPoolOffset = va + l
      /\ va + y <= L => q3.warnings = q.warnings
      /\ ~(va + y <= L) => q3.warnings = Exhausted(q.warnings)
  <2>0. va < L
    BY <1>0, <1>2
  <2>1. CASE va + y <= L
    <3>1. Fits(q3, q2, "HeaderValue", "value", va, v, y)
      BY <1>0, <1>8, <2>1 DEF StringRead
    <3> QED
      BY <1>4, <1>7, <2>1, <3>1 DEF Fits
  <2>2. CASE ~(va + y <= L)
    <3>1. Cut(q3, q2, "HeaderValue", "value", va, v)
      BY <1>0, <1>8, <2>0, <2>2 DEF StringRead
    <3>2. l = L - va /\ va + l = L
      BY <1>4, <2>0, <2>2
    <3>3. q3.warnings = Exhausted(q.warnings)
      BY <1>7, <3>1 DEF Cut
    <3> QED
      BY <1>0, <2>2, <3>1, <3>2, <3>3 DEF Cut
  <2> QED
    BY <2>1, <2>2
<1>10. AllFit(r, k) /\ Reading(q, r, k, "CRLF") /\ Clear(q.pool, Top(r, k)) /\ Top(r, k) \in Nat
       /\ q.warnings \cap HeaderWarnings = {}
  BY DEF WholeLine
<1>11. \A i \in 1 .. k : Top(r, i) < na /\ Top(r, i) < va
  <2>1. \A i \in 1 .. k : i \in 1 .. Len(r.headers) /\ i < j
    BY HeadersAre
  <2>2. \A i \in 1 .. k : Top(r, i) < na /\ Top(r, i) \in Nat
    BY <1>2, <2>1, Increasing, Positions
  <2>3. na < va
    BY <1>2, <1>3
  <2> QED
    BY <2>2, <2>3
<1>12. Reading(q3, r, k, "HeaderValue")
  BY <1>3, <1>5, <1>8, <1>10, <1>11, StringLeaves
<1>13. q3.header = Slot(r, j)
  <2>1. q3.header.name = StringAt(na, x)
    BY <1>7, <1>9 DEF SameBut, HeaderFields
  <2>2. q3.header = [f \in HeaderFields |-> q3.header[f]]
    BY <1>12 DEF Reading, HasHeader
  <2>3. PICK d, e : d = StringAt(na, x) /\ e = StringAt(va, l)
    OBVIOUS
  <2>4. q3.header = [name |-> d, value |-> e]
    BY <1>9, <2>1, <2>2, <2>3 DEF HeaderFields
  <2> QED
    BY <1>2, <1>3, <1>4, <2>3, <2>4 DEF Slot
<1>14. FilledOut(q3)
  <2>1. q3.header.name.length = x /\ q3.header.value.length = l
    BY <1>7, <1>9 DEF SameBut, HeaderFields, StringAt
  <2> QED
    BY <1>3, <1>4, <2>1 DEF FilledOut
<1>15. PICK hs : hs = Append(q3.headers, q3.header)
  OBVIOUS
<1>16. n = [q3 EXCEPT !.state = "CRLF", !.headers = hs, !.header = NoHeader]
  BY <1>5, <1>12, <1>14, <1>15, ValueEnds DEF Reading
<1>17. hs = [i \in 1 .. j |-> Slot(r, i)]
  <2>1. q3.headers = [i \in 1 .. k |-> Slot(r, i)] /\ q3.header = Slot(r, k + 1)
    BY <1>12, <1>13 DEF Reading, HeadersHeld
  <2>2. PICK h0, x0 : h0 = q3.headers /\ x0 = q3.header
    OBVIOUS
  <2> QED
    BY <1>15, <2>1, <2>2, OneMoreSlot
<1>18. /\ HasHeader(n) /\ n.state = "CRLF" /\ n.headers = hs /\ n.header = NoHeader
       /\ n.pool = q3.pool /\ n.headersStringPoolOffset = va + l /\ n.warnings = q3.warnings
       /\ n.body = <<>> /\ n.capacity = 0 /\ LineHeld(n, r)
  <2>1. IsRequest(q3) /\ q3.body = <<>> /\ q3.capacity = 0 /\ LineHeld(q3, r)
    BY <1>12 DEF Reading, HasHeader
  <2>2. IsRequest(n) /\ n.state = "CRLF" /\ n.headers = hs /\ n.header = NoHeader
       /\ n.pool = q3.pool /\ n.headersStringPoolOffset = va + l /\ n.warnings = q3.warnings
       /\ n.body = <<>> /\ n.capacity = 0 /\ n.method = q3.method /\ n.path = q3.path
       /\ n.pathDecoded = q3.pathDecoded /\ n.version = q3.version
    BY <1>9, <1>16, <2>1 DEF IsRequest, Fields
  <2>3. HasHeader(n)
    BY <2>2 DEF HasHeader, NoHeader, HeaderFields
  <2>4. LineHeld(n, r)
    BY <2>1, <2>2 DEF LineHeld
  <2> QED
    BY <2>2, <2>3, <2>4
<1>19. PICK p0, p1, p2 : p0 = q.pool /\ p1 = q2.pool /\ p2 = q3.pool
  OBVIOUS
<1>20. IsPool(p0) /\ p1 = Filled(p0, na, s, x) /\ IsPool(p1) /\ p2 = Filled(p1, va, v, l) /\ IsPool(p2)
  BY <1>5, <1>7, <1>9, <1>10, <1>12, <1>19 DEF Reading, HeadersHeld
<1>21. REQUEST_HEADERS_MAX_MEMORY \in Nat /\ na + x \in Places /\ va + l \in Places
  <2>1. va < L /\ va = na + x + 1
    BY <1>0, <1>2, <1>3
  <2>2. PICK a \in Nat : a = na + x /\ a <= L
    BY <2>1
  <2>3. PICK b \in Nat : b = va + l /\ b <= L
    BY <1>4
  <2> QED
    BY <1>0, <2>2, <2>3, PoolSize
<1>22. TextAt(p1, na, s, x) /\ Clear(p1, na + x)
  <2>1. PICK o \in Nat : o = Top(r, k) /\ o <= na
    BY <1>2, <1>10 DEF Start
  <2> QED
    BY <1>10, <1>19, <1>20, <1>21, <2>1, TextFilled
<1>23. TextAt(p2, na, s, x)
  <2>1. na + x < va
    BY <1>2, <1>3
  <2> QED
    BY <1>20, <1>21, <1>22, <2>1, TextKept
<1>24. TextAt(p2, va, v, l) /\ Clear(p2, va + l)
  <2>2. na + x \in Nat /\ na + x <= va
    <3>1. va = na + x + 1
      BY <1>2, <1>3
    <3> QED
      BY <3>1
  <2>1. PICK o \in Nat : o = na + x /\ o <= va
    BY <2>2
  <2> QED
    BY <1>20, <1>21, <1>22, <2>1, TextFilled
<1>25. HeadersHeld(n, r, j)
  <2>1. n.pool = p2 /\ n.headers = [i \in 1 .. j |-> Slot(r, i)]
    BY <1>17, <1>18, <1>19
  <2>2. ASSUME NEW i \in 1 .. j
        PROVE  /\ TextAt(p2, NameAt(r, i), r.headers[i].name, NameLen(r, i))
               /\ TextAt(p2, ValueAt(r, i), r.headers[i].value, KeptLen(r, i))
    <3>1. CASE i = j
      BY <1>1, <1>2, <1>3, <1>4, <1>23, <1>24, <3>1
    <3>2. CASE i \in 1 .. k
      BY <1>12, <1>19, <3>2 DEF Reading, HeadersHeld
    <3> QED
      BY <3>1, <3>2
  <2> QED
    BY <1>20, <2>1, <2>2 DEF HeadersHeld
<1>26. Reading(n, r, j, "CRLF")
  BY <1>18, <1>25 DEF Reading
<1>27. AllFit(r, j)
  <2>1. ASSUME NEW i \in 1 .. j PROVE i <= REQUEST_MAX_HEADERS /\ ValueAt(r, i) < PoolLimit
    <3>1. CASE i = j
      BY <3>1
    <3>2. CASE i \in 1 .. k
      BY <1>10, <3>2 DEF AllFit
    <3> QED
      BY <3>1, <3>2
  <2> QED
    BY <2>1, HeadersAre DEF AllFit
<1>28. CASE va + y <= L
  <2>1. n.warnings \cap HeaderWarnings = {}
    BY <1>9, <1>10, <1>18, <1>28
  <2>2. Top(r, j) = va + l /\ va + l <= L /\ va + l \in Nat
    BY <1>2, <1>3, <1>4, <1>28
  <2>3. Clear(n.pool, Top(r, j))
    BY <1>18, <1>19, <1>24, <2>2
  <2>4. WholeLine(n, r, j)
    BY <1>0, <1>18, <1>26, <1>27, <2>1, <2>2, <2>3 DEF WholeLine
  <2> QED
    BY <2>4
<1>29. CASE ~(va + y <= L)
  <2>1. n.warnings = Exhausted(q.warnings)
    BY <1>9, <1>18, <1>29
  <2>2. n.warnings \cap HeaderWarnings # {} /\ Eats(n)
    BY <2>1 DEF Exhausted, HeaderWarnings, Eats
  <2>3. NoMore(r, j)
    <3>1. SUFFICES ASSUME j < Len(r.headers) PROVE ValueAt(r, j + 1) >= L
      BY <1>0 DEF NoMore
    <3>2. PICK i \in Nat : i = j + 1 /\ i \in 1 .. Len(r.headers) /\ j < i
      BY <3>1, HeadersAre
    <3>3. Top(r, j) < NameAt(r, i) /\ NameAt(r, i) \in Nat /\ ValueAt(r, i) \in Nat
          /\ ValueAt(r, i) = NameAt(r, i) + NameLen(r, i) + 1
      BY <3>2, Increasing, Positions
    <3>4. NameLen(r, i) \in Nat
      BY <3>2, HeadersAre
    <3>5. Top(r, j) > L
      BY <1>2, <1>3, <1>29
    <3>6. ValueAt(r, i) >= L
      <4>1. PICK a \in Nat, b \in Nat, c \in Nat :
              a = NameAt(r, i) /\ b = NameLen(r, i) /\ c = Top(r, j)
        BY <3>3, <3>4, Positions
      <4>2. ValueAt(r, i) = a + b + 1 /\ c < a /\ c > L
        BY <3>3, <3>5, <4>1
      <4> QED
        BY <4>2
    <3> QED
      BY <3>2, <3>6
  <2> QED
    BY <1>26, <1>27, <2>2, <2>3 DEF SpoiltAt
<1> QED
  BY <1>28, <1>29

\* A header the pool has no room for: it is lost, with its name or without.
LEMMA HeaderLost ==
  ASSUME RequestAssumption, NEW r \in Requests, WellFormed(r), NEW k \in Nat, NEW j \in Nat,
         j \in 1 .. Len(r.headers), j = k + 1, NEW q, WholeLine(q, r, k), j <= REQUEST_MAX_HEADERS,
         ~(ValueAt(r, j) < PoolLimit), NEW n, n = requestParse(q, HeaderLine(r.headers[j]))
  PROVE  SpoiltAt(n, r, k)
<1>0. PICK L \in Nat : L = PoolLimit /\ L > 0
  BY PoolSize
<1>1. PICK s, v : s = r.headers[j].name /\ v = r.headers[j].value
  OBVIOUS
<1>2. PICK na \in Nat, va \in Nat : na = NameAt(r, j) /\ va = ValueAt(r, j) /\ va = na + NameLen(r, j) + 1
                                    /\ na = Start(Top(r, k))
  <2>1. k = j - 1
    OBVIOUS
  <2> QED
    BY <2>1, Positions
<1>3. PICK x \in Nat, y \in Nat : x = NameLen(r, j) /\ y = ValueLen(r, j) /\ x > 0 /\ y > 0
  BY HeadersAre
<1>4. PICK q1, q2, q3 :
           /\ StringRead(q1, q, "HeaderName", "name", na, s, x)
           /\ q2 = InState(q1, "HeaderValue")
           /\ Reading(q1, r, k, "HeaderName") /\ Reading(q2, r, k, "HeaderValue")
           /\ SameBut(q1, q, "HeaderName", "name")
           /\ StringRead(q3, q2, "HeaderValue", "value", Start(q2.headersStringPoolOffset), v, y)
           /\ n = ParseChar(ParseChar(q3, CR), LF)
           /\ q2.header = q1.header /\ q2.pool = q1.pool /\ q2.warnings = q1.warnings
           /\ q2.headersStringPoolOffset = q1.headersStringPoolOffset
           /\ q1.headersStringPoolOffset \in Nat /\ Widened(q1.warnings, q.warnings)
  <2>1. PICK q1, q2, q3 : HeaderRun(q1, q2, q3, q, r, k, j, n)
    BY HeaderParts
  <2> QED
    BY <1>1, <1>2, <1>3, <2>1 DEF HeaderRun
<1>5. va >= L /\ na + x + 1 >= L
  <2>1. va >= L
    BY <1>0, <1>2
  <2> QED
    BY <1>2, <1>3, <2>1
<1>6. PICK o \in Nat : q2.headersStringPoolOffset = o /\ o > 0 /\ o + 1 >= L
  <2>1. PICK o \in Nat : q1.headersStringPoolOffset = o
    BY <1>4
  <2>2. o > 0 /\ o + 1 >= L
    <3>1. CASE na + x <= L
      <4>1. Fits(q1, q, "HeaderName", "name", na, s, x)
        BY <1>0, <1>4, <3>1 DEF StringRead
      <4>2. o = na + x
        BY <2>1, <4>1 DEF Fits
      <4> QED
        BY <1>3, <1>5, <4>2
    <3>2. CASE ~(na + x <= L) /\ na < L
      <4>1. Cut(q1, q, "HeaderName", "name", na, s)
        BY <1>0, <1>4, <3>2 DEF StringRead
      <4>2. o = L
        BY <1>0, <2>1, <4>1 DEF Cut
      <4> QED
        BY <1>0, <4>2
    <3>3. CASE ~(na < L)
      <4>1. Lost(q1, q, "HeaderName", "name")
        BY <1>0, <1>4, <3>3 DEF StringRead
      <4>2. o >= L
        BY <1>0, <2>1, <4>1 DEF Lost
      <4> QED
        BY <1>0, <4>2
    <3> QED
      BY <3>1, <3>2, <3>3
  <2> QED
    BY <1>4, <2>1, <2>2
<1>7. PICK ix \in Nat : ix = Start(q2.headersStringPoolOffset) /\ ix = o + 1
  BY <1>6 DEF Start
<1>8. AllFit(r, k) /\ Reading(q, r, k, "CRLF")
  BY DEF WholeLine
<1>9. \A i \in 1 .. k : Top(r, i) < ix
  <2>1. ASSUME NEW i \in 1 .. k PROVE Top(r, i) < ix
    <3>1. Top(r, i) <= Top(r, k) /\ Top(r, k) <= L /\ Top(r, k) \in Nat /\ Top(r, i) \in Nat
      <4>1. i \in 1 .. Len(r.headers) /\ k \in 1 .. Len(r.headers)
        BY HeadersAre
      <4>2. Top(r, i) \in Nat /\ Top(r, k) \in Nat /\ Top(r, k) <= L
        BY <1>0, <4>1, Positions DEF WholeLine
      <4>3. CASE i = k
        BY <4>2, <4>3
      <4>4. CASE i < k
        <5>1. Top(r, i) < NameAt(r, k) /\ NameAt(r, k) \in Nat
          BY <4>1, <4>4, Increasing, Positions
        <5>2. Top(r, k) = ValueAt(r, k) + ValueLen(r, k) /\ ValueAt(r, k) = NameAt(r, k) + NameLen(r, k) + 1
          BY <4>1, Positions
        <5>3. NameLen(r, k) \in Nat /\ ValueLen(r, k) \in Nat
          BY <4>1, HeadersAre
        <5> QED
          BY <4>2, <5>1, <5>2, <5>3
      <4> QED
        BY <4>2, <4>3, <4>4
    <3>2. CASE Top(r, k) = L
      <4>1. na = L + 1
        BY <1>0, <1>2, <3>2 DEF Start
      <4>2. Lost(q1, q, "HeaderName", "name") /\ SameBut(q1, q, "HeaderName", "name")
        BY <1>0, <1>4, <4>1 DEF StringRead
      <4>3. o >= L
        BY <1>0, <1>4, <1>6, <4>2 DEF Lost
      <4> QED
        BY <1>7, <3>1, <3>2, <4>3
    <3>3. CASE Top(r, k) < L
      BY <1>6, <1>7, <3>1, <3>3
    <3> QED
      BY <1>0, <3>1, <3>2, <3>3
  <2> QED
    BY <2>1
<1>10. Reading(q3, r, k, "HeaderValue")
  BY <1>3, <1>4, <1>7, <1>8, <1>9, StringLeaves
<1>11. Lost(q3, q2, "HeaderValue", "value")
  <2>1. ~(ix < L)
    BY <1>6, <1>7
  <2> QED
    BY <1>0, <1>4, <1>7, <2>1 DEF StringRead
<1>12. ~FilledOut(q3)
  <2>1. q3.header.value.length = 0
    BY <1>11 DEF Lost, NoString, StringAt
  <2> QED
    BY <2>1 DEF FilledOut
<1>13. n = InState(q3, "CRLF")
  BY <1>4, <1>10, <1>12, ValueEnds DEF Reading
<1>14. n.warnings = Exhausted(q1.warnings) /\ n.pool = q3.pool
       /\ SameBut(n, q3, "CRLF", "value")
  <2>1. "value" \in HeaderFields /\ HasHeader(q3)
    BY <1>10 DEF HeaderFields, Reading
  <2>2. SameBut(n, q3, "CRLF", "value") /\ n.header = q3.header /\ n.pool = q3.pool /\ n.warnings = q3.warnings
         /\ n.headersStringPoolOffset = q3.headersStringPoolOffset
    BY <1>13, <2>1, InStateSame
  <2> QED
    BY <1>4, <1>11, <2>2 DEF Lost
<1>15. Reading(n, r, k, "CRLF")
  <2>1. HasHeader(n) /\ n.state = "CRLF" /\ \A f \in Aside : n[f] = q3[f]
    BY <1>14 DEF SameBut
  <2>2. n.headers = q3.headers /\ n.body = q3.body /\ n.capacity = q3.capacity
    BY <2>1 DEF Aside, Fields
  <2>3. LineHeld(n, r)
    <3>1. Widened(n.warnings, q3.warnings)
      <4>1. n.warnings = q3.warnings
        BY <1>4, <1>11, <1>14 DEF Lost
      <4> QED
        BY <4>1 DEF Widened
    <3> QED
      BY <1>10, <2>1, <3>1, LineStays DEF Reading
  <2>4. HeadersHeld(n, r, k)
    BY <1>10, <1>14, <2>2 DEF Reading, HeadersHeld
  <2> QED
    BY <1>10, <2>1, <2>2, <2>3, <2>4 DEF Reading
<1>16. n.warnings \cap HeaderWarnings # {} /\ Eats(n)
  BY <1>14 DEF Exhausted, HeaderWarnings, Eats
<1>17. NoMore(r, k)
  BY <1>0, <1>2, <1>5 DEF NoMore
<1> QED
  BY <1>8, <1>15, <1>16, <1>17 DEF SpoiltAt

\* Whatever there is room for, a header line leads to the next.
LEMMA HeaderRead ==
  ASSUME RequestAssumption, NEW r \in Requests, WellFormed(r), NEW k \in Nat,
         k < Len(r.headers), NEW q, WholeLine(q, r, k) \/ Spoilt(q, r),
         NEW n, n = requestParse(q, HeaderLine(r.headers[k + 1]))
  PROVE  WholeLine(n, r, k + 1) \/ Spoilt(n, r)
<1>1. PICK j \in Nat : j = k + 1 /\ j \in 1 .. Len(r.headers)
  BY HeadersAre
<1>2. n = requestParse(q, HeaderLine(r.headers[j]))
  BY <1>1
<1>3. CASE Spoilt(q, r)
  <2>1. PICK m \in Nat : SpoiltAt(q, r, m)
    BY <1>3 DEF Spoilt
  <2>2. AllFit(r, m) /\ NoMore(r, m) /\ Reading(q, r, m, "CRLF") /\ Eats(q)
    BY <2>1 DEF SpoiltAt
  <2>3. SpoiltAt(n, r, m)
    BY <1>1, <1>2, <2>2, LineEaten
  <2> QED
    BY <2>3 DEF Spoilt
<1>4. CASE WholeLine(q, r, k) /\ ~(j <= REQUEST_MAX_HEADERS)
  <2>1. AllFit(r, k) /\ Reading(q, r, k, "CRLF")
    BY <1>4 DEF WholeLine
  <2>2. NoMore(r, k)
    BY <1>1, <1>4 DEF NoMore, RequestAssumption
  <2>3. Eats(q)
    <3>1. q.headers = [i \in 1 .. k |-> Slot(r, i)]
      BY <2>1 DEF Reading, HeadersHeld
    <3>2. Len(q.headers) = k
      BY <3>1
    <3>3. k >= REQUEST_MAX_HEADERS
      BY <1>1, <1>4 DEF RequestAssumption
    <3> QED
      BY <3>2, <3>3 DEF Eats
  <2>4. SpoiltAt(n, r, k)
    BY <1>1, <1>2, <2>1, <2>2, <2>3, LineEaten
  <2> QED
    BY <2>4 DEF Spoilt
<1>5. CASE WholeLine(q, r, k) /\ j <= REQUEST_MAX_HEADERS /\ ValueAt(r, j) < PoolLimit
  <2>1. WholeLine(n, r, j) \/ SpoiltAt(n, r, j)
    BY <1>1, <1>2, <1>5, HeaderFits
  <2> QED
    BY <1>1, <2>1 DEF Spoilt
<1>6. CASE WholeLine(q, r, k) /\ j <= REQUEST_MAX_HEADERS /\ ~(ValueAt(r, j) < PoolLimit)
  <2>1. SpoiltAt(n, r, k)
    BY <1>1, <1>2, <1>6, HeaderLost
  <2> QED
    BY <2>1 DEF Spoilt
<1> QED
  BY <1>3, <1>4, <1>5, <1>6

---------------------------------------------------------------------------
(* The head of a request.                                                  *)

\* The headers end one behind the other.
LEMMA TopsGrow ==
  ASSUME RequestAssumption, NEW r \in Requests, WellFormed(r), NEW i \in 1 .. Len(r.headers),
         NEW k \in 1 .. Len(r.headers), i <= k
  PROVE  Top(r, i) <= Top(r, k) /\ Top(r, k) \in Nat /\ Top(r, i) \in Nat
<1>1. Top(r, i) \in Nat /\ Top(r, k) \in Nat
  BY Positions
<1>2. CASE i = k
  BY <1>1, <1>2
<1>3. CASE i # k
  <2>1. i < k
    BY <1>3, HeadersAre
  <2>2. Top(r, i) < NameAt(r, k) /\ NameAt(r, k) \in Nat
    BY <2>1, Increasing, Positions
  <2>3. Top(r, k) = ValueAt(r, k) + ValueLen(r, k) /\ ValueAt(r, k) = NameAt(r, k) + NameLen(r, k) + 1
    BY Positions
  <2>4. NameLen(r, k) \in Nat /\ ValueLen(r, k) \in Nat
    BY HeadersAre
  <2> QED
    BY <1>1, <2>2, <2>3, <2>4
<1> QED
  BY <1>2, <1>3

\* The head of a request has been read up to its last two characters.
HeadRead(q, r, m, st) ==
  /\ Reading(q, r, m, st) /\ AllFit(r, m) /\ NoMore(r, m)
  /\ KeptHeaders(r) # r.headers => q.warnings \cap HeaderWarnings # {}

\* All headers have been read, each with all of its value.
LEMMA WholeKept ==
  ASSUME RequestAssumption, NEW r \in Requests, WellFormed(r), NEW M \in Nat, M = Len(r.headers),
         NEW q, WholeLine(q, r, M)
  PROVE  HeadRead(q, r, M, "CRLF")
<1>1. AllFit(r, M) /\ Reading(q, r, M, "CRLF") /\ NoMore(r, M)
  BY DEF WholeLine, NoMore
<1>2. KeptHeaders(r) = [k \in 1 .. M |-> KeptHeader(r, k)]
  BY <1>1, KeptIs
<1>3. ASSUME NEW k \in 1 .. M PROVE KeptHeader(r, k) = r.headers[k]
  <2>1. PICK h \in [name : HeaderNames, value : HeaderValues] : h = r.headers[k]
    BY Element DEF RequestAssumption
  <2>2. PICK v \in Seq(Chars) : v = h.value
    BY <2>1, HeadersAre
  <2>3. PICK va \in Nat, y \in Nat : va = ValueAt(r, k) /\ y = ValueLen(r, k) /\ Top(r, k) = va + y
    BY Positions, HeadersAre
  <2>4. y = Len(v)
    BY <2>1, <2>2, <2>3 DEF ValueLen
  <2>5. PICK L \in Nat : L = PoolLimit
    BY PoolSize
  <2>6. va + y <= L
    <3>1. M \in 1 .. Len(r.headers) /\ k <= M
      OBVIOUS
    <3>2. Top(r, k) <= Top(r, M) /\ Top(r, M) \in Nat /\ Top(r, M) <= L
      BY <2>5, <3>1, TopsGrow DEF WholeLine
    <3> QED
      BY <2>3, <3>2
  <2>7. Shorter(v, L - va) = v
    <3>1. (IF Len(v) < L - va THEN Len(v) ELSE L - va) = Len(v)
      BY <2>4, <2>6
    <3>2. SubSeq(v, 1, Len(v)) = v
      OBVIOUS
    <3> QED
      BY <3>1, <3>2 DEF Shorter
  <2>8. h = [name |-> h.name, value |-> h.value]
    OBVIOUS
  <2> QED
    BY <2>1, <2>2, <2>3, <2>5, <2>7, <2>8 DEF KeptHeader
<1>4. r.headers = [k \in 1 .. M |-> r.headers[k]]
  BY DEF RequestAssumption
<1>5. KeptHeaders(r) = r.headers
  BY <1>2, <1>3, <1>4
<1> QED
  BY <1>1, <1>5 DEF HeadRead

HeaderLines(r) == [k \in DOMAIN r.headers |-> HeaderLine(r.headers[k])]

\* What the head has between its first line and its end.
LEMMA LinesAre ==
  ASSUME RequestAssumption, NEW r \in Requests, WellFormed(r)
  PROVE  HeaderLines(r) \in Seq(Seq(Chars)) /\ Len(HeaderLines(r)) = Len(r.headers)
         /\ \A k \in 1 .. Len(r.headers) : HeaderLines(r)[k] = HeaderLine(r.headers[k])
<1>1. PICK M \in Nat : M = Len(r.headers) /\ DOMAIN r.headers = 1 .. M
  BY HeadersAre
<1>2. ASSUME NEW k \in 1 .. M PROVE HeaderLine(r.headers[k]) \in Seq(Chars)
  BY <1>1, HeaderInParts DEF InParts
<1>3. PICK ls : ls = [k \in 1 .. M |-> HeaderLine(r.headers[k])] /\ ls = HeaderLines(r)
  BY <1>1 DEF HeaderLines
<1>4. \A k \in 1 .. M : ls[k] = HeaderLine(r.headers[k]) /\ ls[k] \in Seq(Chars)
  BY <1>2, <1>3
<1>5. ls = [k \in 1 .. M |-> ls[k]]
  BY <1>3
<1>6. ls \in Seq(Seq(Chars)) /\ Len(ls) = M
  BY <1>4, <1>5
<1> QED
  BY <1>1, <1>3, <1>4, <1>6

\* The header lines, all of them.
LEMMA HeadersRead ==
  ASSUME RequestAssumption, NEW r \in Requests, WellFormed(r), NEW q, WholeLine(q, r, 0)
  PROVE  /\ FlattenSeq(HeaderLines(r)) \in Seq(Chars)
         /\ \E m \in Nat : HeadRead(requestParse(q, FlattenSeq(HeaderLines(r))), r, m, "CRLF")
<1>1. PICK M \in Nat : M = Len(r.headers)
  BY HeadersAre
<1>2. PICK ls \in Seq(Seq(Chars)) : /\ ls = HeaderLines(r) /\ Len(ls) = M
                                    /\ \A k \in 1 .. M : ls[k] = HeaderLine(r.headers[k])
  BY <1>1, LinesAre
<1>3. PICK g : Flattens(g, ls, Chars)
  BY FlattensExists
<1>4. FlattenSeq(ls) = g[M]
  BY <1>2, <1>3, FlattensIs DEF Place
<1>5. /\ g[0] = <<>> /\ \A k \in 0 .. M : g[k] \in Seq(Chars)
      /\ \A k \in 0 .. M - 1 : g[k + 1] = Joins(g[k], ls[k + 1])
  BY <1>2, <1>3 DEF Flattens
<1> DEFINE Good(k, n) == WholeLine(n, r, k) \/ Spoilt(n, r)
           S == {k \in Nat : k <= M => Good(k, requestParse(q, g[k]))}
<1>6. 0 \in S
  <2>1. PICK e : e = g[0] /\ e = <<>> /\ Len(e) = 0 /\ Len(e) \in Nat
    BY <1>5
  <2>2. requestParse(q, e) = Place(ParsedOf(q, e), Len(e)) /\ ParsedOf(q, e)[0] = q
    BY <2>1, ParsedSteps
  <2>3. requestParse(q, e) = q
    BY <2>1, <2>2 DEF Place
  <2> QED
    BY <2>1, <2>3
<1>7. ASSUME NEW k \in Nat, k \in S PROVE k + 1 \in S
  <2>1. SUFFICES ASSUME k + 1 <= M PROVE Good(k + 1, requestParse(q, g[k + 1]))
    OBVIOUS
  <2>2. PICK a \in Seq(Chars), t \in Seq(Chars) : a = g[k] /\ t = ls[k + 1]
    <3>1. k \in 0 .. M /\ k + 1 \in 1 .. M
      BY <2>1
    <3> QED
      BY <1>2, <1>5, <3>1, Element
  <2>3. g[k + 1] = Joins(a, t) /\ t = HeaderLine(r.headers[k + 1])
    <3>1. k \in 0 .. M - 1 /\ k + 1 \in 1 .. M
      BY <2>1
    <3> QED
      BY <1>2, <1>5, <2>2, <3>1
  <2>4. PICK b : b = requestParse(q, a) /\ Good(k, b)
    BY <1>7, <2>1, <2>2
  <2>5. PICK n : n = requestParse(b, HeaderLine(r.headers[k + 1]))
    OBVIOUS
  <2>6. requestParse(q, Joins(a, t)) = n
    BY <2>3, <2>4, <2>5, ParsedJoin
  <2>7. Good(k + 1, n)
    <3>1. k < Len(r.headers)
      BY <1>1, <2>1
    <3> QED
      BY <2>4, <2>5, <3>1, HeaderRead
  <2> QED
    BY <2>3, <2>6, <2>7
<1>8. M \in S
  <2> HIDE DEF S
  <2> QED
    BY <1>6, <1>7, SetInduction
<1>9. PICK n : n = requestParse(q, g[M]) /\ Good(M, n)
  BY <1>8
<1>10. \E m \in Nat : HeadRead(n, r, m, "CRLF")
  <2>1. CASE WholeLine(n, r, M)
    BY <1>1, <2>1, WholeKept
  <2>2. CASE Spoilt(n, r)
    BY <2>2 DEF Spoilt, SpoiltAt, HeadRead
  <2> QED
    BY <1>9, <2>1, <2>2
<1>11. g[M] \in Seq(Chars)
  BY <1>5
<1> QED
  BY <1>2, <1>4, <1>9, <1>10, <1>11

\* The line has been read, and no header.
LEMMA LineIsWhole ==
  ASSUME RequestAssumption, NEW r \in Requests, WellFormed(r),
         NEW q, q = requestParse(NoRequest, FirstLine(r))
  PROVE  WholeLine(q, r, 0)
<1>1. Line(q, "CRLF", Shorter(r.method, MethodMax), Shorter(FlattenSeq(r.path), PathMax),
           DecodedPath(r), Shorter(r.version, VersionMax), LineCut(r))
  BY LineRead
<1>2. /\ IsRequest(q) /\ q.state = "CRLF" /\ q.headers = NoRequest.headers /\ q.header = NoRequest.header
      /\ q.pool = NoRequest.pool /\ q.headersStringPoolOffset = NoRequest.headersStringPoolOffset
      /\ q.body = NoRequest.body /\ q.capacity = NoRequest.capacity /\ q.warnings = LineCut(r)
  BY <1>1 DEF Line, Rest
<1>3. /\ q.headers = <<>> /\ q.header = NoHeader /\ q.headersStringPoolOffset = 0 /\ q.body = <<>>
      /\ q.capacity = 0 /\ q.pool = [k \in Places |-> NUL]
  BY <1>2 DEF NoRequest, Places
<1>4. HasHeader(q)
  BY <1>2, <1>3 DEF HasHeader, NoHeader, HeaderFields
<1>5. LineHeld(q, r)
  <2>1. Len(FlattenSeq(r.path)) \in Nat /\ PathMax \in Nat
    <3>1. r.path \in Seq(Pieces)
      BY DEF RequestAssumption
    <3>2. FlattenSeq(r.path) \in Seq(Nat \ {SP})
      BY <3>1, Flat, PiecesAre, SeqMonotonic
    <3> QED
      BY <3>2 DEF RequestAssumption
  <2> QED
    BY <1>1, <1>2, <2>1, LineCutIs DEF Line, LineHeld
<1>6. HeadersHeld(q, r, 0)
  BY <1>3 DEF HeadersHeld, IsPool
<1>7. AllFit(r, 0)
  BY HeadersAre DEF AllFit
<1>8. Top(r, 0) = 0 /\ 0 <= PoolLimit /\ 0 <= REQUEST_MAX_HEADERS
  <2>1. Top(r, 0) = 0
    BY DEF Top
  <2>2. 0 <= PoolLimit
    BY PoolSize
  <2>3. 0 <= REQUEST_MAX_HEADERS
    BY DEF RequestAssumption
  <2> QED
    BY <2>1, <2>2, <2>3
<1>9. Clear(q.pool, 0)
  BY <1>3 DEF Clear
<1>10. q.warnings \cap HeaderWarnings = {}
  BY <1>2, LineCutIs
<1> QED
  BY <1>2, <1>3, <1>4, <1>5, <1>6, <1>7, <1>8, <1>9, <1>10 DEF WholeLine, Reading

\* The head of a request, up to the CR and LF that end it.
LEMMA HeadParts ==
  ASSUME RequestAssumption, NEW r \in Requests, WellFormed(r)
  PROVE  \E s \in Seq(Chars) :
           /\ HeadOf(r) = Joins(s, Two(CR, LF)) /\ HeadOf(r) \in Seq(Chars)
           /\ \E m \in Nat : HeadRead(requestParse(NoRequest, s), r, m, "CRLF")
<1>1. PICK a \in Seq(Chars) : a = FirstLine(r)
  BY LineRead
<1>2. PICK q : q = requestParse(NoRequest, a) /\ WholeLine(q, r, 0)
  BY <1>1, LineIsWhole
<1>3. PICK t \in Seq(Chars) : t = FlattenSeq(HeaderLines(r))
  BY <1>2, HeadersRead
<1>4. PICK m \in Nat : HeadRead(requestParse(q, t), r, m, "CRLF")
  BY <1>2, <1>3, HeadersRead
<1>5. PICK s \in Seq(Chars) : s = Joins(a, t)
  BY JoinedParts
<1>6. requestParse(NoRequest, s) = requestParse(q, t)
  BY <1>2, <1>5, ParsedJoin
<1>7. HeadOf(r) = Joins(s, Two(CR, LF))
  BY <1>1, <1>3, <1>5 DEF HeadOf, FirstLine, HeaderLines, Joins, Two
<1>8. Joins(s, Two(CR, LF)) \in Seq(Chars)
  <2>1. CR \in Chars /\ LF \in Chars
    BY DEF Chars, CR, LF
  <2> QED
    BY <2>1, ParsedTwoMore
<1> QED
  BY <1>4, <1>6, <1>7, <1>8

\* There is at most one number at the beginning of a text.
LEMMA ScannedIs ==
  ASSUME NEW s \in Seq(Chars)
  PROVE  Scanned(s) = {} \/ \E d \in Int : Scanned(s) = {d}
<1> DEFINE plain == {k \in {1} : k <= Len(s) /\ IsDigits(s[k])}
           signed == {k \in {2} : k <= Len(s) /\ s[1] \in {DASH, PLUS} /\ IsDigits(s[k])}
           number == IF s[1] = DASH THEN -s[2] ELSE s[2]
<1>1. Scanned(s) = {s[1] : k \in plain} \cup {number : k \in signed}
  BY DEF Scanned
<1>2. Len(s) \in Nat
  OBVIOUS
<1>3. CASE 1 <= Len(s) /\ IsDigits(s[1])
  <2>1. s[1] \in Int
    BY <1>3, Element DEF Chars
  <2>2. plain = {1}
    BY <1>3
  <2>3. s[1] # DASH /\ s[1] # PLUS
    BY <1>3 DEF IsDigits, DASH, PLUS
  <2>4. signed = {}
    BY <2>3
  <2>5. Scanned(s) = {s[1]}
    BY <1>1, <2>2, <2>4
  <2> QED
    BY <2>1, <2>5
<1>4. CASE ~(1 <= Len(s) /\ IsDigits(s[1])) /\ 2 <= Len(s) /\ s[1] \in {DASH, PLUS} /\ IsDigits(s[2])
  <2>1. s[2] \in Nat
    BY <1>4, Element DEF Chars
  <2>2. number \in Int
    BY <2>1
  <2>3. plain = {}
    BY <1>4
  <2>4. signed = {2}
    BY <1>4
  <2>5. Scanned(s) = {number}
    BY <1>1, <2>3, <2>4
  <2> QED
    BY <2>2, <2>5
<1>5. CASE /\ ~(1 <= Len(s) /\ IsDigits(s[1]))
           /\ ~(2 <= Len(s) /\ s[1] \in {DASH, PLUS} /\ IsDigits(s[2]))
  <2>1. plain = {} /\ signed = {}
    BY <1>5
  <2> QED
    BY <1>1, <2>1
<1> QED
  BY <1>3, <1>4, <1>5

\* The Content-Length of a request and what the parser finds for it.
LEMMA LengthsAre ==
  ASSUME RequestAssumption, NEW r \in Requests, WellFormed(r), NEW m \in Nat, NEW q,
         NEW st, HeadRead(q, r, m, st)
  PROVE  \/ ContentLengths(q) = {} /\ BodyLengths(r) = {}
         \/ \E d \in Int : /\ ContentLengths(q) = {d}
                           /\ BodyLengths(r) = {IF d > REQUEST_MAX_BODY_LENGTH THEN REQUEST_MAX_BODY_LENGTH
                                                ELSE IF d < 0 THEN 0 ELSE d}
<1>1. AllFit(r, m) /\ NoMore(r, m) /\ HeadersHeld(q, r, m)
  BY DEF HeadRead, Reading
<1> DEFINE cl == <<ContentLength>>
           hs == q.headers
           kept == KeptHeaders(r)
           back == ReadBack(q)
           named == {k \in DOMAIN kept : kept[k].name = cl}
           first == {k \in DOMAIN hs : /\ CString(q.pool, hs[k].name.at) = cl
                                       /\ \A j \in 1 .. k - 1 : CString(q.pool, hs[j].name.at) # cl}
           found == headerInRequest(cl, q)
<1>7. found = {hs[k].value : k \in first}
  BY DEF headerInRequest
<1>8. ContentLengths(q) = UNION {Scanned(CString(q.pool, x.at)) : x \in found}
  BY DEF ContentLengths
<1>10. BodyLengths(r) = {IF n < 0 THEN 0 ELSE Min({n, REQUEST_MAX_BODY_LENGTH}) :
                           n \in UNION {Scanned(kept[k].value) : k \in {k \in named : k = Min(named)}}}
  BY DEF BodyLengths
<1>2. kept = [k \in 1 .. m |-> KeptHeader(r, k)] /\ DOMAIN kept = 1 .. m
  BY <1>1, KeptIs
<1>3. back = kept
  BY <1>1, ReadBackIs
<1>4. hs = [k \in 1 .. m |-> Slot(r, k)] /\ DOMAIN hs = 1 .. m
  BY <1>1 DEF HeadersHeld
<1>5. \A k \in 1 .. m : /\ back[k].name = CString(q.pool, hs[k].name.at)
                       /\ back[k].value = CString(q.pool, hs[k].value.at)
  BY <1>4 DEF ReadBack
<1> HIDE DEF cl, hs, kept, back, found
<1>6. \A k : k \in first <=> /\ k \in 1 .. m /\ kept[k].name = cl
                             /\ \A j \in 1 .. k - 1 : kept[j].name # cl
  <2>1. \A k \in 1 .. m : CString(q.pool, hs[k].name.at) = kept[k].name
    BY <1>3, <1>5
  <2>2. ASSUME NEW k \in 1 .. m
        PROVE  k \in first <=> kept[k].name = cl /\ \A j \in 1 .. k - 1 : kept[j].name # cl
    <3>1. \A j \in 1 .. k - 1 : j \in 1 .. m
      OBVIOUS
    <3> QED
      BY <1>4, <2>1, <3>1
  <2> QED
    BY <1>4, <2>2
<1>9. \A k : k \in named <=> k \in 1 .. m /\ kept[k].name = cl
  BY <1>2
<1> HIDE DEF first, named
<1>11. CASE named = {}
  <2>1. found = {}
    BY <1>6, <1>7, <1>9, <1>11
  <2> QED
    BY <1>8, <1>10, <1>11, <2>1
<1>12. CASE named # {}
  <2>1. PICK k0 \in named : \A k \in named : k0 <= k
    <3>1. named \subseteq Nat
      BY <1>9
    <3> QED
      BY <1>12, <3>1, LeastElement
  <2>2. k0 \in 1 .. m /\ kept[k0].name = cl
    BY <1>9, <2>1
  <2>3. first = {k0}
    <3>1. ASSUME NEW k \in 1 .. m, kept[k].name = cl, \A j \in 1 .. k - 1 : kept[j].name # cl
          PROVE  k = k0
      <4>1. k0 <= k
        BY <1>9, <2>1, <3>1
      <4>2. ~(k0 \in 1 .. k - 1)
        BY <2>2, <3>1
      <4> QED
        BY <2>2, <4>1, <4>2
    <3>2. \A j \in 1 .. k0 - 1 : kept[j].name # cl
      <4>1. ASSUME NEW j \in 1 .. k0 - 1, kept[j].name = cl PROVE FALSE
        <5>1. j \in named /\ ~(k0 <= j)
          BY <1>9, <2>2, <4>1
        <5> QED
          BY <2>1, <5>1
      <4> QED
        BY <4>1
    <3> QED
      BY <1>6, <2>2, <3>1, <3>2
  <2>4. found = {hs[k0].value}
    BY <1>7, <2>3
  <2>5. Min(named) = k0
    <3>1. PICK z : z = Min(named) /\ z \in named /\ \A y \in named : z <= y
      BY <2>1 DEF Min
    <3>2. z <= k0 /\ k0 <= z /\ z \in Nat /\ k0 \in Nat
      BY <1>9, <2>1, <2>2, <3>1
    <3> QED
      BY <3>1, <3>2
  <2>6. k0 \in 1 .. Len(r.headers) /\ ValueAt(r, k0) < PoolLimit
    BY <1>1, <2>2, HeadersAre DEF AllFit
  <2>7. PICK v \in Seq(Chars), va \in Nat, l \in Nat :
          v = r.headers[k0].value /\ va = ValueAt(r, k0) /\ l = KeptLen(r, k0) /\ l > 0 /\ v # <<>> /\ l <= Len(v)
    <3>1. ValueLen(r, k0) = Len(r.headers[k0].value)
      BY DEF ValueLen
    <3> QED
      BY <2>6, <3>1, HeadersAre, KeptLenIs, Positions
  <2>8. PICK t : t = kept[k0].value /\ t \in Seq(Chars)
    <3>1. PICK e : e = kept[k0] /\ e = KeptHeader(r, k0)
      BY <1>2, <2>2
    <3>2. e.value = Shorter(v, PoolLimit - va)
      BY <2>7, <3>1 DEF KeptHeader
    <3>3. Shorter(v, PoolLimit - va) = SubSeq(v, 1, l)
      BY <2>7 DEF Shorter, KeptLen, Least, ValueLen
    <3>4. SubSeq(v, 1, l) \in Seq(Chars)
      BY <2>7, Prefix
    <3> QED
      BY <3>1, <3>2, <3>3, <3>4
  <2>9. PICK hv : hv = hs[k0].value
    OBVIOUS
  <2>10. CString(q.pool, hv.at) = t
    BY <1>3, <1>5, <2>2, <2>8, <2>9
  <2>11. ContentLengths(q) = Scanned(t)
    BY <1>8, <2>4, <2>9, <2>10
  <2>12. BodyLengths(r) = {IF n < 0 THEN 0 ELSE Min({n, REQUEST_MAX_BODY_LENGTH}) : n \in Scanned(t)}
    <3>1. {k \in named : k = Min(named)} = {k0}
      BY <2>1, <2>5
    <3>2. UNION {Scanned(kept[k].value) : k \in {k \in named : k = Min(named)}} = Scanned(t)
      BY <2>8, <3>1
    <3> QED
      BY <1>10, <3>2
  <2>13. CASE Scanned(t) = {}
    BY <2>11, <2>12, <2>13
  <2>14. ASSUME NEW d \in Int, Scanned(t) = {d}
         PROVE  BodyLengths(r) = {IF d > REQUEST_MAX_BODY_LENGTH THEN REQUEST_MAX_BODY_LENGTH
                                  ELSE IF d < 0 THEN 0 ELSE d}
    <3>1. PICK b \in Nat : b = REQUEST_MAX_BODY_LENGTH
      BY DEF RequestAssumption
    <3>2. PICK z : z = (IF d > b THEN b ELSE d) /\ z \in {d, b} /\ \A y \in {d, b} : z <= y
      OBVIOUS
    <3>3. PICK y : y = Min({d, b}) /\ y \in {d, b} /\ \A x \in {d, b} : y <= x
      BY <3>2 DEF Min
    <3>4. y = z /\ y \in Int /\ z \in Int
      BY <3>2, <3>3
    <3>5. (IF d < 0 THEN 0 ELSE y) = IF d > b THEN b ELSE IF d < 0 THEN 0 ELSE d
      BY <3>2, <3>4
    <3>6. BodyLengths(r) = {IF d < 0 THEN 0 ELSE y}
      BY <2>12, <2>14, <3>1, <3>3
    <3> QED
      BY <3>1, <3>5, <3>6
  <2> QED
    BY <2>8, <2>11, <2>13, <2>14, ScannedIs
<1> QED
  BY <1>11, <1>12

---------------------------------------------------------------------------
(* The body.                                                               *)

\* What the answer is made from.
Answered(q, r) ==
  /\ IsRequest(q) /\ LineHeld(q, r) /\ ReadBack(q) = KeptHeaders(r)
  /\ KeptHeaders(r) # r.headers => q.warnings \cap HeaderWarnings # {}

BodyAt(q, r, st, c, body) ==
  Answered(q, r) /\ q.state = st /\ q.capacity = c /\ q.body = body

\* The body is nothing to the rest of the answer.
LEMMA AnsweredStays ==
  ASSUME NEW b, NEW r, Answered(b, r), NEW q, IsRequest(q),
         \A f \in Fields \ {"state", "capacity", "body", "warnings"} : q[f] = b[f],
         b.warnings \subseteq q.warnings, q.warnings \subseteq b.warnings \cup {"bodyTruncated"}
  PROVE  Answered(q, r)
<1>1. /\ q.method = b.method /\ q.path = b.path /\ q.pathDecoded = b.pathDecoded
      /\ q.version = b.version /\ q.headers = b.headers /\ q.pool = b.pool
  BY DEF Fields
<1>2. "pathTruncated" \in q.warnings <=> "pathTruncated" \in b.warnings
  OBVIOUS
<1>3. LineHeld(q, r)
  BY <1>1, <1>2 DEF LineHeld, Answered
<1>4. ReadBack(q) = ReadBack(b)
  BY <1>1 DEF ReadBack
<1> QED
  BY <1>3, <1>4 DEF Answered

\* With the end of the head the parser is done, or waits for as much of a body as is
\* promised.
LEMMA HeadEnds ==
  ASSUME RequestAssumption, NEW r \in Requests, WellFormed(r), NEW m \in Nat, NEW q,
         HeadRead(q, r, m, "CRLF"), NEW i, i = ParseChar(q, CR), NEW n, n = ParseChar(i, LF)
  PROVE  /\ i.state = "CRLFCR"
         /\ \/ BodyLengths(r) = {} /\ BodyAt(n, r, "Done", 0, <<>>)
            \/ \E c \in Nat : BodyLengths(r) = {c} /\ BodyAt(n, r, "Body", c, <<>>)
<1>1. HasHeader(q) /\ q.state = "CRLF"
  BY DEF HeadRead, Reading
<1>2. i = InState(q, "CRLFCR")
  BY <1>1 DEF ParseChar, ParseCRLF, InState
<1>3. /\ SameBut(i, q, "CRLFCR", "name") /\ i.header = q.header /\ i.pool = q.pool /\ i.warnings = q.warnings
      /\ i.headersStringPoolOffset = q.headersStringPoolOffset
  <2>1. "name" \in HeaderFields
    BY DEF HeaderFields
  <2> QED
    BY <1>1, <1>2, <2>1, InStateSame
<1>4. HasHeader(i) /\ i.state = "CRLFCR" /\ \A f \in Aside : i[f] = q[f]
  BY <1>3 DEF SameBut
<1>5. i.headers = q.headers /\ i.body = q.body /\ i.capacity = q.capacity
  BY <1>4 DEF Aside, Fields
<1>6. LineHeld(i, r)
  <2>1. Widened(i.warnings, q.warnings)
    BY <1>3 DEF Widened
  <2> QED
    BY <1>4, <2>1, LineStays DEF HeadRead, Reading
<1>7. HeadersHeld(i, r, m)
  BY <1>3, <1>5 DEF HeadersHeld, HeadRead, Reading
<1>8. HeadRead(i, r, m, "CRLFCR")
  BY <1>3, <1>4, <1>5, <1>6, <1>7 DEF HeadRead, Reading
<1>9. ReadBack(i) = KeptHeaders(r)
  BY <1>7, ReadBackIs DEF HeadRead
<1>10. Answered(i, r) /\ i.capacity = 0 /\ i.body = <<>> /\ IsRequest(i)
  BY <1>8, <1>9 DEF Answered, HeadRead, Reading, HasHeader
<1>11. n = IF ContentLengths(i) = {} THEN [i EXCEPT !.state = "Done"]
           ELSE [i EXCEPT !.state = "Body",
                 !.capacity = LET x == CHOOSE x \in ContentLengths(i) : TRUE
                              IN  IF x > REQUEST_MAX_BODY_LENGTH THEN REQUEST_MAX_BODY_LENGTH
                                  ELSE IF x < 0 THEN 0 ELSE x]
  <2>1. n = ParseCRLFCR(i, LF)
    BY <1>4 DEF ParseChar
  <2> QED
    BY <2>1 DEF ParseCRLFCR
<1>12. CASE ContentLengths(i) = {} /\ BodyLengths(r) = {}
  <2>1. n = [i EXCEPT !.state = "Done"]
    BY <1>11, <1>12
  <2>2. /\ IsRequest(n) /\ \A f \in Fields \ {"state", "capacity", "body", "warnings"} : n[f] = i[f]
        /\ n.warnings = i.warnings /\ n.state = "Done" /\ n.capacity = 0 /\ n.body = <<>>
    BY <1>10, <2>1 DEF IsRequest, Fields
  <2>3. Answered(n, r)
    BY <1>10, <2>2, AnsweredStays
  <2> QED
    BY <1>4, <1>12, <2>2, <2>3 DEF BodyAt
<1>13. ASSUME NEW d \in Int, ContentLengths(i) = {d},
              BodyLengths(r) = {IF d > REQUEST_MAX_BODY_LENGTH THEN REQUEST_MAX_BODY_LENGTH
                                ELSE IF d < 0 THEN 0 ELSE d}
       PROVE  \E c \in Nat : BodyLengths(r) = {c} /\ BodyAt(n, r, "Body", c, <<>>)
  <2>1. PICK c \in Nat : c = IF d > REQUEST_MAX_BODY_LENGTH THEN REQUEST_MAX_BODY_LENGTH
                             ELSE IF d < 0 THEN 0 ELSE d
    BY DEF RequestAssumption
  <2>2. n = [i EXCEPT !.state = "Body", !.capacity = c]
    <3>1. (CHOOSE x \in ContentLengths(i) : TRUE) = d
      BY <1>13
    <3>2. ContentLengths(i) # {}
      BY <1>13
    <3> QED
      BY <1>11, <2>1, <3>1, <3>2
  <2>3. /\ IsRequest(n) /\ \A f \in Fields \ {"state", "capacity", "body", "warnings"} : n[f] = i[f]
        /\ n.warnings = i.warnings /\ n.state = "Body" /\ n.capacity = c /\ n.body = <<>>
    BY <1>10, <2>2 DEF IsRequest, Fields
  <2>4. Answered(n, r)
    BY <1>10, <2>3, AnsweredStays
  <2> QED
    BY <1>13, <2>1, <2>3, <2>4 DEF BodyAt
<1>14. \/ ContentLengths(i) = {} /\ BodyLengths(r) = {}
       \/ \E d \in Int : /\ ContentLengths(i) = {d}
                         /\ BodyLengths(r) = {IF d > REQUEST_MAX_BODY_LENGTH THEN REQUEST_MAX_BODY_LENGTH
                                              ELSE IF d < 0 THEN 0 ELSE d}
  BY <1>8, LengthsAre
<1> QED
  BY <1>4, <1>12, <1>13, <1>14

\* The body, a character at a time.
Awaited(c) == IF c = 0 THEN 1 ELSE c
Reached(k, c) == IF k < Awaited(c) THEN "Body" ELSE "Done"
BodySoFar(q, r, c, s, k) == BodyAt(q, r, Reached(k, c), c, SubSeq(s, 1, Least(k, c)))

\* One more character.
LEMMA BodyStep ==
  ASSUME NEW r, NEW s \in Seq(Chars), NEW c \in Nat, NEW k \in Nat, k < Len(s),
         NEW q, BodySoFar(q, r, c, s, k), NEW n, n = ParseChar(q, s[k + 1])
  PROVE  BodySoFar(n, r, c, s, k + 1)
<1>1. PICK b, x : b = q.body /\ x = s[k + 1] /\ b = SubSeq(s, 1, Least(k, c))
  BY DEF BodySoFar, BodyAt
<1>2. /\ Answered(q, r) /\ IsRequest(q) /\ q.capacity = c /\ q.state = Reached(k, c)
  BY DEF BodySoFar, BodyAt, Answered
<1>3. ASSUME NEW st, NEW y, n = [q EXCEPT !.body = y, !.state = st] PROVE BodyAt(n, r, st, c, y)
  <2>1. /\ IsRequest(n) /\ \A f \in Fields \ {"state", "capacity", "body", "warnings"} : n[f] = q[f]
        /\ n.warnings = q.warnings /\ n.state = st /\ n.capacity = c /\ n.body = y
    BY <1>2, <1>3 DEF IsRequest, Fields
  <2>2. Answered(n, r)
    BY <1>2, <2>1, AnsweredStays
  <2> QED
    BY <2>1, <2>2 DEF BodyAt
<1>4. CASE k < Awaited(c)
  <2>1. q.state = "Body"
    BY <1>2, <1>4 DEF Reached
  <2>2. n = ParseBody(q, x)
    BY <1>1, <2>1 DEF ParseChar
  <2>3. PICK y : y = IF Len(b) < c THEN Append(b, x) ELSE b
    OBVIOUS
  <2>4. n = [q EXCEPT !.body = y, !.state = IF Len(y) = c THEN "Done" ELSE "Body"]
    BY <1>1, <1>2, <2>1, <2>2, <2>3 DEF ParseBody
  <2>5. y = SubSeq(s, 1, Least(k + 1, c)) /\ (Len(y) = c <=> ~(k + 1 < Awaited(c)))
    <3>1. CASE c = 0
      <4>1. k = 0 /\ Least(k, c) = 0 /\ Least(k + 1, c) = 0 /\ ~(k + 1 < Awaited(c))
        BY <1>4, <3>1 DEF Awaited, Least
      <4>2. SubSeq(s, 1, 0) = <<>> /\ Len(<<>>) = 0
        BY SubSeqEmpty
      <4> QED
        BY <1>1, <2>3, <3>1, <4>1, <4>2
    <3>2. CASE c # 0
      <4>1. k < c /\ Least(k, c) = k /\ Least(k + 1, c) = k + 1 /\ Awaited(c) = c
        BY <1>4, <3>2 DEF Awaited, Least
      <4>2. Len(b) = k /\ Append(b, x) = SubSeq(s, 1, k + 1)
        BY <1>1, <4>1, Prefix
      <4>3. PICK j \in Nat : j = k + 1 /\ j <= Len(s)
        OBVIOUS
      <4>4. Len(SubSeq(s, 1, j)) = j
        BY <4>3, Prefix
      <4> QED
        BY <2>3, <4>1, <4>2, <4>3, <4>4
    <3> QED
      BY <3>1, <3>2
  <2>6. n = [q EXCEPT !.body = y, !.state = Reached(k + 1, c)]
    BY <2>4, <2>5 DEF Reached
  <2>7. BodyAt(n, r, Reached(k + 1, c), c, y)
    BY <1>3, <2>6
  <2> QED
    BY <2>5, <2>7 DEF BodySoFar
<1>5. CASE ~(k < Awaited(c))
  <2>1. q.state = "Done" /\ Reached(k + 1, c) = "Done" /\ Least(k, c) = c /\ Least(k + 1, c) = c
    BY <1>2, <1>5 DEF Reached, Awaited, Least
  <2>2. n = IF c = 0 THEN q ELSE [q EXCEPT !.warnings = @ \cup {"bodyTruncated"}]
    BY <1>1, <1>2, <2>1 DEF ParseChar, ParseDone
  <2>3. /\ IsRequest(n) /\ \A f \in Fields \ {"state", "capacity", "body", "warnings"} : n[f] = q[f]
        /\ q.warnings \subseteq n.warnings /\ n.warnings \subseteq q.warnings \cup {"bodyTruncated"}
        /\ n.state = "Done" /\ n.capacity = c /\ n.body = b
    BY <1>1, <1>2, <2>1, <2>2 DEF IsRequest, Fields
  <2>4. Answered(n, r)
    BY <1>2, <2>3, AnsweredStays
  <2> QED
    BY <1>1, <2>1, <2>3, <2>4 DEF BodySoFar, BodyAt
<1> QED
  BY <1>4, <1>5

\* The body of a request with a Content-Length.
LEMMA BodyRead ==
  ASSUME NEW r, NEW s \in Seq(Chars), NEW c \in Nat, NEW q, BodyAt(q, r, "Body", c, <<>>),
         NEW k \in Nat, k <= Len(s)
  PROVE  BodySoFar(ParsedOf(q, s)[k], r, c, s, k)
<1>1. PICK m \in Nat : m = Len(s)
  OBVIOUS
<1>2. PICK f : f = ParsedOf(q, s) /\ f[0] = q /\ Steps(f, s, m)
  BY <1>1, ParsedSteps
<1> DEFINE S == {j \in Nat : j <= m => BodySoFar(f[j], r, c, s, j)}
<1>3. 0 \in S
  <2>1. Reached(0, c) = "Body" /\ Least(0, c) = 0
    BY DEF Reached, Awaited, Least
  <2>2. SubSeq(s, 1, 0) = <<>>
    BY SubSeqEmpty
  <2> QED
    BY <1>2, <2>1, <2>2 DEF BodySoFar
<1>4. ASSUME NEW j \in Nat, j \in S PROVE j + 1 \in S
  <2>1. SUFFICES ASSUME j + 1 <= m PROVE BodySoFar(f[j + 1], r, c, s, j + 1)
    OBVIOUS
  <2>2. PICK a, n : a = f[j] /\ n = f[j + 1]
    OBVIOUS
  <2>3. BodySoFar(a, r, c, s, j) /\ j < Len(s)
    BY <1>1, <1>4, <2>1, <2>2
  <2>4. n = ParseChar(a, s[j + 1])
    <3>1. j \in 0 .. m - 1
      BY <2>1
    <3> QED
      BY <1>2, <2>2, <3>1 DEF Steps
  <2> QED
    BY <2>2, <2>3, <2>4, BodyStep
<1>5. k \in S
  <2> HIDE DEF S
  <2> QED
    BY <1>3, <1>4, SetInduction
<1> QED
  BY <1>1, <1>2, <1>5

\* A request without one is done, whatever follows.
LEMMA NoBodyRead ==
  ASSUME NEW r, NEW s \in Seq(Chars), NEW q, BodyAt(q, r, "Done", 0, <<>>),
         NEW k \in Nat, k <= Len(s)
  PROVE  ParsedOf(q, s)[k] = q
<1>1. PICK m \in Nat : m = Len(s)
  OBVIOUS
<1>2. PICK f : f = ParsedOf(q, s) /\ f[0] = q /\ Steps(f, s, m)
  BY <1>1, ParsedSteps
<1> DEFINE S == {j \in Nat : j <= m => f[j] = q}
<1>3. 0 \in S
  BY <1>2
<1>4. ASSUME NEW j \in Nat, j \in S PROVE j + 1 \in S
  <2>1. SUFFICES ASSUME j + 1 <= m PROVE f[j + 1] = q
    OBVIOUS
  <2>2. f[j] = q /\ j \in 0 .. m - 1
    BY <1>4, <2>1
  <2>3. f[j + 1] = ParseChar(q, s[j + 1])
    BY <1>2, <2>2 DEF Steps
  <2>4. q.state = "Done" /\ q.capacity = 0
    BY DEF BodyAt
  <2> QED
    BY <2>3, <2>4 DEF ParseChar, ParseDone
<1>5. k \in S
  <2> HIDE DEF S
  <2> QED
    BY <1>3, <1>4, SetInduction
<1> QED
  BY <1>1, <1>2, <1>5

---------------------------------------------------------------------------
(* A request is complete once, and from then on.                           *)

\* The states of the parser, and that it stays in them, whatever it reads.
States == {"Method", "Path", "Version", "HeaderName", "HeaderValue", "CR", "CRLF", "CRLFCR",
           "EatHeaders", "Body", "Done"}

IsParsed(q) == IsRequest(q) /\ q.state \in States

\* A character of a header.
LEMMA StoredParsed ==
  ASSUME NEW q, IsParsed(q), NEW field, NEW c
  PROVE  IsParsed(Stored(q, field, c))
<1>1. PICK a : a = [q EXCEPT !.string = q.header[field]]
  OBVIOUS
<1>2. IsParsed(a)
  BY <1>1 DEF IsParsed, IsRequest, Fields
<1>3. PICK b : b = IF a.string.at = None THEN poolStringStartNewString(a) ELSE a
  OBVIOUS
<1>4. IsParsed(b)
  <2>1. IsParsed(poolStringStartNewString(a))
    BY <1>2 DEF poolStringStartNewString, IsParsed, IsRequest, Fields
  <2> QED
    BY <1>2, <1>3, <2>1
<1>5. PICK d : d = poolStringAppendChar(b, c)
  OBVIOUS
<1>6. IsParsed(d)
  BY <1>4, <1>5 DEF poolStringAppendChar, IsParsed, IsRequest, Fields
<1>7. Stored(q, field, c) = [d EXCEPT !.header[field] = d.string]
  BY <1>1, <1>3, <1>5 DEF Stored
<1> QED
  BY <1>6, <1>7 DEF IsParsed, IsRequest, Fields

LEMMA SpaceParsed ==
  ASSUME NEW q, IsParsed(q)
  PROVE  IsParsed(stateHeaderNameIfSpaceLeft(q))
BY DEF stateHeaderNameIfSpaceLeft, IsParsed, IsRequest, Fields, States

LEMMA NameParsed ==
  ASSUME NEW q, IsParsed(q), NEW c
  PROVE  IsParsed(ParseHeaderName(q, c))
<1>1. IsParsed([q EXCEPT !.state = "HeaderValue"]) /\ IsParsed([q EXCEPT !.state = "CR"])
  BY DEF IsParsed, IsRequest, Fields, States
<1> QED
  BY <1>1, StoredParsed DEF ParseHeaderName

LEMMA KeptParsed ==
  ASSUME NEW q, IsParsed(q), NEW field \in LineFields, NEW max, NEW w, NEW c
  PROVE  IsParsed(Kept(q, field, max, w, c))
<1>1. field \in Fields /\ field # "state"
  BY DEF LineFields, Fields
<1>2. IsParsed([q EXCEPT ![field] = Append(@, c)])
  <2>1. PICK x : x = Append(q[field], c)
    OBVIOUS
  <2>2. PICK n : n = [q EXCEPT ![field] = x]
    OBVIOUS
  <2>3. IsRequest(n)
    BY <2>2 DEF IsParsed, IsRequest
  <2>4. n.state = q.state
    BY <1>1, <2>2 DEF IsParsed, IsRequest, Fields
  <2>5. n = [q EXCEPT ![field] = Append(@, c)]
    BY <2>1, <2>2
  <2> QED
    BY <2>3, <2>4, <2>5 DEF IsParsed
<1>3. IsParsed([q EXCEPT !.warnings = @ \cup {w}])
  BY DEF IsParsed, IsRequest, Fields
<1> QED
  BY <1>2, <1>3 DEF Kept

\* Any character.
LEMMA CharParsed ==
  ASSUME NEW q, IsParsed(q), NEW c
  PROVE  IsParsed(ParseChar(q, c)) /\ (q.state = "Done" => ParseChar(q, c).state = "Done")
<1>1. "method" \in LineFields /\ "path" \in LineFields /\ "version" \in LineFields
  BY DEF LineFields
<1>2. IsParsed(ParseMethod(q, c))
  <2>1. IsParsed([q EXCEPT !.state = "Path"])
    BY DEF IsParsed, IsRequest, Fields, States
  <2> QED
    BY <1>1, <2>1, KeptParsed DEF ParseMethod
<1>3. IsParsed(ParsePath(q, c))
  <2>1. IsParsed([q EXCEPT !.state = "Version", !.pathDecoded = URLDecode(q.path)])
    BY DEF IsParsed, IsRequest, Fields, States
  <2> QED
    BY <1>1, <2>1, KeptParsed DEF ParsePath
<1>4. IsParsed(ParseVersion(q, c))
  <2>1. IsParsed([q EXCEPT !.state = "CR"])
    BY DEF IsParsed, IsRequest, Fields, States
  <2> QED
    BY <1>1, <2>1, KeptParsed DEF ParseVersion
<1>5. IsParsed(ParseHeaderValue(q, c))
  <2>1. PICK hs, h : hs = (IF FilledOut(q) THEN Append(q.headers, q.header) ELSE q.headers)
                     /\ h = IF FilledOut(q) THEN NoHeader ELSE q.header
    OBVIOUS
  <2>2. IsParsed([q EXCEPT !.state = "CR", !.headers = hs, !.header = h])
    BY DEF IsParsed, IsRequest, Fields, States
  <2>3. [q EXCEPT !.state = "CR", !.headers = hs, !.header = h]
        = [q EXCEPT !.state = "CR", !.headers = IF FilledOut(q) THEN Append(@, q.header) ELSE @,
                    !.header = IF FilledOut(q) THEN NoHeader ELSE @]
    BY <2>1 DEF IsParsed, IsRequest, Fields
  <2> QED
    BY <2>2, <2>3, StoredParsed DEF ParseHeaderValue
<1>6. IsParsed(ParseCR(q, c))
  <2>1. IsParsed([q EXCEPT !.state = "CRLF"])
    BY DEF IsParsed, IsRequest, Fields, States
  <2> QED
    BY <2>1, SpaceParsed DEF ParseCR
<1>7. IsParsed(ParseCRLF(q, c))
  <2>1. IsParsed([q EXCEPT !.state = "CRLFCR"])
    BY DEF IsParsed, IsRequest, Fields, States
  <2>2. PICK n : n = stateHeaderNameIfSpaceLeft(q) /\ IsParsed(n)
    BY SpaceParsed
  <2>3. IsParsed(ParseHeaderName(n, c))
    BY <2>2, NameParsed
  <2> QED
    BY <2>1, <2>2, <2>3 DEF ParseCRLF
<1>8. IsParsed(ParseCRLFCR(q, c))
  <2>1. IsParsed([q EXCEPT !.state = "Done"])
    BY DEF IsParsed, IsRequest, Fields, States
  <2>2. ASSUME NEW x PROVE IsParsed([q EXCEPT !.state = "Body", !.capacity = x])
    BY DEF IsParsed, IsRequest, Fields, States
  <2> QED
    BY <2>1, <2>2, SpaceParsed DEF ParseCRLFCR
<1>9. IsParsed(ParseEatHeaders(q, c))
  BY DEF ParseEatHeaders, IsParsed, IsRequest, Fields, States
<1>10. IsParsed(ParseBody(q, c))
  <2>1. PICK y : y = IF Len(q.body) < q.capacity THEN Append(q.body, c) ELSE q.body
    OBVIOUS
  <2>2. ParseBody(q, c) = [q EXCEPT !.body = y, !.state = IF Len(y) = q.capacity THEN "Done" ELSE @]
    BY <2>1 DEF ParseBody
  <2>3. PICK st : st = (IF Len(y) = q.capacity THEN "Done" ELSE q.state) /\ st \in States
    BY DEF IsParsed, States
  <2>4. ParseBody(q, c) = [q EXCEPT !.body = y, !.state = st]
    BY <2>2, <2>3 DEF IsParsed, IsRequest, Fields
  <2> QED
    BY <2>3, <2>4 DEF IsParsed, IsRequest, Fields
<1>11. IsParsed(ParseDone(q, c)) /\ ParseDone(q, c).state = q.state
  BY DEF ParseDone, IsParsed, IsRequest, Fields
<1>12. q.state \in States
  BY DEF IsParsed
<1>13. q.state = "Done" => ParseChar(q, c) = ParseDone(q, c)
  BY DEF ParseChar
<1>14. IsParsed(ParseChar(q, c))
  <2>1. CASE q.state = "Method"
    <3>1. ParseChar(q, c) = ParseMethod(q, c)
      BY <2>1 DEF ParseChar
    <3> QED
      BY <1>2, <3>1
  <2>2. CASE q.state = "Path"
    <3>1. ParseChar(q, c) = ParsePath(q, c)
      BY <2>2 DEF ParseChar
    <3> QED
      BY <1>3, <3>1
  <2>3. CASE q.state = "Version"
    <3>1. ParseChar(q, c) = ParseVersion(q, c)
      BY <2>3 DEF ParseChar
    <3> QED
      BY <1>4, <3>1
  <2>4. CASE q.state = "HeaderName"
    <3>1. ParseChar(q, c) = ParseHeaderName(q, c)
      BY <2>4 DEF ParseChar
    <3> QED
      BY NameParsed, <3>1
  <2>5. CASE q.state = "HeaderValue"
    <3>1. ParseChar(q, c) = ParseHeaderValue(q, c)
      BY <2>5 DEF ParseChar
    <3> QED
      BY <1>5, <3>1
  <2>6. CASE q.state = "CR"
    <3>1. ParseChar(q, c) = ParseCR(q, c)
      BY <2>6 DEF ParseChar
    <3> QED
      BY <1>6, <3>1
  <2>7. CASE q.state = "CRLF"
    <3>1. ParseChar(q, c) = ParseCRLF(q, c)
      BY <2>7 DEF ParseChar
    <3> QED
      BY <1>7, <3>1
  <2>8. CASE q.state = "CRLFCR"
    <3>1. ParseChar(q, c) = ParseCRLFCR(q, c)
      BY <2>8 DEF ParseChar
    <3> QED
      BY <1>8, <3>1
  <2>9. CASE q.state = "EatHeaders"
    <3>1. ParseChar(q, c) = ParseEatHeaders(q, c)
      BY <2>9 DEF ParseChar
    <3> QED
      BY <1>9, <3>1
  <2>10. CASE q.state = "Body"
    <3>1. ParseChar(q, c) = ParseBody(q, c)
      BY <2>10 DEF ParseChar
    <3> QED
      BY <1>10, <3>1
  <2>11. CASE q.state = "Done"
    <3>1. ParseChar(q, c) = ParseDone(q, c)
      BY <2>11 DEF ParseChar
    <3> QED
      BY <1>11, <3>1
  <2> QED
    BY <1>12, <2>1, <2>2, <2>3, <2>4, <2>5, <2>6, <2>7, <2>8, <2>9, <2>10, <2>11 DEF States
<1> QED
  BY <1>11, <1>13, <1>14

\* Once the request is complete it remains so.
LEMMA DoneStays ==
  ASSUME NEW f, NEW s, NEW m \in Nat, IsParsed(f[0]), Steps(f, s, m),
         NEW j \in Nat, j <= m, NEW i \in 0 .. j, f[i].state = "Done"
  PROVE  f[j].state = "Done"
<1> DEFINE S == {k \in Nat : k <= m => /\ IsParsed(f[k])
                                       /\ i <= k => f[k].state = "Done"}
<1>1. 0 \in S
  <2>1. i <= 0 => i = 0
    OBVIOUS
  <2> QED
    BY <2>1
<1>2. ASSUME NEW k \in Nat, k \in S PROVE k + 1 \in S
  <2>1. SUFFICES ASSUME k + 1 <= m
                 PROVE  IsParsed(f[k + 1]) /\ (i <= k + 1 => f[k + 1].state = "Done")
    OBVIOUS
  <2>2. IsParsed(f[k]) /\ (i <= k => f[k].state = "Done") /\ k \in 0 .. m - 1
    BY <1>2, <2>1
  <2>3. PICK a, b : a = f[k] /\ b = f[k + 1]
    OBVIOUS
  <2>4. b = ParseChar(a, s[k + 1])
    BY <2>2, <2>3 DEF Steps
  <2>5. IsParsed(b) /\ (a.state = "Done" => b.state = "Done")
    BY <2>2, <2>3, <2>4, CharParsed
  <2>6. i <= k + 1 => i <= k \/ i = k + 1
    OBVIOUS
  <2> QED
    BY <2>2, <2>3, <2>5, <2>6
<1>3. j \in S
  <2> HIDE DEF S
  <2> QED
    BY <1>1, <1>2, SetInduction
<1> QED
  BY <1>3

LEMMA NothingParsed == IsParsed(NoRequest)
BY DEF IsParsed, IsRequest, NoRequest, Fields, States

---------------------------------------------------------------------------
(* A whole request.                                                        *)

\* The greatest of two numbers.
Both(a, b) == {a} \cup {b}

LEMMA GreatestOf ==
  ASSUME NEW a \in Nat, NEW b \in Nat
  PROVE  Max(Both(a, b)) = IF a < b THEN b ELSE a
<1>6. PICK T : T = Both(a, b)
  OBVIOUS
<1>1. T = Both(a, b) /\ a \in T /\ b \in T /\ \A y \in T : y = a \/ y = b
  BY <1>6 DEF Both
<1>2. PICK z : z = (IF a < b THEN b ELSE a) /\ z \in T /\ \A y \in T : z >= y
  BY <1>1
<1>3. PICK y : y = Max(T) /\ y \in T /\ \A x \in T : y >= x
  BY <1>2 DEF Max
<1>4. y >= z /\ z >= y /\ y \in Nat /\ z \in Nat
  BY <1>1, <1>2, <1>3
<1>5. y = z
  BY <1>4
<1> QED
  BY <1>1, <1>2, <1>3, <1>5

\* Where the head of a request ends, what is read before it and there, and that
\* the body is read from there on.
HeadIn(r, f, h, g) ==
  /\ h = Len(HeadOf(r)) /\ \A k \in 0 .. h - 1 : f[k].state # "Done"
  /\ \A k \in 0 .. Len(r.body) : f[h + k] = g[k]
  /\ Len(Wire(r)) = h + Len(r.body)

\* The head of a request from its first character: not before its last is the request
\* done.
LEMMA HeadRun ==
  ASSUME RequestAssumption, NEW r \in Requests, WellFormed(r)
  PROVE  \E h \in Nat : \E n, g :
           /\ HeadIn(r, ParsedOf(NoRequest, Wire(r)), h, g) /\ g = ParsedOf(n, r.body)
           /\ \/ BodyLengths(r) = {} /\ BodyAt(n, r, "Done", 0, <<>>)
              \/ \E c \in Nat : BodyLengths(r) = {c} /\ BodyAt(n, r, "Body", c, <<>>)
<1>1. PICK s \in Seq(Chars), m \in Nat :
        /\ HeadOf(r) = Joins(s, Two(CR, LF)) /\ HeadOf(r) \in Seq(Chars)
        /\ HeadRead(requestParse(NoRequest, s), r, m, "CRLF")
  BY HeadParts
<1>2. PICK a \in Nat : a = Len(s)
  OBVIOUS
<1>3. PICK e : e = HeadOf(r) /\ e \in Seq(Chars) /\ e = Joins(s, Two(CR, LF))
  BY <1>1
<1>4. PICK t \in Seq(Chars) : t = Two(CR, LF) /\ t = <<CR, LF>> /\ Len(t) = 2 /\ t[1] = CR /\ t[2] = LF
  <2>1. <<CR, LF>> \in Seq(Nat)
    BY DEF CR, LF
  <2> QED
    BY <2>1 DEF Two, Chars
<1>5. Len(e) = a + 2 /\ e[a + 1] = CR /\ e[a + 2] = LF
  <2>1. e = s \o t
    BY <1>3, <1>4 DEF Joins
  <2>2. 1 \in 1 .. Len(t) /\ 2 \in 1 .. Len(t)
    BY <1>4
  <2>3. Len(s \o t) = Len(s) + Len(t) /\ \A k \in 1 .. Len(t) : (s \o t)[Len(s) + k] = t[k]
    BY Joined
  <2> QED
    BY <1>2, <1>4, <2>1, <2>2, <2>3
<1>6. PICK b \in Seq(Chars), l \in Nat : b = r.body /\ l = Len(b)
  BY DEF RequestAssumption, Chars
<1>7. PICK h \in Nat : h = a + 2 /\ h = Len(e)
  BY <1>5
<1>8. PICK w : w = Wire(r) /\ w = e \o b /\ Len(w) = h + l
  <2>1. Wire(r) = e \o b
    BY <1>3, <1>6 DEF Wire
  <2>2. Len(e \o b) = Len(e) + Len(b)
    BY <1>3, <1>6, Joined
  <2> QED
    BY <1>6, <1>7, <2>1, <2>2
<1>9. PICK q : q = requestParse(NoRequest, s)
  OBVIOUS
<1>10. PICK i, n : i = ParseChar(q, CR) /\ n = ParseChar(i, LF)
  OBVIOUS
<1>11. /\ i.state = "CRLFCR"
       /\ \/ BodyLengths(r) = {} /\ BodyAt(n, r, "Done", 0, <<>>)
          \/ \E c \in Nat : BodyLengths(r) = {c} /\ BodyAt(n, r, "Body", c, <<>>)
  BY <1>1, <1>9, <1>10, HeadEnds
<1>12. PICK f, fe, fs : f = ParsedOf(NoRequest, w) /\ fe = ParsedOf(NoRequest, e) /\ fs = ParsedOf(NoRequest, s)
  OBVIOUS
<1>13. fe[a] = q
  <2>1. Agree(fe, fs, a)
    <3>1. Agree(ParsedOf(NoRequest, s \o t), ParsedOf(NoRequest, s), Len(s))
      BY ParsedBoth
    <3> QED
      BY <1>2, <1>3, <1>4, <1>12, <3>1 DEF Joins
  <2>2. q = fs[a]
    BY <1>2, <1>9, <1>12, ParsedSteps DEF Place
  <2> QED
    BY <2>1, <2>2 DEF Agree
<1>14. fe[0] = NoRequest /\ Steps(fe, e, h) /\ requestParse(NoRequest, e) = fe[h]
  BY <1>3, <1>7, <1>12, ParsedSteps DEF Place
<1>15. fe[a + 1] = i /\ fe[h] = n
  <2>1. a \in 0 .. h - 1 /\ a + 1 \in 0 .. h - 1 /\ (a + 1) + 1 = a + 2
    BY <1>7
  <2>2. fe[a + 1] = ParseChar(fe[a], e[a + 1])
    BY <1>14, <2>1 DEF Steps
  <2>3. fe[a + 2] = ParseChar(fe[a + 1], e[a + 2])
    BY <1>14, <2>1 DEF Steps
  <2> QED
    BY <1>5, <1>7, <1>10, <1>13, <2>2, <2>3
<1>16. Agree(f, fe, h) /\ Agree(After(f, h, l), ParsedOf(n, b), l)
  <2>1. /\ Agree(ParsedOf(NoRequest, e \o b), ParsedOf(NoRequest, e), Len(e))
        /\ Agree(After(ParsedOf(NoRequest, e \o b), Len(e), Len(b)), ParsedOf(requestParse(NoRequest, e), b), Len(b))
    BY <1>3, ParsedBoth
  <2> QED
    BY <1>6, <1>7, <1>8, <1>12, <1>14, <1>15, <2>1
<1>17. \A k \in 0 .. h - 1 : f[k].state # "Done"
  <2>1. SUFFICES ASSUME NEW k \in 0 .. h - 1, f[k].state = "Done" PROVE FALSE
    OBVIOUS
  <2>2. PICK j \in Nat : j = a + 1 /\ j <= h /\ k \in 0 .. j
    BY <1>7
  <2>3. fe[k].state = "Done"
    <3>1. k \in 0 .. h
      OBVIOUS
    <3> QED
      BY <1>16, <2>1, <3>1 DEF Agree
  <2>4. IsParsed(fe[0])
    BY <1>14, NothingParsed
  <2>5. fe[j].state = "Done"
    BY <1>14, <2>2, <2>3, <2>4, DoneStays
  <2> QED
    BY <1>11, <1>15, <2>2, <2>5
<1>18. PICK g : g = ParsedOf(n, b)
  OBVIOUS
<1>19. ASSUME NEW k \in 0 .. l PROVE f[h + k] = g[k]
  BY <1>16, <1>18 DEF Agree, After
<1>20. HeadIn(r, f, h, g)
  BY <1>3, <1>6, <1>7, <1>8, <1>17, <1>19 DEF HeadIn
<1> QED
  BY <1>6, <1>8, <1>11, <1>12, <1>18, <1>20

\* RequestExact, for a request and what the parser has after k characters of it.
ExactAt(r, q, k) ==
  LET awaits == Len(HeadOf(r)) + (IF BodyLengths(r) = {} THEN 0
                                  ELSE Max(BodyLengths(r) \cup {1}))
      path == FlattenSeq(r.path)
  IN  /\ q.state = "Done" <=> k >= awaits
      /\ q.state = "Done" =>
           /\ q.method = Shorter(r.method, MethodMax)
           /\ q.path = Shorter(path, PathMax)
           /\ q.pathDecoded = DecodedPath(r)
           /\ q.version = Shorter(r.version, VersionMax)
           /\ [j \in DOMAIN q.headers |->
                 [name |-> CString(q.pool, q.headers[j].name.at),
                  value |-> CString(q.pool, q.headers[j].value.at)]]
              = KeptHeaders(r)
           /\ q.body = Shorter(r.body, Max(BodyLengths(r) \cup {0}))
           /\ "pathTruncated" \in q.warnings <=> Len(path) > PathMax
           /\ KeptHeaders(r) # r.headers =>
                q.warnings \cap {"tooManyHeaders", "headersStringPoolExhausted"} # {}

\* Whether a request is exact, from whether it is done.
LEMMA AnsweredExact ==
  ASSUME NEW r, NEW q, NEW k, Answered(q, r), NEW awaits, NEW body,
         awaits = Len(HeadOf(r)) + (IF BodyLengths(r) = {} THEN 0 ELSE Max(BodyLengths(r) \cup {1})),
         body = Shorter(r.body, Max(BodyLengths(r) \cup {0})),
         q.state = "Done" <=> k >= awaits, q.state = "Done" => q.body = body
  PROVE  ExactAt(r, q, k)
BY DEF ExactAt, Answered, LineHeld, ReadBack, HeaderWarnings

\* After each character of a request the parser has what it should.
LEMMA EachExact ==
  ASSUME RequestAssumption, NEW r \in Requests, WellFormed(r), NEW k \in Nat, k <= Len(Wire(r))
  PROVE  ExactAt(r, ParsedOf(NoRequest, Wire(r))[k], k)
<1>1. PICK f : f = ParsedOf(NoRequest, Wire(r))
  OBVIOUS
<1>12. PICK h \in Nat : \E n, g :
        /\ HeadIn(r, f, h, g) /\ g = ParsedOf(n, r.body)
        /\ \/ BodyLengths(r) = {} /\ BodyAt(n, r, "Done", 0, <<>>)
           \/ \E c \in Nat : BodyLengths(r) = {c} /\ BodyAt(n, r, "Body", c, <<>>)
  BY <1>1, HeadRun
<1>2. PICK n, g :
        /\ HeadIn(r, f, h, g) /\ g = ParsedOf(n, r.body)
        /\ \/ BodyLengths(r) = {} /\ BodyAt(n, r, "Done", 0, <<>>)
           \/ \E c \in Nat : BodyLengths(r) = {c} /\ BodyAt(n, r, "Body", c, <<>>)
  BY <1>12
<1>3. PICK b \in Seq(Chars), l \in Nat : b = r.body /\ l = Len(b)
  BY DEF RequestAssumption, Chars
<1>4. PICK awaits : awaits = Len(HeadOf(r)) + (IF BodyLengths(r) = {} THEN 0 ELSE Max(BodyLengths(r) \cup {1}))
  OBVIOUS
<1>5. PICK body : body = Shorter(r.body, Max(BodyLengths(r) \cup {0}))
  OBVIOUS
<1>6. h = Len(HeadOf(r)) /\ k <= h + l
  BY <1>2, <1>3 DEF HeadIn
<1>7. \/ BodyLengths(r) = {} /\ awaits = h /\ body = <<>>
      \/ \E c \in Nat : BodyLengths(r) = {c} /\ awaits = h + Awaited(c) /\ body = SubSeq(b, 1, Least(l, c))
  <2>1. CASE BodyLengths(r) = {}
    <3>1. awaits = h
      BY <1>4, <1>6, <2>1
    <3>2. Max(BodyLengths(r) \cup {0}) = 0
      <4>1. BodyLengths(r) \cup {0} = Both(0, 0)
        BY <2>1 DEF Both
      <4>2. PICK z \in Nat : z = 0
        OBVIOUS
      <4>3. Max(Both(z, z)) = z
        BY GreatestOf
      <4> QED
        BY <4>1, <4>2, <4>3
    <3>3. body = SubSeq(b, 1, 0)
      BY <1>3, <1>5, <3>2 DEF Shorter
    <3> QED
      BY <2>1, <3>1, <3>3, SubSeqEmpty
  <2>2. ASSUME NEW c \in Nat, BodyLengths(r) = {c}
        PROVE  awaits = h + Awaited(c) /\ body = SubSeq(b, 1, Least(l, c))
    <3>7. PICK z \in Nat, u \in Nat : z = 0 /\ u = 1
      OBVIOUS
    <3>1. Max(Both(c, u)) = IF c < u THEN u ELSE c
      BY GreatestOf
    <3>2. Max(Both(c, z)) = IF c < z THEN z ELSE c
      BY GreatestOf
    <3>3. Max({c} \cup {1}) = Awaited(c) /\ Max({c} \cup {0}) = c
      <4>1. Both(c, u) = {c} \cup {1} /\ Both(c, z) = {c} \cup {0}
        BY <3>7 DEF Both
      <4>2. (IF c < u THEN u ELSE c) = Awaited(c) /\ (IF c < z THEN z ELSE c) = c
        BY <3>7 DEF Awaited
      <4> QED
        BY <3>1, <3>2, <4>1, <4>2
    <3>4. BodyLengths(r) # {}
      BY <2>2
    <3>5. awaits = h + Max({c} \cup {1})
      BY <1>4, <1>6, <2>2, <3>4
    <3>6. body = Shorter(b, c)
      BY <1>3, <1>5, <2>2, <3>3
    <3> QED
      BY <1>3, <3>3, <3>5, <3>6 DEF Shorter, Least
  <2> QED
    BY <1>2, <2>1, <2>2
<1>8. awaits \in Nat /\ awaits >= h
  BY <1>7 DEF Awaited
<1>9. PICK q : q = f[k]
  OBVIOUS
<1>10. CASE k < h
  <2>1. q.state # "Done"
    BY <1>2, <1>9, <1>10 DEF HeadIn
  <2>2. ~(k >= awaits)
    BY <1>8, <1>10
  <2> QED
    BY <1>1, <1>4, <1>9, <2>1, <2>2 DEF ExactAt
<1>11. CASE ~(k < h)
  <2>1. PICK j \in Nat : k = h + j /\ j <= l
    <3>1. k - h \in Nat /\ k = h + (k - h) /\ k - h <= l
      BY <1>6, <1>11
    <3> QED
      BY <3>1
  <2>2. q = g[j]
    <3>1. j \in 0 .. Len(r.body)
      BY <1>3, <2>1
    <3> QED
      BY <1>2, <1>9, <2>1, <3>1 DEF HeadIn
  <2>3. CASE BodyLengths(r) = {} /\ BodyAt(n, r, "Done", 0, <<>>)
    <3>1. q = n
      BY <1>2, <1>3, <2>1, <2>2, <2>3, NoBodyRead
    <3>2. Answered(q, r) /\ q.state = "Done" /\ q.body = <<>>
      BY <2>3, <3>1 DEF BodyAt
    <3>3. awaits = h /\ body = <<>> /\ k >= awaits
      BY <1>7, <2>1, <2>3
    <3>4. ExactAt(r, q, k)
      BY <1>4, <1>5, <3>2, <3>3, AnsweredExact
    <3> QED
      BY <1>1, <1>9, <3>4
  <2>4. ASSUME NEW c \in Nat, BodyLengths(r) = {c}, BodyAt(n, r, "Body", c, <<>>)
        PROVE  ExactAt(r, ParsedOf(NoRequest, Wire(r))[k], k)
    <3>1. BodySoFar(q, r, c, b, j)
      BY <1>2, <1>3, <2>1, <2>2, <2>4, BodyRead
    <3>2. Answered(q, r) /\ q.state = Reached(j, c) /\ q.body = SubSeq(b, 1, Least(j, c))
      BY <3>1 DEF BodySoFar, BodyAt
    <3>3. awaits = h + Awaited(c) /\ body = SubSeq(b, 1, Least(l, c))
      BY <1>7, <2>4
    <3>4. q.state = "Done" <=> ~(j < Awaited(c))
      BY <3>2 DEF Reached
    <3>5. q.state = "Done" <=> k >= awaits
      BY <2>1, <3>3, <3>4 DEF Awaited
    <3>6. ASSUME ~(j < Awaited(c)) PROVE Least(j, c) = Least(l, c)
      BY <2>1, <3>6 DEF Awaited, Least
    <3>7. q.state = "Done" => q.body = body
      BY <3>2, <3>3, <3>4, <3>6
    <3>8. ExactAt(r, q, k)
      BY <1>4, <1>5, <3>2, <3>5, <3>7, AnsweredExact
    <3> QED
      BY <1>1, <1>9, <3>8
  <2> QED
    BY <1>2, <2>3, <2>4
<1> QED
  BY <1>10, <1>11

---------------------------------------------------------------------------
(* The handler thread.                                                     *)

LEMMA LeastOf ==
  ASSUME NEW a \in Nat, NEW b \in Nat
  PROVE  Min({a, b}) \in Nat /\ Min({a, b}) <= a
<1>1. PICK z : z = (IF a < b THEN a ELSE b) /\ z \in {a, b} /\ \A y \in {a, b} : z <= y
  OBVIOUS
<1>2. PICK y : y = Min({a, b}) /\ y \in {a, b} /\ \A x \in {a, b} : y <= x
  BY <1>1 DEF Min
<1> QED
  BY <1>2

\* What a client sends is of characters.
LEMMA WireIs ==
  ASSUME RequestAssumption, NEW r \in Requests, WellFormed(r)
  PROVE  Wire(r) \in Seq(Chars)
<1>1. HeadOf(r) \in Seq(Chars)
  BY HeadParts
<1>2. r.body \in Seq(Chars)
  BY DEF RequestAssumption, Chars
<1>3. PICK e, b : e = HeadOf(r) /\ b = r.body /\ e \in Seq(Chars) /\ b \in Seq(Chars)
  BY <1>1, <1>2
<1>4. e \o b \in Seq(Chars)
  BY <1>3, Joined
<1> QED
  BY <1>3, <1>4 DEF Wire

\* What is left of a sequence after some of it.
Remains(w, n) == SubSeq(w, n + 1, Len(w))

\* Character by character.
LEMMA RemainsIs ==
  ASSUME NEW w \in Seq(Chars), NEW n \in Nat, n <= Len(w)
  PROVE  /\ Remains(w, n) \in Seq(Chars) /\ Len(Remains(w, n)) = Len(w) - n
         /\ \A i \in 1 .. Len(w) - n : Remains(w, n)[i] = w[n + i]
<1>1. PICK l \in Nat : l = Len(w) /\ n <= l
  OBVIOUS
<1>2. PICK u : u = SubSeq(w, n + 1, l)
  OBVIOUS
<1>3. u \in Seq(Chars) /\ Len(u) = l - n
  BY <1>1, <1>2
<1>4. ASSUME NEW i \in 1 .. l - n PROVE u[i] = w[n + i]
  <2>1. (n + 1) + i - 1 = n + i /\ i \in 1 .. (l - (n + 1)) + 1
    BY <1>1
  <2> QED
    BY <1>1, <1>2, <2>1
<1> QED
  BY <1>1, <1>2, <1>3, <1>4 DEF Remains

Taken(u, d) == SubSeq(u, 1, d)

\* A fragment: the parser goes on where it is, and the rest is left.
LEMMA FragmentRead ==
  ASSUME NEW w \in Seq(Chars), NEW n \in Nat, n <= Len(w), NEW d \in Nat, d <= Len(Remains(w, n))
  PROVE  \E m \in Nat :
           /\ m <= Len(w) /\ Remains(Remains(w, n), d) = Remains(w, m)
           /\ requestParse(Place(ParsedOf(NoRequest, w), n), Taken(Remains(w, n), d))
              = Place(ParsedOf(NoRequest, w), m)
<1> DEFINE u == Remains(w, n)
           t == Taken(u, d)
<1>1. PICK l \in Nat : l = Len(w) /\ n <= l
  OBVIOUS
<1>2. u \in Seq(Chars) /\ Len(u) = l - n /\ \A i \in 1 .. l - n : u[i] = w[n + i]
  BY <1>1, RemainsIs
<1> HIDE DEF u
<1>3. d <= Len(u) /\ d <= l - n
  BY <1>2 DEF u
<1>4. t \in Seq(Chars) /\ Len(t) = d /\ \A i \in 1 .. d : t[i] = u[i]
  BY <1>2, <1>3, Prefix DEF Taken
<1> HIDE DEF t
<1>5. ASSUME NEW i \in 1 .. d PROVE t[i] = w[n + i]
  <2>1. i \in 1 .. l - n
    BY <1>1, <1>3
  <2> QED
    BY <1>2, <1>4, <2>1
<1>6. PICK m \in Nat : m = n + d /\ m <= l
  BY <1>1, <1>3
<1>7. PICK f : f = ParsedOf(NoRequest, w) /\ Steps(f, w, l)
  BY <1>1, ParsedSteps
<1>8. PICK q : q = f[n]
  OBVIOUS
<1>9. PICK g : g = ParsedOf(q, t)
  OBVIOUS
<1>10. g[0] = q /\ Steps(g, t, d) /\ requestParse(q, t) = g[d]
  <2>1. Len(t) \in Nat
    BY <1>4
  <2> QED
    BY <1>4, <1>9, <2>1, ParsedSteps DEF Place
<1>11. PICK h : h = After(f, n, d)
  OBVIOUS
<1>12. \A k \in 0 .. d : h[k] = f[n + k]
  BY <1>11 DEF After
<1>13. ASSUME NEW k \in 0 .. d - 1 PROVE h[k + 1] = ParseChar(h[k], t[k + 1])
  <2>1. PICK j \in 0 .. l - 1 : j = n + k /\ j + 1 = n + (k + 1)
    BY <1>1, <1>3
  <2>2. f[j + 1] = ParseChar(f[j], w[j + 1])
    BY <1>7, <2>1 DEF Steps
  <2>3. k \in 0 .. d /\ k + 1 \in 0 .. d /\ k + 1 \in 1 .. d
    OBVIOUS
  <2>4. h[k] = f[j] /\ h[k + 1] = f[j + 1]
    BY <1>12, <2>1, <2>3
  <2>5. t[k + 1] = w[j + 1]
    BY <1>5, <2>1, <2>3
  <2> QED
    BY <2>2, <2>4, <2>5
<1>14. h[0] = g[0]
  <2>1. 0 \in 0 .. d /\ n + 0 = n
    OBVIOUS
  <2> QED
    BY <1>8, <1>10, <1>12, <2>1
<1>15. Agree(h, g, d)
  <2>1. Steps(h, t, d)
    BY <1>13 DEF Steps
  <2> QED
    BY <1>10, <1>14, <2>1, StepsAgree
<1>16. requestParse(q, t) = f[m]
  <2>1. d \in 0 .. d
    OBVIOUS
  <2> QED
    BY <1>6, <1>10, <1>12, <1>15, <2>1 DEF Agree
<1>17. Remains(u, d) = Remains(w, m)
  <2>1. PICK x, y : x = Remains(u, d) /\ y = Remains(w, m)
    OBVIOUS
  <2>2. PICK e \in Nat : e = l - m /\ e = (l - n) - d
    <3>1. l - m \in Nat /\ l - m = (l - n) - d
      BY <1>6
    <3> QED
      BY <3>1
  <2>3. x \in Seq(Chars) /\ Len(x) = e /\ \A i \in 1 .. e : x[i] = u[d + i]
    <3>1. u \in Seq(Chars) /\ d <= Len(u)
      BY <1>2, <1>3
    <3>2. /\ Remains(u, d) \in Seq(Chars) /\ Len(Remains(u, d)) = Len(u) - d
          /\ \A i \in 1 .. Len(u) - d : Remains(u, d)[i] = u[d + i]
      BY <3>1, RemainsIs
    <3>3. Len(u) - d = e
      BY <1>2, <2>2
    <3> QED
      BY <2>1, <3>2, <3>3
  <2>4. y \in Seq(Chars) /\ Len(y) = e /\ \A i \in 1 .. e : y[i] = w[m + i]
    <3>1. m \in Nat /\ m <= Len(w)
      BY <1>1, <1>6
    <3>2. /\ Remains(w, m) \in Seq(Chars) /\ Len(Remains(w, m)) = Len(w) - m
          /\ \A i \in 1 .. Len(w) - m : Remains(w, m)[i] = w[m + i]
      BY <3>1, RemainsIs
    <3>3. Len(w) - m = e
      BY <1>1, <2>2
    <3> QED
      BY <2>1, <3>2, <3>3
  <2>5. ASSUME NEW i \in 1 .. e PROVE x[i] = y[i]
    <3>1. PICK j \in 1 .. l - n : j = d + i /\ n + j = m + i
      BY <1>1, <1>6, <2>2
    <3> QED
      BY <1>2, <2>3, <2>4, <3>1
  <2>6. x = y
    BY <2>3, <2>4, <2>5, SeqEqual
  <2> QED
    BY <2>1, <2>6
<1> QED
  BY <1>1, <1>6, <1>7, <1>8, <1>16, <1>17 DEF u, t, Place

\* What has been received of the request has been parsed, as if it had come
\* in one piece.
ReceivedTo(w, n) == n <= Len(w) /\ left = Remains(w, n) /\ request = Place(ParsedOf(NoRequest, w), n)
Received == WellFormed(sent) => \E n \in Nat : ReceivedTo(Wire(sent), n)

ReadInv == sent \in Requests /\ Received

\* Nothing has been received.
LEMMA ReadInvBegins == ASSUME RequestAssumption, RequestInit PROVE ReadInv
<1>1. sent \in Requests /\ left = Wire(sent) /\ request = NoRequest
  BY DEF RequestInit
<1>2. ASSUME WellFormed(sent) PROVE ReceivedTo(Wire(sent), 0)
  <2>1. PICK w \in Seq(Chars), l \in Nat : w = Wire(sent) /\ l = Len(w)
    BY <1>1, <1>2, WireIs
  <2>2. ParsedOf(NoRequest, w)[0] = NoRequest
    BY <2>1, ParsedSteps
  <2>3. PICK x : x = Remains(w, 0)
    OBVIOUS
  <2>4. x \in Seq(Chars) /\ Len(x) = l - 0 /\ \A i \in 1 .. l - 0 : x[i] = w[0 + i]
    BY <2>1, <2>3, RemainsIs
  <2>5. ASSUME NEW i \in 1 .. l PROVE x[i] = w[i]
    <3>1. 0 + i = i /\ l - 0 = l
      OBVIOUS
    <3> QED
      BY <2>4, <3>1
  <2>6. x = w
    <3>1. Len(x) = l
      BY <2>4
    <3> QED
      BY <2>1, <2>4, <2>5, <3>1, SeqEqual
  <2> QED
    BY <1>1, <2>1, <2>2, <2>3, <2>6 DEF ReceivedTo, Place
<1> QED
  BY <1>1, <1>2 DEF ReadInv, Received

\* A fragment of any length.
LEMMA RecvKeeps == ASSUME RequestAssumption, ReadInv, Recv PROVE ReadInv'
<1>1. PICK n \in 1 .. Min({Len(left), SEND_RECV_BUFFER_SIZE}) :
        /\ request' = requestParse(request, SubSeq(left, 1, n))
        /\ left' = SubSeq(left, n + 1, Len(left)) /\ sent' = sent
  BY DEF Recv
<1>2. SUFFICES ASSUME WellFormed(sent) PROVE \E k \in Nat : ReceivedTo(Wire(sent), k)'
  BY <1>1 DEF ReadInv, Received, WellFormed
<1>3. PICK w \in Seq(Chars), l \in Nat : w = Wire(sent) /\ l = Len(w)
  BY <1>2, WireIs DEF ReadInv
<1>4. PICK a \in Nat : ReceivedTo(w, a)
  BY <1>2, <1>3 DEF ReadInv, Received
<1>5. a <= l /\ left = Remains(w, a) /\ request = Place(ParsedOf(NoRequest, w), a)
  BY <1>3, <1>4 DEF ReceivedTo
<1>6. Len(left) = l - a /\ l - a \in Nat
  BY <1>3, <1>5, RemainsIs
<1>7. n \in Nat /\ n <= Len(Remains(w, a))
  <2>1. PICK b \in Nat : b = SEND_RECV_BUFFER_SIZE
    BY DEF RequestAssumption
  <2>2. PICK z : z = Min({l - a, b}) /\ z \in Nat /\ z <= l - a
    BY <1>6, LeastOf
  <2>3. n \in 1 .. z
    BY <1>1, <1>6, <2>1, <2>2
  <2> QED
    BY <1>5, <1>6, <2>2, <2>3
<1>8. PICK m \in Nat :
        /\ m <= Len(w) /\ Remains(Remains(w, a), n) = Remains(w, m)
        /\ requestParse(Place(ParsedOf(NoRequest, w), a), Taken(Remains(w, a), n))
           = Place(ParsedOf(NoRequest, w), m)
  <2>1. a <= Len(w)
    BY <1>3, <1>5
  <2> QED
    BY <1>7, <2>1, FragmentRead
<1>9. request' = Place(ParsedOf(NoRequest, w), m)
  BY <1>1, <1>5, <1>8 DEF Taken
<1>10. left' = Remains(w, m)
  <2>1. left' = Remains(left, n)
    BY <1>1 DEF Remains
  <2> QED
    BY <1>5, <1>8, <2>1
<1>11. Wire(sent)' = w
  BY <1>1, <1>3 DEF Wire, HeadOf, HeaderLine
<1> QED
  BY <1>8, <1>9, <1>10, <1>11 DEF ReceivedTo

\* Every step of the handler.
LEMMA ReadInvStays == ASSUME RequestAssumption, ReadInv, [RequestNext]_recvVars PROVE ReadInv'
<1>1. CASE Recv
  BY <1>1, RecvKeeps
<1>2. CASE RecvEnds \/ UNCHANGED recvVars
  <2>1. sent' = sent /\ left' = left /\ request' = request
    BY <1>2 DEF RecvEnds, recvVars, requestVars
  <2> QED
    BY <2>1 DEF ReadInv, Received, ReceivedTo, Remains, Wire, HeadOf, HeaderLine, WellFormed
<1> QED
  BY <1>1, <1>2 DEF RequestNext

\* What has been parsed as if in one piece is exact.
LEMMA ReadInvExact == ASSUME RequestAssumption, ReadInv PROVE RequestExact
<1>1. SUFFICES ASSUME WellFormed(sent) PROVE ExactAt(sent, request, Len(Wire(sent)) - Len(left))
  BY DEF RequestExact, ExactAt
<1>2. PICK w \in Seq(Chars), l \in Nat : w = Wire(sent) /\ l = Len(w)
  BY <1>1, WireIs DEF ReadInv
<1>3. PICK n \in Nat : ReceivedTo(w, n)
  BY <1>1, <1>2 DEF ReadInv, Received
<1>4. n <= l /\ left = Remains(w, n) /\ request = ParsedOf(NoRequest, w)[n]
  BY <1>2, <1>3 DEF ReceivedTo, Place
<1>5. Len(left) = l - n
  BY <1>2, <1>4, RemainsIs
<1>6. Len(Wire(sent)) - Len(left) = n
  BY <1>2, <1>4, <1>5
<1>7. ExactAt(sent, ParsedOf(NoRequest, Wire(sent))[n], n)
  BY <1>1, <1>2, <1>4, EachExact DEF ReadInv
<1> QED
  BY <1>2, <1>4, <1>6, <1>7

(* However the network cuts a request into fragments, the parser takes it  *)
(* for complete with its last character, neither earlier nor later, and    *)
(* has then its line, its headers as far as the pool has room for them, a  *)
(* warning for what was cut, its decoded path and its body: requestParse,  *)
(* poolString* and URLDecode within the recv loop of                       *)
(* connectionHandlerThread.                                                *)
THEOREM RequestRead == ASSUME RequestAssumption PROVE RequestSpec => []RequestExact
<1>1. RequestInit => ReadInv
  BY ReadInvBegins
<1>2. ReadInv /\ [RequestNext]_recvVars => ReadInv'
  BY ReadInvStays
<1>3. ReadInv => RequestExact
  BY ReadInvExact
<1> QED
  BY <1>1, <1>2, <1>3, PTL DEF RequestSpec

---------------------------------------------------------------------------
(* The characters of a file in order.                                      *)

Span(s, l) == s .. s + l - 1

LEMMA SpanSize == ASSUME NEW s \in Nat, NEW l \in Nat PROVE Cardinality(Span(s, l)) = l
<1>1. PICK e \in Int : e = s + l - 1
  OBVIOUS
<1>2. Cardinality(s .. e) = IF s > e THEN 0 ELSE (e - s) + 1
  BY FS_Interval
<1>3. s > e => l = 0
  BY <1>1
<1>4. (e - s) + 1 = l
  BY <1>1
<1>5. Span(s, l) = s .. e
  BY <1>1 DEF Span
<1> QED
  BY <1>2, <1>3, <1>4, <1>5

\* The smallest characters of a span are one, too.
LEMMA SpanBelow ==
  ASSUME NEW s \in Nat, NEW l \in Nat, NEW k \in 1 .. l
  PROVE  {y \in Span(s, l) : y <= s + k - 1} = Span(s, k)
<1>1. PICK d \in Nat : d = s + k - 1 /\ d <= s + l - 1
  OBVIOUS
<1>2. {y \in Span(s, l) : y <= d} = s .. d
  BY <1>1 DEF Span
<1> QED
  BY <1>1, <1>2 DEF Span

LEMMA InOrderIs == ASSUME NEW s \in Nat, NEW l \in Nat PROVE InOrder(Span(s, l)) = PieceAt(s, l)
<1> DEFINE S == Span(s, l)
           below(x) == Cardinality({y \in S : y <= x})
<1>1. Cardinality(S) = l
  BY SpanSize
<1>2. ASSUME NEW k \in 1 .. l PROVE s + k - 1 \in S /\ below(s + k - 1) = k
  <2>1. {y \in S : y <= s + k - 1} = Span(s, k)
    BY SpanBelow
  <2>2. k \in Nat
    OBVIOUS
  <2>3. Cardinality(Span(s, k)) = k
    BY <2>2, SpanSize
  <2>4. s + k - 1 \in S
    BY DEF Span
  <2> QED
    BY <2>1, <2>3, <2>4
<1>3. ASSUME NEW x \in S PROVE \E k \in 1 .. l : x = s + k - 1
  <2>1. PICK k \in 1 .. l : k = x - s + 1
    BY <1>3 DEF Span
  <2>2. x \in Int
    BY DEF Span
  <2> QED
    BY <2>1, <2>2
<1> HIDE DEF S, below
<1>4. ASSUME NEW k \in 1 .. l PROVE (CHOOSE x \in S : below(x) = k) = s + k - 1
  <2>1. ASSUME NEW x \in S, below(x) = k PROVE x = s + k - 1
    <3>1. PICK j \in 1 .. l : x = s + j - 1
      BY <1>3
    <3>2. below(s + j - 1) = j
      BY <1>2
    <3>3. j = k
      BY <2>1, <3>1, <3>2
    <3> QED
      BY <3>1, <3>3
  <2>2. PICK z : z = s + k - 1
    OBVIOUS
  <2>3. z \in S /\ below(z) = k
    BY <1>2, <2>2
  <2>4. \A x \in S : below(x) = k => x = z
    BY <2>1, <2>2
  <2> QED
    BY <2>2, <2>3, <2>4
<1>5. InOrder(S) = [k \in 1 .. Cardinality(S) |-> CHOOSE x \in S : below(x) = k]
  BY DEF InOrder, below
<1> QED
  BY <1>1, <1>4, <1>5 DEF PieceAt, S

---------------------------------------------------------------------------
(* Ranges.                                                                 *)

Bounds(a, b) == [start |-> a, end |-> b]

\* What is left of a range when it has been clamped to the file.
Sendable(g, v, n) ==
  \/ NotSatisfiable(g, n) /\ Named(v, n) = {}
  \/ /\ ~NotSatisfiable(g, n)
     /\ g.start \in Nat /\ g.end \in Nat /\ g.start <= g.end /\ g.end < n
     /\ Named(v, n) = g.start .. g.end

\* A first and a last place, as a client names them or as the server makes them.
LEMMA ClampedIs ==
  ASSUME NEW n \in Nat, NEW a \in Nat, NEW b \in Int, b >= -1,
         NEW v, Named(v, n) = {x \in 0 .. n - 1 : a <= x /\ x <= b}
  PROVE  Sendable(Clamped(Bounds(a, b), n), v, n)
<1>1. PICK c \in Int : c = (IF b >= n THEN n - 1 ELSE b)
  OBVIOUS
<1>2. Clamped(Bounds(a, b), n) = [start |-> a, end |-> c]
  BY <1>1 DEF Clamped, Bounds
<1>3. PICK g : g = Clamped(Bounds(a, b), n) /\ g.start = a /\ g.end = c
  BY <1>2
<1>4. NotSatisfiable(g, n) <=> a > c \/ a >= n
  BY <1>3 DEF NotSatisfiable
<1>5. CASE a > c \/ a >= n
  <2>1. Named(v, n) = {}
    BY <1>1, <1>5
  <2> QED
    BY <1>3, <1>4, <1>5, <2>1 DEF Sendable
<1>6. CASE ~(a > c \/ a >= n)
  <2>1. c \in Nat /\ a <= c /\ c < n
    BY <1>1, <1>6
  <2>2. Named(v, n) = a .. c
    BY <1>1, <1>6
  <2> QED
    BY <1>3, <1>4, <1>6, <2>1, <2>2 DEF Sendable
<1> QED
  BY <1>5, <1>6

\* Each of the three forms.
LEMMA RangeIs ==
  ASSUME NEW v \in Seq(Nat), NEW n \in Nat, IsRange(v)
  PROVE  \E h : ParseRange(v, n) = {h} /\ Sendable(Clamped(h, n), v, n)
<1>1. CASE Len(v) = 4 /\ v[1] = BYTES /\ IsDigits(v[2]) /\ v[3] = DASH /\ IsDigits(v[4])
  <2>1. PICK a \in Nat, b \in Nat : a = v[2] /\ b = v[4]
    <3>1. 2 \in 1 .. Len(v) /\ 4 \in 1 .. Len(v)
      BY <1>1
    <3>2. v[2] \in Nat /\ v[4] \in Nat
      BY <3>1, ElementOfSeq
    <3> QED
      BY <3>2
  <2>2. ParseRange(v, n) = {[start |-> a, end |-> b]}
    BY <1>1, <2>1 DEF ParseRange
  <2>3. Named(v, n) = {x \in 0 .. n - 1 : a <= x /\ x <= b}
    BY <1>1, <2>1 DEF Named
  <2>4. Sendable(Clamped(Bounds(a, b), n), v, n)
    BY <2>3, ClampedIs
  <2> QED
    BY <2>2, <2>4 DEF Bounds
<1>2. CASE Len(v) = 3 /\ v[1] = BYTES /\ v[2] = DASH /\ IsDigits(v[3])
  <2>1. PICK c \in Nat : c = v[3]
    <3>1. 3 \in 1 .. Len(v)
      BY <1>2
    <3>2. v[3] \in Nat
      BY <3>1, ElementOfSeq
    <3> QED
      BY <3>2
  <2>2. ~IsDigits(v[2]) /\ v[3] # DASH
    BY <1>2 DEF IsDigits, DASH
  <2>3. PICK a \in Nat : a = n - (IF c > n THEN n ELSE c)
    <3>1. n - (IF c > n THEN n ELSE c) \in Nat
      OBVIOUS
    <3> QED
      BY <3>1
  <2>4. PICK b \in Int : b = n - 1 /\ b >= -1
    OBVIOUS
  <2>5. ParseRange(v, n) = {[start |-> a, end |-> b]}
    BY <1>2, <2>1, <2>2, <2>3, <2>4 DEF ParseRange
  <2>6. Named(v, n) = {x \in 0 .. n - 1 : x >= n - c}
    BY <1>2, <2>1, <2>2 DEF Named
  <2>7. ASSUME NEW x \in 0 .. n - 1 PROVE x >= n - c <=> a <= x /\ x <= b
    BY <2>3, <2>4
  <2>8. Named(v, n) = {x \in 0 .. n - 1 : a <= x /\ x <= b}
    BY <2>6, <2>7
  <2>9. Sendable(Clamped(Bounds(a, b), n), v, n)
    BY <2>4, <2>8, ClampedIs
  <2> QED
    BY <2>5, <2>9 DEF Bounds
<1>3. CASE Len(v) = 3 /\ v[1] = BYTES /\ IsDigits(v[2]) /\ v[3] = DASH
  <2>1. PICK a \in Nat : a = v[2]
    <3>1. 2 \in 1 .. Len(v)
      BY <1>3
    <3>2. v[2] \in Nat
      BY <3>1, ElementOfSeq
    <3> QED
      BY <3>2
  <2>2. v[2] # DASH
    BY <1>3 DEF IsDigits, DASH
  <2>3. PICK b \in Int : b = n - 1 /\ b >= -1
    OBVIOUS
  <2>4. ParseRange(v, n) = {[start |-> a, end |-> b]}
    BY <1>3, <2>1, <2>2, <2>3 DEF ParseRange
  <2>5. Named(v, n) = {x \in 0 .. n - 1 : a <= x}
    BY <1>3, <2>1, <2>2 DEF Named
  <2>6. Named(v, n) = {x \in 0 .. n - 1 : a <= x /\ x <= b}
    BY <2>3, <2>5
  <2>7. Sendable(Clamped(Bounds(a, b), n), v, n)
    BY <2>3, <2>6, ClampedIs
  <2> QED
    BY <2>4, <2>7 DEF Bounds
<1> QED
  BY <1>1, <1>2, <1>3 DEF IsRange

\* Another unit, or nothing.
LEMMA NoRangeIs ==
  ASSUME NEW v \in Seq(Nat), ~(v # <<>> /\ v[1] = BYTES), NEW n
  PROVE  ParseRange(v, n) = {} /\ ~IsRange(v)
<1>1. ~(1 <= Len(v) /\ v[1] = BYTES)
  OBVIOUS
<1>2. ParseRange(v, n) = {}
  BY <1>1 DEF ParseRange
<1>3. ~IsRange(v)
  BY DEF IsRange
<1> QED
  BY <1>2, <1>3

---------------------------------------------------------------------------
(* The Range header.                                                       *)

\* What the server has kept of the headers is of characters.
LEMMA KeptAre ==
  ASSUME RequestAssumption, NEW r \in Requests, WellFormed(r)
  PROVE  \E m \in Nat : /\ DOMAIN KeptHeaders(r) = 1 .. m
                        /\ \A k \in 1 .. m : KeptHeaders(r)[k].value \in Seq(Nat)
<1> DEFINE fits == {k \in DOMAIN r.headers : k <= REQUEST_MAX_HEADERS /\ ValueAt(r, k) < PoolLimit}
<1>1. PICK M \in Nat : M = Len(r.headers) /\ DOMAIN r.headers = 1 .. M
  BY HeadersAre
<1>2. KeptHeaders(r) = [k \in 1 .. Cardinality(fits) |-> KeptHeader(r, k)]
  BY DEF KeptHeaders, KeptHeader
<1>3. fits \subseteq 1 .. M
  BY <1>1
<1> HIDE DEF fits
<1>4. IsFiniteSet(1 .. M) /\ Cardinality(1 .. M) = M
  BY FS_Interval
<1>5. IsFiniteSet(fits) /\ Cardinality(fits) <= M
  BY <1>3, <1>4, FS_Subset
<1>9. PICK m \in Nat : m = Cardinality(fits) /\ m <= M
  BY <1>5, FS_CardinalityType
<1>6. KeptHeaders(r) = [k \in 1 .. m |-> KeptHeader(r, k)]
  BY <1>2, <1>9
<1>7. ASSUME NEW k \in 1 .. m PROVE KeptHeader(r, k).value \in Seq(Nat)
  <2>1. k \in 1 .. M
    BY <1>9
  <2>2. PICK v \in Seq(Nat) : v = r.headers[k].value
    BY <1>1, <2>1, HeadersAre DEF Chars
  <2>3. PICK max \in Int : max = PoolLimit - ValueAt(r, k)
    <3>1. ValueAt(r, k) \in Nat /\ PoolLimit \in Nat
      BY <1>1, <2>1, Positions, PoolSize
    <3> QED
      BY <3>1
  <2>4. Shorter(v, max) \in Seq(Nat)
    BY DEF Shorter
  <2> QED
    BY <2>2, <2>3, <2>4 DEF KeptHeader
<1>8. DOMAIN KeptHeaders(r) = 1 .. m /\ \A k \in 1 .. m : KeptHeaders(r)[k] = KeptHeader(r, k)
  BY <1>6
<1> QED
  BY <1>7, <1>8

FirstOf(kept, name) ==
  {kept[k].value : k \in {k \in {j \in DOMAIN kept : kept[j].name = name} :
                            k = Min({j \in DOMAIN kept : kept[j].name = name})}}

\* The header headerInRequest finds is the first one of its name.
LEMMA FoundIsFirst ==
  ASSUME NEW q, NEW kept, NEW m \in Nat, DOMAIN kept = 1 .. m, ReadBack(q) = kept, NEW name
  PROVE  \/ FirstOf(kept, name) = {} /\ headerInRequest(name, q) = {}
         \/ \E k \in 1 .. m : \E x : /\ FirstOf(kept, name) = {kept[k].value}
                                     /\ headerInRequest(name, q) = {x}
                                     /\ CString(q.pool, x.at) = kept[k].value
<1> DEFINE hs == q.headers
           named == {j \in DOMAIN kept : kept[j].name = name}
           first == {k \in DOMAIN hs : /\ CString(q.pool, hs[k].name.at) = name
                                       /\ \A j \in 1 .. k - 1 : CString(q.pool, hs[j].name.at) # name}
           found == headerInRequest(name, q)
<1>1. found = {hs[k].value : k \in first}
  BY DEF headerInRequest
<1>2. FirstOf(kept, name) = {kept[k].value : k \in {k \in named : k = Min(named)}}
  BY DEF FirstOf
<1>3. DOMAIN hs = 1 .. m
  BY DEF ReadBack
<1>4. ASSUME NEW k \in 1 .. m
      PROVE  kept[k].name = CString(q.pool, hs[k].name.at) /\ kept[k].value = CString(q.pool, hs[k].value.at)
  <2>1. kept[k] = [name |-> CString(q.pool, hs[k].name.at), value |-> CString(q.pool, hs[k].value.at)]
    BY <1>3 DEF ReadBack
  <2> QED
    BY <2>1
<1>5. \A k : k \in named <=> k \in 1 .. m /\ kept[k].name = name
  OBVIOUS
<1>6. \A k : k \in first <=> k \in 1 .. m /\ kept[k].name = name /\ \A j \in 1 .. k - 1 : kept[j].name # name
  <2>1. ASSUME NEW k \in 1 .. m
        PROVE  k \in first <=> kept[k].name = name /\ \A j \in 1 .. k - 1 : kept[j].name # name
    <3>1. \A j \in 1 .. k - 1 : j \in 1 .. m
      OBVIOUS
    <3> QED
      BY <1>3, <1>4, <3>1
  <2> QED
    BY <1>3, <2>1
<1> HIDE DEF hs, named, first, found
<1>7. CASE named = {}
  <2>1. first = {}
    BY <1>5, <1>6, <1>7
  <2>2. found = {} /\ FirstOf(kept, name) = {}
    BY <1>1, <1>2, <1>7, <2>1
  <2> QED
    BY <2>2 DEF found
<1>8. CASE named # {}
  <2>1. PICK k0 \in named : \A k \in named : k0 <= k
    <3>1. named \subseteq Nat
      BY <1>5
    <3> QED
      BY <1>8, <3>1, LeastElement
  <2>2. k0 \in 1 .. m /\ kept[k0].name = name
    BY <1>5, <2>1
  <2>3. first = {k0}
    <3>1. ASSUME NEW k \in 1 .. m, kept[k].name = name, \A j \in 1 .. k - 1 : kept[j].name # name
          PROVE  k = k0
      <4>1. k0 <= k
        BY <1>5, <2>1, <3>1
      <4>2. ~(k0 \in 1 .. k - 1)
        BY <2>2, <3>1
      <4> QED
        BY <2>2, <4>1, <4>2
    <3>2. \A j \in 1 .. k0 - 1 : kept[j].name # name
      <4>1. ASSUME NEW j \in 1 .. k0 - 1, kept[j].name = name PROVE FALSE
        <5>1. j \in named /\ ~(k0 <= j)
          BY <1>5, <2>2, <4>1
        <5> QED
          BY <2>1, <5>1
      <4> QED
        BY <4>1
    <3> QED
      BY <1>6, <2>2, <3>1, <3>2
  <2>4. found = {hs[k0].value}
    BY <1>1, <2>3
  <2>5. Min(named) = k0
    <3>1. PICK z : z = Min(named) /\ z \in named /\ \A y \in named : z <= y
      BY <2>1 DEF Min
    <3>2. z <= k0 /\ k0 <= z /\ z \in Nat /\ k0 \in Nat
      BY <1>5, <2>1, <2>2, <3>1
    <3> QED
      BY <3>1, <3>2
  <2>6. FirstOf(kept, name) = {kept[k0].value}
    <3>1. {k \in named : k = Min(named)} = {k0}
      BY <2>1, <2>5
    <3> QED
      BY <1>2, <3>1
  <2>7. PICK x : x = hs[k0].value
    OBVIOUS
  <2>8. CString(q.pool, x.at) = kept[k0].value
    BY <1>4, <2>2, <2>7
  <2> QED
    BY <2>2, <2>4, <2>6, <2>7, <2>8 DEF found
<1> QED
  BY <1>7, <1>8

\* What there is to send of a file of n characters.
Wanted(r, n) ==
  IF RangeHeader(r) = {} THEN 0 .. n - 1 ELSE UNION {Named(value, n) : value \in RangeHeader(r)}

Satisfies(g, r, n) ==
  \/ NotSatisfiable(g, n) /\ Wanted(r, n) = {}
  \/ /\ ~NotSatisfiable(g, n)
     /\ g.start \in Nat /\ g.end \in Nat /\ g.start <= g.end /\ g.end < n
     /\ Wanted(r, n) = g.start .. g.end

\* The server takes the range the client has named.
LEMMA RangesAre ==
  ASSUME RequestAssumption, NEW r \in Requests, WellFormed(r), RangeClear(r),
         NEW q, ReadBack(q) = KeptHeaders(r), NEW n \in Nat
  PROVE  \/ RangeHeader(r) = {} /\ RangesOf(q, n) = {}
         \/ /\ RangeHeader(r) # {}
            /\ \E g : RangesOf(q, n) = {g} /\ Satisfies(g, r, n)
<1>1. PICK kept : kept = KeptHeaders(r)
  OBVIOUS
<1>2. PICK m \in Nat : DOMAIN kept = 1 .. m /\ \A k \in 1 .. m : kept[k].value \in Seq(Nat)
  BY <1>1, KeptAre
<1>3. PICK name, found : name = <<RangeName>> /\ found = headerInRequest(name, q)
  OBVIOUS
<1>4. RangeValues(r) = FirstOf(kept, name)
  BY <1>1, <1>3 DEF RangeValues, FirstOf
<1>5. RangesOf(q, n) = {Clamped(g, n) : g \in UNION {ParseRange(CString(q.pool, x.at), n) : x \in found}}
  BY <1>3 DEF RangesOf
<1>6. \/ FirstOf(kept, name) = {} /\ found = {}
      \/ \E k \in 1 .. m : \E x : /\ FirstOf(kept, name) = {kept[k].value} /\ found = {x}
                                  /\ CString(q.pool, x.at) = kept[k].value
  BY <1>1, <1>2, <1>3, FoundIsFirst
<1>7. CASE FirstOf(kept, name) = {} /\ found = {}
  <2>1. RangeHeader(r) = {}
    BY <1>4, <1>7 DEF RangeHeader
  <2>2. RangesOf(q, n) = {}
    BY <1>5, <1>7
  <2> QED
    BY <2>1, <2>2
<1>8. CASE \E k \in 1 .. m : \E x : /\ FirstOf(kept, name) = {kept[k].value} /\ found = {x}
                                    /\ CString(q.pool, x.at) = kept[k].value
  <2>1. PICK k \in 1 .. m : \E x : /\ FirstOf(kept, name) = {kept[k].value} /\ found = {x}
                                   /\ CString(q.pool, x.at) = kept[k].value
    BY <1>8
  <2>9. PICK x : /\ FirstOf(kept, name) = {kept[k].value} /\ found = {x}
                 /\ CString(q.pool, x.at) = kept[k].value
    BY <2>1
  <2>2. PICK v \in Seq(Nat) : v = kept[k].value
    BY <1>2, <2>9
  <2>3. RangeValues(r) = {v}
    BY <1>4, <2>9, <2>2
  <2>4. RangesOf(q, n) = {Clamped(g, n) : g \in ParseRange(v, n)}
    BY <1>5, <2>9, <2>2
  <2>5. CASE v # <<>> /\ v[1] = BYTES
    <3>1. IsRange(v)
      BY <2>3, <2>5 DEF RangeClear
    <3>2. RangeHeader(r) = {v}
      BY <2>3, <3>1 DEF RangeHeader
    <3>3. PICK h : ParseRange(v, n) = {h} /\ Sendable(Clamped(h, n), v, n)
      BY <3>1, RangeIs
    <3>4. PICK g : g = Clamped(h, n)
      OBVIOUS
    <3>5. RangesOf(q, n) = {g}
      BY <2>4, <3>3, <3>4
    <3>6. Wanted(r, n) = Named(v, n)
      BY <3>2 DEF Wanted
    <3>7. Satisfies(g, r, n)
      BY <3>3, <3>4, <3>6 DEF Satisfies, Sendable
    <3> QED
      BY <3>2, <3>5, <3>7
  <2>6. CASE ~(v # <<>> /\ v[1] = BYTES)
    <3>1. ParseRange(v, n) = {} /\ ~IsRange(v)
      BY <2>6, NoRangeIs
    <3>2. RangeHeader(r) = {}
      BY <2>3, <3>1 DEF RangeHeader
    <3>3. RangesOf(q, n) = {}
      BY <2>4, <3>1
    <3> QED
      BY <3>2, <3>3
  <2> QED
    BY <2>5, <2>6
<1> QED
  BY <1>6, <1>7, <1>8

---------------------------------------------------------------------------
(* The file.                                                               *)

NamedBy(path, decoded) == IF path = <<SLASH, QUESTION>> THEN <<>> ELSE SuffixOf(decoded)

\* The file a path names, or the index of that directory.
Chosen(file, path, decoded) ==
  /\ file \in {NamedBy(path, decoded), IndexOf(NamedBy(path, decoded))}
  /\ Tree[file] \in Nat

LEMMA FileOfIs ==
  ASSUME ServeAssumption, NEW path, NEW p, p = FileOf(path), p.file # NoFile
  PROVE  /\ p.code = 200 /\ p.file \in {path, IndexOf(path)} /\ Tree[p.file] \in Nat
<1>1. CASE path \notin DOMAIN Tree
  BY <1>1 DEF FileOf, Page
<1>2. CASE path \in DOMAIN Tree /\ Tree[path] # Directory
  <2>1. p.code = 200 /\ p.file = path
    BY <1>2 DEF FileOf, File
  <2>2. Tree[path] \in Nat
    BY <1>2 DEF ServeAssumption
  <2> QED
    BY <2>1, <2>2
<1>3. CASE path \in DOMAIN Tree /\ Tree[path] = Directory
  <2>1. PICK index : index = IndexOf(path)
    OBVIOUS
  <2>2. CASE index \in DOMAIN Tree /\ Tree[index] # Directory
    <3>1. p.code = 200 /\ p.file = index
      BY <1>3, <2>1, <2>2 DEF FileOf, File
    <3>2. Tree[index] \in Nat
      BY <2>2 DEF ServeAssumption
    <3> QED
      BY <2>1, <3>1, <3>2
  <2>3. CASE ~(index \in DOMAIN Tree /\ Tree[index] # Directory)
    BY <1>3, <2>1, <2>3 DEF FileOf, Page
  <2> QED
    BY <2>2, <2>3
<1> QED
  BY <1>1, <1>2, <1>3

LEMMA FileIs ==
  ASSUME ServeAssumption, NEW r, NEW p, p = Serve(r), p.file # NoFile
  PROVE  p.code = 200 /\ Chosen(p.file, r.path, r.pathDecoded)
<1>1. ASSUME NEW d, p = responseAllocServeFileFromRequestPath(d)
      PROVE  p.code = 200 /\ p.file \in {SuffixOf(d), IndexOf(SuffixOf(d))} /\ Tree[p.file] \in Nat
  <2>1. PICK path : path = SuffixOf(d)
    OBVIOUS
  <2>2. p = FileOf(path)
    BY <1>1, <2>1 DEF responseAllocServeFileFromRequestPath, Page
  <2> QED
    BY <2>1, <2>2, FileOfIs
<1>2. SuffixOf(<<SLASH>>) = <<>>
  BY DEF SuffixOf
<1>3. CASE r.path = <<SLASH>>
  BY <1>3 DEF Serve, Page
<1>4. CASE r.path # <<SLASH>> /\ r.path = <<SLASH, QUESTION>>
  <2>1. p = responseAllocServeFileFromRequestPath(<<SLASH>>)
    BY <1>4 DEF Serve
  <2>2. p.code = 200 /\ p.file \in {<<>>, IndexOf(<<>>)} /\ Tree[p.file] \in Nat
    BY <1>1, <1>2, <2>1
  <2> QED
    BY <1>4, <2>2 DEF Chosen, NamedBy
<1>5. CASE r.path # <<SLASH>> /\ r.path # <<SLASH, QUESTION>>
  <2>1. p = responseAllocServeFileFromRequestPath(r.pathDecoded)
    BY <1>5 DEF Serve
  <2>2. PICK d : d = r.pathDecoded
    OBVIOUS
  <2> QED
    BY <1>1, <1>5, <2>1, <2>2 DEF Chosen, NamedBy
<1> QED
  BY <1>3, <1>4, <1>5

---------------------------------------------------------------------------
(* A file on its way.                                                      *)

\* A head and the first m characters after it.
Sending(c, s, l, m) == [code |-> c, length |-> l, first |-> s, data |-> PieceAt(s, m)]

\* The head of a file of n characters: l of them, from s on.
Promised(c, s, l, r, n) ==
  \/ n = 0 /\ RangeHeader(r) = {} /\ c = 200 /\ s = 0 /\ l = 1
  \/ /\ c = IF RangeHeader(r) = {} THEN 200 ELSE 206
     /\ l > 0 /\ s + l <= n /\ Wanted(r, n) = Span(s, l)

InLoop(ans, r, n, a, rem, sz, fl) ==
  \E c, s, l, m \in Nat :
    /\ Promised(c, s, l, r, n)
    /\ m <= l /\ (n = 0 => m = 0)
    /\ ans = <<Sending(c, s, l, m)>>
    /\ a = s + m /\ rem = l - m
    /\ sz \in Nat /\ sz <= n /\ (~fl => sz = n)

Partly(got, r, n, fl) ==
  \E c, s, l, m \in Nat :
    /\ Promised(c, s, l, r, n)
    /\ m <= l /\ (n = 0 => m = 0)
    /\ got = Sending(c, s, l, m)
    /\ ~fl => m = l \/ n = 0

Refused(got, r, n) == got.code = 416 /\ RangeHeader(r) # {} /\ Wanted(r, n) = {}

Ended(got, r, n, fl) == Refused(got, r, n) \/ Partly(got, r, n, fl)

LEMMA PieceIs ==
  ASSUME NEW s \in Nat, NEW m \in Nat
  PROVE  \E x \in Seq(Int) : x = PieceAt(s, m) /\ Len(x) = m /\ \A i \in 1 .. m : x[i] = s + i - 1
<1>1. PieceAt(s, m) \in [1 .. m -> Int]
  BY DEF PieceAt
<1>2. PieceAt(s, m) \in Seq(Int) /\ Len(PieceAt(s, m)) = m
  BY <1>1
<1>3. \A i \in 1 .. m : PieceAt(s, m)[i] = s + i - 1
  BY DEF PieceAt
<1> QED
  BY <1>2, <1>3

LEMMA PieceMore ==
  ASSUME NEW s \in Nat, NEW m \in Nat, NEW k \in Nat, NEW a \in Nat, a = s + m,
         NEW j \in Nat, j = m + k
  PROVE  Joins(PieceAt(s, m), PieceAt(a, k)) = PieceAt(s, j)
<1>1. PICK x \in Seq(Int) : x = PieceAt(s, m) /\ Len(x) = m /\ \A i \in 1 .. m : x[i] = s + i - 1
  BY PieceIs
<1>2. PICK y \in Seq(Int) : y = PieceAt(a, k) /\ Len(y) = k /\ \A i \in 1 .. k : y[i] = a + i - 1
  BY PieceIs
<1>3. PICK z \in Seq(Int) : z = PieceAt(s, j) /\ Len(z) = j /\ \A i \in 1 .. j : z[i] = s + i - 1
  BY PieceIs
<1>4. PICK u \in Seq(Int) : u = Joins(x, y) /\ Len(u) = m + k /\ Begins(u, x, m) /\ Ends(u, x, y)
  BY <1>1, <1>2, JoinedParts
<1>5. ASSUME NEW i \in 1 .. j PROVE u[i] = z[i]
  <2>1. z[i] = s + i - 1
    BY <1>3
  <2>2. CASE i <= m
    <3>1. i \in 1 .. m
      BY <2>2
    <3>2. u[i] = x[i] /\ x[i] = s + i - 1
      BY <1>1, <1>4, <3>1 DEF Begins
    <3> QED
      BY <2>1, <3>2
  <2>3. CASE i > m
    <3>1. PICK d \in 1 .. k : i = m + d
      <4>1. i - m \in 1 .. k /\ i = m + (i - m)
        BY <2>3
      <4> QED
        BY <4>1
    <3>2. u[m + d] = y[d]
      BY <1>1, <1>2, <1>4 DEF Ends
    <3>3. y[d] = a + d - 1
      BY <1>2
    <3>4. a + d - 1 = s + i - 1
      BY <3>1
    <3> QED
      BY <2>1, <3>1, <3>2, <3>3, <3>4
  <2> QED
    BY <2>2, <2>3
<1>6. u = z
  BY <1>3, <1>4, <1>5, SeqEqual
<1> QED
  BY <1>1, <1>2, <1>3, <1>4, <1>6

\* One more piece.
LEMMA SendMore ==
  ASSUME NEW c \in Nat, NEW s \in Nat, NEW l \in Nat, NEW m \in Nat, NEW k \in Nat,
         NEW a \in Nat, a = s + m, NEW j \in Nat, j = m + k
  PROVE  Followed(Sending(c, s, l, m), PieceAt(a, k)) = Sending(c, s, l, j)
<1>1. PICK x, y, z : x = PieceAt(s, m) /\ y = PieceAt(a, k) /\ z = PieceAt(s, j)
  OBVIOUS
<1>2. x \o y = z
  <2>1. Joins(PieceAt(s, m), PieceAt(a, k)) = PieceAt(s, j)
    BY PieceMore
  <2> QED
    BY <1>1, <2>1 DEF Joins
<1>3. PICK h : h = [code |-> c, length |-> l, first |-> s, data |-> x]
  OBVIOUS
<1>4. h = Sending(c, s, l, m)
  BY <1>1, <1>3 DEF Sending
<1>5. Followed(h, y) = [code |-> c, length |-> l, first |-> s, data |-> z]
  <2>1. h.data = x
    BY <1>3
  <2>2. Followed(h, y) = [h EXCEPT !.data = z]
    BY <1>2, <2>1 DEF Followed
  <2> QED
    BY <1>3, <2>2
<1> QED
  BY <1>1, <1>4, <1>5 DEF Sending

\* What the client gets is what it asked for.
LEMMA EndedExact ==
  ASSUME NEW r, NEW n \in Nat, NEW got, NEW fl, Ended(got, r, n, fl),
         NEW contents, contents = InOrder(Wanted(r, n))
  PROVE  /\ got.code = 416 <=> RangeHeader(r) # {} /\ Wanted(r, n) = {}
         /\ got.code # 416 =>
              /\ got.code = IF RangeHeader(r) = {} THEN 200 ELSE 206
              /\ IsPrefix(got.data, contents)
              /\ Wanted(r, n) # {} => got.length = Len(contents) /\ got.first = contents[1]
              /\ ~fl => got.data = contents
<1>1. CASE Refused(got, r, n)
  BY <1>1 DEF Refused
<1>2. CASE Partly(got, r, n, fl)
  <2>1. PICK c \in Nat, s \in Nat, l \in Nat, m \in Nat :
          /\ Promised(c, s, l, r, n)
          /\ m <= l /\ (n = 0 => m = 0)
          /\ got = Sending(c, s, l, m)
          /\ ~fl => m = l \/ n = 0
    BY <1>2 DEF Partly
  <2>2. PICK k \in Nat : k = IF n = 0 THEN 0 ELSE l
    OBVIOUS
  <2>3. c = (IF RangeHeader(r) = {} THEN 200 ELSE 206) /\ Wanted(r, n) = Span(s, k) /\ m <= k
    <3>1. CASE n = 0 /\ RangeHeader(r) = {} /\ c = 200 /\ s = 0 /\ l = 1
      <4>1. Wanted(r, n) = {} /\ Span(s, k) = {}
        BY <2>2, <3>1 DEF Wanted, Span
      <4> QED
        BY <2>1, <2>2, <3>1, <4>1
    <3>2. CASE /\ c = IF RangeHeader(r) = {} THEN 200 ELSE 206
               /\ l > 0 /\ s + l <= n /\ Wanted(r, n) = Span(s, l)
      <4>1. k = l
        BY <2>2, <3>2
      <4> QED
        BY <2>1, <3>2, <4>1
    <3> QED
      BY <2>1, <3>1, <3>2 DEF Promised
  <2>4. contents = PieceAt(s, k)
    BY <2>3, InOrderIs
  <2>5. PICK x \in Seq(Int) : x = PieceAt(s, m) /\ Len(x) = m /\ \A i \in 1 .. m : x[i] = s + i - 1
    BY PieceIs
  <2>6. PICK y \in Seq(Int) : y = PieceAt(s, k) /\ Len(y) = k /\ \A i \in 1 .. k : y[i] = s + i - 1
    BY PieceIs
  <2>7. got.code = c /\ got.length = l /\ got.first = s /\ got.data = x
    BY <2>1, <2>5 DEF Sending
  <2>8. IsPrefix(x, y)
    BY <2>3, <2>5, <2>6 DEF IsPrefix
  <2>9. Wanted(r, n) # {} => l = k /\ s = y[1]
    <3>1. HAVE Wanted(r, n) # {}
    <3>2. k # 0
      BY <2>3, <3>1 DEF Span
    <3>3. 1 \in 1 .. k
      BY <3>2
    <3> QED
      BY <2>2, <2>6, <3>2, <3>3
  <2>10. ~fl => x = y
    <3>1. ASSUME ~fl PROVE m = k
      BY <2>1, <2>2, <3>1
    <3> QED
      BY <2>5, <2>6, <3>1
  <2>11. RangeHeader(r) # {} => Wanted(r, n) # {}
    <3>1. HAVE RangeHeader(r) # {}
    <3>2. l > 0 /\ s + l <= n /\ Wanted(r, n) = Span(s, l)
      BY <2>1, <3>1 DEF Promised
    <3>3. s \in Span(s, l)
      BY <3>2 DEF Span
    <3> QED
      BY <3>2, <3>3
  <2>12. c # 416
    BY <2>3
  <2> QED
    BY <2>3, <2>4, <2>6, <2>7, <2>8, <2>9, <2>10, <2>11, <2>12
<1> QED
  BY <1>1, <1>2 DEF Ended

\* A turn of the loop: t characters have room, and d are left in the file.
LEMMA ChunkIs ==
  ASSUME NEW rem \in Nat, NEW b \in Nat, b > 0, NEW d \in Int,
         NEW k, k = Max({0, Min({Min({rem, b}), d})})
  PROVE  /\ k \in Nat /\ k <= rem /\ Min({rem, b}) \in Nat
         /\ d >= rem => k = Min({rem, b})
         /\ k = Min({rem, b}) /\ k = 0 => rem = 0
         /\ d <= 0 => k = 0
<1>1. PICK t \in Nat : t = Min({rem, b}) /\ t <= rem /\ (t = 0 => rem = 0)
  <2>1. PICK z : z = (IF rem < b THEN rem ELSE b) /\ z \in {rem, b} /\ \A y \in {rem, b} : z <= y
    OBVIOUS
  <2>2. PICK y : y = Min({rem, b}) /\ y \in {rem, b} /\ \A x \in {rem, b} : y <= x
    BY <2>1 DEF Min
  <2> QED
    BY <2>2
<1>2. PICK u \in Int : u = Min({t, d}) /\ u <= t /\ u <= d /\ u \in {t, d}
  <2>1. PICK z : z = (IF t < d THEN t ELSE d) /\ z \in {t, d} /\ \A y \in {t, d} : z <= y
    OBVIOUS
  <2>2. PICK y : y = Min({t, d}) /\ y \in {t, d} /\ \A x \in {t, d} : y <= x
    BY <2>1 DEF Min
  <2> QED
    BY <2>2
<1>3. k = Max({0, u})
  BY <1>1, <1>2
<1>4. k \in {0, u} /\ k >= 0 /\ k >= u
  <2>1. PICK z : z = (IF u < 0 THEN 0 ELSE u) /\ z \in {0, u} /\ \A y \in {0, u} : z >= y
    OBVIOUS
  <2>2. PICK y : y = Max({0, u}) /\ y \in {0, u} /\ \A x \in {0, u} : y >= x
    BY <2>1 DEF Max
  <2> QED
    BY <1>3, <2>2
<1>5. d >= rem => k = t
  BY <1>1, <1>2, <1>4
<1>6. k \in Nat /\ k <= rem
  BY <1>1, <1>2, <1>4
<1>7. k = t /\ k = 0 => rem = 0
  BY <1>1
<1>8. d <= 0 => k = 0
  BY <1>2, <1>4
<1> QED
  BY <1>1, <1>5, <1>6, <1>7, <1>8

---------------------------------------------------------------------------
(* The handler, from the first fragment to the last piece.                 *)

Answers(ans, p) == ans # <<>> /\ p.file # NoFile /\ ans[1].code \notin {404, 500}

\* What the client has, and what is known of the file, at each place of the handler.
AnswerAt(pc, ans, p, q, r, sz, a, rem, fl) ==
  /\ pc \in {"recv", "found", "send", "loop", "closed"}
  /\ pc \in {"recv", "found", "send"} => ans = <<>>
  /\ pc \in {"recv", "found"} => p.file = NoFile
  /\ pc \in {"found", "send", "loop"} => q.state = "Done"
  /\ p.file # NoFile => q.state = "Done" /\ Chosen(p.file, q.path, DecodedPath(r))
  /\ pc = "send" /\ p.file # NoFile => p.code = 200 /\ sz = Tree[p.file]
  /\ pc = "loop" => p.file # NoFile /\ InLoop(ans, r, Tree[p.file], a, rem, sz, fl)
  /\ pc = "closed" /\ Answers(ans, p) => Ended(ans[1], r, Tree[p.file], fl)

AnswerInv == AnswerAt(hpc, answer, response, request, sent, size, at, remaining, failed)

Asked == WellFormed(sent) /\ RangeClear(sent)

\* What the server does next, of a request that is in order.
Turn == ServeAssumption /\ ReadInv /\ Asked /\ AnswerInv

LEMMA ReadMore == ASSUME Turn, [RequestNext]_recvVars, UNCHANGED serveVars PROVE AnswerInv'
<1>1. response' = response /\ answer' = answer /\ size' = size /\ at' = at /\ remaining' = remaining
      /\ failed' = failed
  BY DEF serveVars
<1>2. CASE Recv
  <2>1. hpc = "recv" /\ hpc' = (IF request'.state = "Done" THEN "found" ELSE "recv")
    BY <1>2 DEF Recv
  <2>2. answer = <<>> /\ response.file = NoFile
    BY <2>1 DEF Turn, AnswerInv, AnswerAt
  <2> QED
    BY <1>1, <2>1, <2>2 DEF AnswerInv, AnswerAt
<1>3. CASE RecvEnds
  <2>1. hpc = "recv" /\ hpc' = "closed"
    BY <1>3 DEF RecvEnds
  <2>2. answer = <<>> /\ response.file = NoFile
    BY <2>1 DEF Turn, AnswerInv, AnswerAt
  <2> QED
    BY <1>1, <2>1, <2>2 DEF AnswerInv, AnswerAt, Answers
<1>4. CASE UNCHANGED recvVars
  <2>1. hpc' = hpc /\ request' = request /\ sent' = sent
    BY <1>4 DEF recvVars, requestVars
  <2> QED
    BY <1>1, <2>1 DEF Turn, AnswerInv
<1> QED
  BY <1>2, <1>3, <1>4 DEF RequestNext

\* A request that is complete is the one that was sent.
LEMMA Complete ==
  ASSUME ServeAssumption, ReadInv, WellFormed(sent), request.state = "Done"
  PROVE  request.pathDecoded = DecodedPath(sent) /\ ReadBack(request) = KeptHeaders(sent)
<1>1. RequestExact
  BY ReadInvExact DEF ServeAssumption
<1> QED
  BY <1>1 DEF RequestExact, ReadBack

LEMMA Looked == ASSUME Turn, createResponseForRequest PROVE AnswerInv'
<1>1. /\ hpc = "found" /\ hpc' = "send" /\ request' = request /\ sent' = sent /\ answer' = answer
      /\ response' = Serve(request) \/ response' = Page(500)
      /\ size' = IF response'.file = NoFile THEN NoSize ELSE Tree[response'.file]
  BY DEF createResponseForRequest, requestVars
<1>2. answer = <<>> /\ request.state = "Done"
  BY <1>1 DEF Turn, AnswerInv, AnswerAt
<1>3. CASE response'.file = NoFile
  BY <1>1, <1>2, <1>3 DEF AnswerInv, AnswerAt
<1>4. CASE response'.file # NoFile
  <2>1. response' = Serve(request)
    BY <1>1, <1>4 DEF Page
  <2>2. response'.code = 200 /\ Chosen(response'.file, request.path, request.pathDecoded)
    BY <1>4, <2>1, FileIs DEF Turn
  <2>3. request.pathDecoded = DecodedPath(sent)
    BY <1>2, Complete DEF Turn, Asked
  <2>4. Chosen(response'.file, request.path, DecodedPath(sent))
    BY <2>2, <2>3
  <2>5. size' = Tree[response'.file]
    BY <1>1, <1>4
  <2> QED
    BY <1>1, <1>2, <1>4, <2>2, <2>4, <2>5 DEF AnswerInv, AnswerAt
<1> QED
  BY <1>3, <1>4

\* There is no file, or nothing to send of it.
LEMMA NoAnswer ==
  ASSUME Turn, hpc' = "closed", request' = request, sent' = sent, response' = response, ~Answers(answer', response)
  PROVE  AnswerInv'
BY DEF Turn, AnswerInv, AnswerAt

LEMMA Paged == ASSUME Turn, sendResponseBody PROVE AnswerInv'
<1>1. hpc' = "closed" /\ request' = request /\ sent' = sent /\ response' = response /\ response.file = NoFile
  BY DEF sendResponseBody, SendPage, SendFails, SendEnds, requestVars
<1>2. ~Answers(answer', response)
  BY <1>1 DEF Answers
<1> QED
  BY <1>1, <1>2, NoAnswer

LEMMA NotRead == ASSUME Turn, FileFails PROVE AnswerInv'
<1>1. hpc' = "closed" /\ request' = request /\ sent' = sent /\ response' = response
  BY DEF FileFails, SendEnds, requestVars
<1>2. PICK code \in {404, 500} : answer' = <<Followed(HeadWith(code, 1, 0), <<HTML>>)>>
  BY DEF FileFails
<1>3. answer'[1].code = code
  BY <1>2 DEF Followed, HeadWith
<1>4. ~Answers(answer', response)
  BY <1>3 DEF Answers
<1> QED
  BY <1>1, <1>4, NoAnswer

\* The head, or a page instead.
LEMMA HeadSent == ASSUME Turn, sendResponseFile PROVE AnswerInv'
<1>1. PICK f, n : f = response.file /\ n = Tree[f]
  OBVIOUS
<1>2. hpc = "send" /\ f # NoFile
  BY <1>1 DEF sendResponseFile
<1>3. /\ answer = <<>> /\ request.state = "Done" /\ Chosen(f, request.path, DecodedPath(sent))
      /\ response.code = 200 /\ size = n
  BY <1>1, <1>2 DEF Turn, AnswerInv, AnswerAt
<1>4. n \in Nat
  BY <1>1, <1>3 DEF Chosen
<1>5. PICK q, r : q = request /\ r = sent
  OBVIOUS
<1>6. \/ RangeHeader(r) = {} /\ RangesOf(q, n) = {}
      \/ RangeHeader(r) # {} /\ \E g : RangesOf(q, n) = {g} /\ Satisfies(g, r, n)
  <2>1. r \in Requests /\ WellFormed(r) /\ RangeClear(r) /\ RequestAssumption
    BY <1>5 DEF Turn, Asked, ReadInv, ServeAssumption
  <2>2. ReadBack(q) = KeptHeaders(r)
    BY <1>3, <1>5, Complete DEF Turn, Asked
  <2> QED
    BY <1>4, <2>1, <2>2, RangesAre
<1>7. ASSUME SendFails PROVE AnswerInv'
  <2>1. hpc' = "closed" /\ request' = request /\ sent' = sent /\ response' = response /\ answer' = answer
    BY <1>7 DEF SendFails, SendEnds, requestVars
  <2>2. ~Answers(answer', response)
    BY <1>3, <2>1 DEF Answers
  <2> QED
    BY <2>1, <2>2, NoAnswer
<1>8. ASSUME NEW c, NEW g, NEW s \in Nat, NEW l \in Nat, s = g.start, l = g.end - g.start + 1,
             SendFileHead(c, g), Promised(c, s, l, r, n)
      PROVE  AnswerInv'
  <2>1. /\ hpc' = "loop" /\ request' = request /\ sent' = sent /\ response' = response
        /\ size' = size /\ failed' = failed
        /\ answer' = <<HeadWith(c, l, s)>> /\ at' = s /\ remaining' = l
    BY <1>8 DEF SendFileHead, requestVars
  <2>2. HeadWith(c, l, s) = Sending(c, s, l, 0)
    BY DEF HeadWith, Sending, PieceAt
  <2>3. at' = s + 0 /\ remaining' = l - 0 /\ 0 <= l
    BY <2>1
  <2>4. n \in Nat /\ n <= n
    BY <1>4
  <2>5. PICK m \in Nat : m = 0
    OBVIOUS
  <2>6. /\ m <= l /\ (n = 0 => m = 0)
        /\ answer' = <<Sending(c, s, l, m)>> /\ at' = s + m /\ remaining' = l - m
        /\ size' \in Nat /\ size' <= n /\ size' = n
    BY <1>3, <2>1, <2>2, <2>3, <2>4, <2>5
  <2>7. c \in Nat
    BY <1>8 DEF Promised
  <2>8. InLoop(answer', r, n, at', remaining', size', failed')
    BY <1>8, <2>6, <2>7 DEF InLoop
  <2> QED
    BY <1>1, <1>2, <1>3, <1>5, <2>1, <2>8 DEF AnswerInv, AnswerAt
<1>9. CASE RangeHeader(r) = {} /\ RangesOf(q, n) = {}
  <2>1. CASE SendFileHead(response.code, Whole(size))
    <3>1. PICK l \in Nat : l = IF n > 0 THEN n ELSE 1
      BY <1>4
    <3>2. PICK g : g = Whole(n)
      OBVIOUS
    <3>3. g.start = 0 /\ l = g.end - g.start + 1
      BY <1>4, <3>1, <3>2 DEF Whole
    <3>4. Promised(200, 0, l, r, n)
      <4>1. CASE n = 0
        BY <1>9, <3>1, <4>1 DEF Promised
      <4>2. CASE n # 0
        <5>1. l = n /\ l > 0 /\ 0 + l <= n
          BY <1>4, <3>1, <4>2
        <5>2. Wanted(r, n) = Span(0, l)
          BY <1>9, <5>1 DEF Wanted, Span
        <5> QED
          BY <1>9, <5>1, <5>2 DEF Promised
      <4> QED
        BY <4>1, <4>2
    <3>5. SendFileHead(200, g)
      BY <1>3, <2>1, <3>2
    <3>6. PICK c, s \in Nat : c = 200 /\ s = 0
      OBVIOUS
    <3>7. s = g.start /\ SendFileHead(c, g) /\ Promised(c, s, l, r, n)
      BY <3>3, <3>4, <3>5, <3>6
    <3> QED
      BY <1>8, <3>3, <3>7
  <2> QED
    BY <1>3, <1>5, <1>7, <1>9, <2>1 DEF sendResponseFile
<1>10. CASE RangeHeader(r) # {} /\ \E g : RangesOf(q, n) = {g} /\ Satisfies(g, r, n)
  <2>1. PICK g : RangesOf(q, n) = {g} /\ Satisfies(g, r, n)
    BY <1>10
  <2>2. CASE NotSatisfiable(g, n) /\ SendPage(416)
    <3>1. Wanted(r, n) = {}
      BY <2>1, <2>2 DEF Satisfies
    <3>2. hpc' = "closed" /\ request' = request /\ sent' = sent /\ response' = response
      BY <2>2 DEF SendPage, SendEnds, requestVars
    <3>3. PICK data : answer' = Append(answer, Followed(HeadWith(416, 1, 0), data))
      BY <2>2 DEF SendPage
    <3>4. answer'[1].code = 416
      <4>1. PICK h : h = Followed(HeadWith(416, 1, 0), data)
        OBVIOUS
      <4>2. h.code = 416
        BY <4>1 DEF Followed, HeadWith
      <4>3. answer' = <<h>>
        BY <1>3, <3>3, <4>1
      <4> QED
        BY <4>2, <4>3
    <3>5. Ended(answer'[1], r, n, failed')
      BY <1>10, <3>1, <3>4 DEF Ended, Refused
    <3> QED
      BY <1>1, <1>2, <1>3, <1>5, <3>2, <3>5 DEF AnswerInv, AnswerAt
  <2>3. CASE ~NotSatisfiable(g, n) /\ SendFileHead(206, g)
    <3>1. /\ g.start \in Nat /\ g.end \in Nat /\ g.start <= g.end /\ g.end < n
          /\ Wanted(r, n) = g.start .. g.end
      BY <2>1, <2>3 DEF Satisfies
    <3>2. PICK s \in Nat, e \in Nat : s = g.start /\ e = g.end
      BY <3>1
    <3>3. PICK l \in Nat : l = e - s + 1 /\ l > 0 /\ s + l <= n /\ e = s + l - 1
      <4>1. e - s + 1 \in Nat /\ e - s + 1 > 0 /\ s + (e - s + 1) <= n /\ e = s + (e - s + 1) - 1
        BY <1>4, <3>1, <3>2
      <4> QED
        BY <4>1
    <3>4. Wanted(r, n) = Span(s, l)
      BY <3>1, <3>2, <3>3 DEF Span
    <3>5. PICK c : c = 206
      OBVIOUS
    <3>6. Promised(c, s, l, r, n)
      BY <1>10, <3>3, <3>4, <3>5 DEF Promised
    <3>7. s = g.start /\ l = g.end - g.start + 1 /\ SendFileHead(c, g)
      BY <2>3, <3>2, <3>3, <3>5
    <3> QED
      BY <1>8, <3>6, <3>7
  <2>4. \/ SendFails
        \/ NotSatisfiable(g, n) /\ SendPage(416)
        \/ ~NotSatisfiable(g, n) /\ SendFileHead(206, g)
    <3>1. \/ RangesOf(q, n) = {}
          \/ \E h \in RangesOf(q, n) : IF NotSatisfiable(h, n) THEN SendPage(416) ELSE SendFileHead(206, h)
          \/ SendFails
      BY <1>3, <1>5 DEF sendResponseFile
    <3> QED
      BY <2>1, <3>1
  <2> QED
    BY <1>7, <2>2, <2>3, <2>4
<1> QED
  BY <1>6, <1>9, <1>10

\* What the loop knows.
LEMMA LoopIs ==
  ASSUME Turn, hpc = "loop", NEW n, n = Tree[response.file]
  PROVE  /\ n \in Nat /\ response.file # NoFile
         /\ InLoop(answer, sent, n, at, remaining, size, failed)
<1>1. response.file # NoFile /\ InLoop(answer, sent, n, at, remaining, size, failed)
  BY DEF Turn, AnswerInv, AnswerAt
<1>2. n \in Nat
  BY <1>1 DEF Turn, AnswerInv, AnswerAt, Chosen
<1> QED
  BY <1>1, <1>2

\* The chunk, for a loop at its m-th of l characters.
LEMMA ChunkAt ==
  ASSUME ServeAssumption, NEW n \in Nat, NEW s \in Nat, NEW l \in Nat, NEW m \in Nat,
         m <= l, remaining = l - m, at = s + m, size \in Nat, size <= n
  PROVE  \E k \in Nat :
           /\ k = Chunk /\ m + k <= l
           /\ size = n /\ s + l <= n => k = Min({remaining, SEND_RECV_BUFFER_SIZE})
           /\ k = Min({remaining, SEND_RECV_BUFFER_SIZE}) /\ k = 0 => m = l
           /\ n = 0 => k = 0
<1>1. PICK b \in Nat : b = SEND_RECV_BUFFER_SIZE /\ b > 0
  BY DEF ServeAssumption, RequestAssumption
<1>2. PICK rem \in Nat, d \in Int : rem = l - m /\ d = size - at
  OBVIOUS
<1>3. PICK k : k = Max({0, Min({Min({rem, b}), d})})
  OBVIOUS
<1>4. /\ k \in Nat /\ k <= rem
      /\ d >= rem => k = Min({rem, b})
      /\ k = Min({rem, b}) /\ k = 0 => rem = 0
      /\ d <= 0 => k = 0
  BY <1>1, <1>3, ChunkIs
<1>5. rem = remaining
  BY <1>2
<1>6. k = Chunk
  BY <1>1, <1>2, <1>3, <1>5 DEF Chunk
<1>7. size = n /\ s + l <= n => d >= rem
  BY <1>2
<1>8. n = 0 => d <= 0
  BY <1>2
<1>9. rem = 0 => m = l
  BY <1>2
<1>10. m + k <= l
  BY <1>2, <1>4
<1> QED
  BY <1>1, <1>4, <1>5, <1>6, <1>7, <1>8, <1>9, <1>10

\* A piece, all of it or the first part of it.
LEMMA PieceSent ==
  ASSUME NEW c \in Nat, NEW s \in Nat, NEW l \in Nat, NEW m \in Nat, NEW k \in Nat, at = s + m,
         answer = <<Sending(c, s, l, m)>>, NEW j \in Nat, j = m + k
  PROVE  Followed(answer[1], PieceAt(at, k)) = Sending(c, s, l, j)
<1>1. PICK a \in Nat : a = at /\ a = s + m
  OBVIOUS
<1>2. Followed(Sending(c, s, l, m), PieceAt(a, k)) = Sending(c, s, l, j)
  BY <1>1, SendMore
<1>3. answer[1] = Sending(c, s, l, m)
  OBVIOUS
<1> QED
  BY <1>1, <1>2, <1>3

LEMMA InLoopOne ==
  ASSUME NEW ans, NEW r, NEW n, NEW a, NEW rem, NEW sz, NEW fl, InLoop(ans, r, n, a, rem, sz, fl)
  PROVE  \E c \in Nat : \E s \in Nat : \E l \in Nat : \E m \in Nat :
           /\ Promised(c, s, l, r, n)
           /\ m <= l /\ (n = 0 => m = 0)
           /\ ans = <<Sending(c, s, l, m)>>
           /\ a = s + m /\ rem = l - m
           /\ sz \in Nat /\ sz <= n /\ (~fl => sz = n)
BY DEF InLoop

LEMMA ChunkSent == ASSUME Turn, SendChunk PROVE AnswerInv'
<1>1. /\ hpc = "loop" /\ request' = request /\ sent' = sent /\ response' = response
      /\ size' = size /\ failed' = failed
      /\ Chunk > 0
      /\ answer' = <<Followed(answer[1], PieceAt(at, Chunk))>>
      /\ at' = at + Chunk /\ remaining' = remaining - Chunk
      /\ hpc' = IF Chunk < Min({remaining, SEND_RECV_BUFFER_SIZE}) THEN "closed" ELSE "loop"
  BY DEF SendChunk, requestVars
<1>2. PICK n : n = Tree[response.file]
  OBVIOUS
<1>3. n \in Nat /\ response.file # NoFile /\ InLoop(answer, sent, n, at, remaining, size, failed)
  BY <1>1, <1>2, LoopIs
<1>4. PICK c \in Nat, s \in Nat, l \in Nat, m \in Nat :
        /\ Promised(c, s, l, sent, n)
        /\ m <= l /\ (n = 0 => m = 0)
        /\ answer = <<Sending(c, s, l, m)>>
        /\ at = s + m /\ remaining = l - m
        /\ size \in Nat /\ size <= n /\ (~failed => size = n)
  BY <1>3, InLoopOne
<1>5. PICK k \in Nat :
        /\ k = Chunk /\ m + k <= l
        /\ size = n /\ s + l <= n => k = Min({remaining, SEND_RECV_BUFFER_SIZE})
        /\ n = 0 => k = 0
  BY <1>3, <1>4, ChunkAt DEF Turn
<1>6. PICK j \in Nat : j = m + k /\ j <= l
  BY <1>5
<1>7. n # 0
  BY <1>1, <1>5
<1>8. Followed(answer[1], PieceAt(at, k)) = Sending(c, s, l, j)
  BY <1>4, <1>6, PieceSent
<1>9. /\ answer' = <<Sending(c, s, l, j)>> /\ at' = s + j /\ remaining' = l - j
      /\ size' \in Nat /\ size' <= n /\ (~failed' => size' = n)
  BY <1>1, <1>4, <1>5, <1>6, <1>8
<1>10. CASE hpc' = "loop"
  <2>1. InLoop(answer', sent, n, at', remaining', size', failed')
    BY <1>4, <1>6, <1>7, <1>9 DEF InLoop
  <2> QED
    BY <1>1, <1>2, <1>3, <1>10, <2>1 DEF Turn, AnswerInv, AnswerAt
<1>11. CASE hpc' = "closed"
  <2>1. k # Min({remaining, SEND_RECV_BUFFER_SIZE})
    <3>1. Chunk < Min({remaining, SEND_RECV_BUFFER_SIZE})
      BY <1>1, <1>11
    <3> QED
      BY <1>5, <3>1
  <2>2. s + l <= n
    BY <1>4, <1>7 DEF Promised
  <2>3. failed'
    BY <1>1, <1>4, <1>5, <2>1, <2>2
  <2>4. answer'[1] = Sending(c, s, l, j)
    BY <1>9
  <2>5. Ended(answer'[1], sent, n, failed')
    BY <1>4, <1>6, <1>7, <2>3, <2>4 DEF Ended, Partly
  <2> QED
    BY <1>1, <1>2, <1>11, <2>5 DEF Turn, AnswerInv, AnswerAt
<1> QED
  BY <1>1, <1>10, <1>11

LEMMA LoopDone == ASSUME Turn, SendDone PROVE AnswerInv'
<1>1. /\ hpc = "loop" /\ hpc' = "closed" /\ request' = request /\ sent' = sent /\ response' = response
      /\ answer' = answer /\ failed' = failed
      /\ remaining = 0 \/ Chunk = 0
  BY DEF SendDone, SendEnds, requestVars, serveVars
<1>2. PICK n : n = Tree[response.file]
  OBVIOUS
<1>3. n \in Nat /\ response.file # NoFile /\ InLoop(answer, sent, n, at, remaining, size, failed)
  BY <1>1, <1>2, LoopIs
<1>4. PICK c \in Nat, s \in Nat, l \in Nat, m \in Nat :
        /\ Promised(c, s, l, sent, n)
        /\ m <= l /\ (n = 0 => m = 0)
        /\ answer = <<Sending(c, s, l, m)>>
        /\ at = s + m /\ remaining = l - m
        /\ size \in Nat /\ size <= n /\ (~failed => size = n)
  BY <1>3, InLoopOne
<1>5. PICK k \in Nat :
        /\ k = Chunk
        /\ size = n /\ s + l <= n => k = Min({remaining, SEND_RECV_BUFFER_SIZE})
        /\ k = Min({remaining, SEND_RECV_BUFFER_SIZE}) /\ k = 0 => m = l
  BY <1>3, <1>4, ChunkAt DEF Turn
<1>6. ~failed => m = l \/ n = 0
  <2>1. ASSUME ~failed, n # 0 PROVE m = l
    <3>1. s + l <= n
      BY <1>4, <2>1 DEF Promised
    <3>2. k = 0 => m = l
      BY <1>4, <1>5, <2>1, <3>1
    <3>3. remaining = 0 => m = l
      BY <1>4
    <3> QED
      BY <1>1, <1>5, <3>2, <3>3
  <2> QED
    BY <2>1
<1>7. answer'[1] = Sending(c, s, l, m)
  BY <1>1, <1>4
<1>8. Ended(answer'[1], sent, n, failed')
  BY <1>1, <1>4, <1>6, <1>7 DEF Ended, Partly
<1> QED
  BY <1>1, <1>2, <1>8 DEF Turn, AnswerInv, AnswerAt

LEMMA SendBreaks == ASSUME Turn, ChunkFails PROVE AnswerInv'
<1>1. /\ hpc = "loop" /\ hpc' = "closed" /\ request' = request /\ sent' = sent /\ response' = response
      /\ failed' = TRUE
      /\ Chunk > 0
  BY DEF ChunkFails, SendEnds, requestVars
<1>2. PICK n : n = Tree[response.file]
  OBVIOUS
<1>3. n \in Nat /\ response.file # NoFile /\ InLoop(answer, sent, n, at, remaining, size, failed)
  BY <1>1, <1>2, LoopIs
<1>4. PICK c \in Nat, s \in Nat, l \in Nat, m \in Nat :
        /\ Promised(c, s, l, sent, n)
        /\ m <= l /\ (n = 0 => m = 0)
        /\ answer = <<Sending(c, s, l, m)>>
        /\ at = s + m /\ remaining = l - m
        /\ size \in Nat /\ size <= n /\ (~failed => size = n)
  BY <1>3, InLoopOne
<1>5. PICK k \in Nat : k = Chunk /\ m + k <= l /\ (n = 0 => k = 0)
  BY <1>3, <1>4, ChunkAt DEF Turn
<1>6. PICK i \in 0 .. k : answer' = <<Followed(answer[1], PieceAt(at, i))>>
  BY <1>5 DEF ChunkFails
<1>7. PICK j \in Nat : j = m + i /\ j <= l
  BY <1>5
<1>8. Followed(answer[1], PieceAt(at, i)) = Sending(c, s, l, j)
  <2>1. PICK d \in Nat : d = i
    OBVIOUS
  <2>2. Followed(answer[1], PieceAt(at, d)) = Sending(c, s, l, j)
    BY <1>4, <1>7, <2>1, PieceSent
  <2> QED
    BY <2>1, <2>2
<1>9. answer'[1] = Sending(c, s, l, j)
  BY <1>6, <1>8
<1>10. n # 0
  BY <1>1, <1>5
<1>11. Ended(answer'[1], sent, n, failed')
  BY <1>1, <1>4, <1>7, <1>9, <1>10 DEF Ended, Partly
<1> QED
  BY <1>1, <1>2, <1>11 DEF Turn, AnswerInv, AnswerAt

LEMMA ReadBreaks == ASSUME Turn, ReadFails PROVE AnswerInv'
<1>1. /\ hpc = "loop" /\ hpc' = "closed" /\ request' = request /\ sent' = sent /\ response' = response
      /\ failed' = TRUE
      /\ answer' = Append(answer, Followed(HeadWith(500, 1, 0), <<HTML>>))
  BY DEF ReadFails, SendEnds, requestVars
<1>2. PICK n : n = Tree[response.file]
  OBVIOUS
<1>3. n \in Nat /\ response.file # NoFile /\ InLoop(answer, sent, n, at, remaining, size, failed)
  BY <1>1, <1>2, LoopIs
<1>4. PICK c \in Nat, s \in Nat, l \in Nat, m \in Nat :
        /\ Promised(c, s, l, sent, n)
        /\ m <= l /\ (n = 0 => m = 0)
        /\ answer = <<Sending(c, s, l, m)>>
  BY <1>3, InLoopOne
<1>5. answer'[1] = Sending(c, s, l, m)
  BY <1>1, <1>4
<1>6. Ended(answer'[1], sent, n, failed')
  BY <1>1, <1>4, <1>5 DEF Ended, Partly
<1> QED
  BY <1>1, <1>2, <1>6 DEF Turn, AnswerInv, AnswerAt

LEMMA Truncated == ASSUME Turn, Truncate PROVE AnswerInv'
<1>1. /\ hpc = "loop" /\ hpc' = "loop" /\ request' = request /\ sent' = sent /\ response' = response
      /\ answer' = answer /\ at' = at /\ remaining' = remaining
      /\ failed' = TRUE
      /\ size' \in 0 .. size - 1
  BY DEF Truncate, recvVars, requestVars
<1>2. PICK n : n = Tree[response.file]
  OBVIOUS
<1>3. n \in Nat /\ response.file # NoFile /\ InLoop(answer, sent, n, at, remaining, size, failed)
  BY <1>1, <1>2, LoopIs
<1>4. PICK c \in Nat, s \in Nat, l \in Nat, m \in Nat :
        /\ Promised(c, s, l, sent, n)
        /\ m <= l /\ (n = 0 => m = 0)
        /\ answer = <<Sending(c, s, l, m)>>
        /\ at = s + m /\ remaining = l - m
        /\ size \in Nat /\ size <= n /\ (~failed => size = n)
  BY <1>3, InLoopOne
<1>5. size' \in Nat /\ size' <= n
  BY <1>1, <1>3, <1>4
<1>6. InLoop(answer', sent, n, at', remaining', size', failed')
  BY <1>1, <1>4, <1>5 DEF InLoop
<1> QED
  BY <1>1, <1>2, <1>3, <1>6 DEF Turn, AnswerInv, AnswerAt

FileInv == ReadInv /\ (Asked => AnswerInv)

LEMMA FileInvBegins == ASSUME ServeAssumption, ServeInit PROVE FileInv
<1>1. ReadInv
  BY ReadInvBegins DEF ServeAssumption, ServeInit
<1>2. hpc = "recv" /\ answer = <<>> /\ response.file = NoFile
  BY DEF ServeInit, RequestInit, Page
<1>3. AnswerInv
  BY <1>2 DEF AnswerInv, AnswerAt
<1> QED
  BY <1>1, <1>3 DEF FileInv

\* Nothing after the request reads on.
LEMMA ReadStays == ASSUME ServeAssumption, ReadInv, [ServeNext]_httpVars PROVE ReadInv' /\ sent' = sent
<1>1. CASE [RequestNext]_recvVars
  <2>1. ReadInv'
    BY <1>1, ReadInvStays DEF ServeAssumption
  <2>2. sent' = sent
    BY <1>1 DEF RequestNext, Recv, RecvEnds, recvVars, requestVars
  <2> QED
    BY <2>1, <2>2
<1>2. CASE UNCHANGED requestVars
  <2>1. sent' = sent /\ left' = left /\ request' = request
    BY <1>2 DEF requestVars
  <2> QED
    BY <2>1 DEF ReadInv, Received, ReceivedTo, Remains, Wire, HeadOf, HeaderLine, WellFormed
<1>3. [RequestNext]_recvVars \/ UNCHANGED requestVars
  BY DEF ServeNext, httpVars, recvVars, createResponseForRequest, sendResponseBody, SendPage, SendFails,
         FileFails, sendResponseFile, SendFileHead, SendChunk, SendDone, ChunkFails, ReadFails, Truncate
<1> QED
  BY <1>1, <1>2, <1>3

LEMMA FileInvStays == ASSUME ServeAssumption, FileInv, [ServeNext]_httpVars PROVE FileInv'
<1>1. ReadInv' /\ sent' = sent
  BY ReadStays DEF FileInv
<1>2. Asked' <=> Asked
  <2>1. PICK r : r = sent /\ r = sent'
    BY <1>1
  <2>2. Asked <=> WellFormed(r) /\ RangeClear(r)
    BY <2>1 DEF Asked
  <2>3. Asked' <=> WellFormed(r) /\ RangeClear(r)
    BY <2>1 DEF Asked
  <2> QED
    BY <2>2, <2>3
<1>3. ASSUME Asked PROVE AnswerInv'
  <2>1. Turn
    BY <1>3 DEF Turn, FileInv
  <2>2. CASE RequestNext /\ UNCHANGED serveVars
    BY <2>1, <2>2, ReadMore
  <2>3. CASE createResponseForRequest
    BY <2>1, <2>3, Looked
  <2>4. CASE sendResponseBody
    BY <2>1, <2>4, Paged
  <2>5. CASE FileFails
    BY <2>1, <2>5, NotRead
  <2>6. CASE sendResponseFile
    BY <2>1, <2>6, HeadSent
  <2>7. CASE SendChunk
    BY <2>1, <2>7, ChunkSent
  <2>8. CASE SendDone
    BY <2>1, <2>8, LoopDone
  <2>9. CASE ChunkFails
    BY <2>1, <2>9, SendBreaks
  <2>10. CASE ReadFails
    BY <2>1, <2>10, ReadBreaks
  <2>11. CASE Truncate
    BY <2>1, <2>11, Truncated
  <2>12. CASE UNCHANGED httpVars
    <3>1. UNCHANGED recvVars /\ UNCHANGED serveVars
      BY <2>12 DEF httpVars
    <3> QED
      BY <2>1, <3>1, ReadMore
  <2> QED
    BY <2>2, <2>3, <2>4, <2>5, <2>6, <2>7, <2>8, <2>9, <2>10, <2>11, <2>12 DEF ServeNext
<1> QED
  BY <1>1, <1>2, <1>3 DEF FileInv

LEMMA FileInvExact == ASSUME ServeAssumption, FileInv PROVE FileExact
<1>1. SUFFICES ASSUME Asked, FileAnswered
               PROVE  LET n == Tree[response.file]
                          wanted == Wanted(sent, n)
                          contents == InOrder(wanted)
                          got == answer[1]
                          named == NamedBy(request.path, DecodedPath(sent))
                      IN  /\ response.file \in {named, IndexOf(named)}
                          /\ got.code = 416 <=> RangeHeader(sent) # {} /\ wanted = {}
                          /\ got.code # 416 =>
                               /\ got.code = IF RangeHeader(sent) = {} THEN 200 ELSE 206
                               /\ IsPrefix(got.data, contents)
                               /\ wanted # {} => got.length = Len(contents) /\ got.first = contents[1]
                               /\ hpc = "closed" /\ ~failed => got.data = contents
  BY DEF FileExact, Asked, Wanted, NamedBy
<1>2. AnswerInv /\ Answers(answer, response)
  BY <1>1 DEF FileInv, FileAnswered, Answers
<1>3. PICK n, got, fl : n = Tree[response.file] /\ got = answer[1] /\ fl = (failed \/ hpc # "closed")
  OBVIOUS
<1>4. Chosen(response.file, request.path, DecodedPath(sent)) /\ n \in Nat
  BY <1>2, <1>3 DEF AnswerInv, AnswerAt, Answers, Chosen
<1>5. Ended(got, sent, n, fl)
  <2>1. CASE hpc = "closed"
    BY <1>2, <1>3, <2>1 DEF AnswerInv, AnswerAt, Ended, Partly
  <2>2. CASE hpc = "loop"
    <3>1. InLoop(answer, sent, n, at, remaining, size, failed)
      BY <1>2, <1>3, <2>2 DEF AnswerInv, AnswerAt
    <3>2. PICK c \in Nat, s \in Nat, l \in Nat, m \in Nat :
            /\ Promised(c, s, l, sent, n)
            /\ m <= l /\ (n = 0 => m = 0)
            /\ answer = <<Sending(c, s, l, m)>>
      BY <3>1, InLoopOne
    <3>3. got = Sending(c, s, l, m)
      BY <1>3, <3>2
    <3> QED
      BY <1>3, <2>2, <3>2, <3>3 DEF Ended, Partly
  <2>3. hpc \in {"loop", "closed"}
    BY <1>2 DEF AnswerInv, AnswerAt, Answers
  <2> QED
    BY <2>1, <2>2, <2>3
<1>6. PICK r, contents : r = sent /\ contents = InOrder(Wanted(r, n))
  OBVIOUS
<1>7. /\ got.code = 416 <=> RangeHeader(r) # {} /\ Wanted(r, n) = {}
      /\ got.code # 416 =>
           /\ got.code = IF RangeHeader(r) = {} THEN 200 ELSE 206
           /\ IsPrefix(got.data, contents)
           /\ Wanted(r, n) # {} => got.length = Len(contents) /\ got.first = contents[1]
           /\ ~fl => got.data = contents
  BY <1>4, <1>5, <1>6, EndedExact
<1>8. response.file \in {NamedBy(request.path, DecodedPath(sent)), IndexOf(NamedBy(request.path, DecodedPath(sent)))}
  BY <1>4 DEF Chosen
<1> QED
  BY <1>3, <1>6, <1>7, <1>8

(* A client that asks for a file, or for one range of it, gets exactly     *)
(* those characters of the file its path names, with the head that belongs *)
(* to them, or 416; if something fails or the file shrinks meanwhile, the  *)
(* first part of them: createResponseForRequest, the lookup of the file,   *)
(* the range and the loop of sendResponseFile, after requestParse.         *)
THEOREM FileSent == ASSUME ServeAssumption PROVE ServeSpec => []FileExact
<1>1. ServeInit => FileInv
  BY FileInvBegins
<1>2. FileInv /\ [ServeNext]_httpVars => FileInv'
  BY FileInvStays
<1>3. FileInv => FileExact
  BY FileInvExact
<1> QED
  BY <1>1, <1>2, <1>3, PTL DEF ServeSpec

=============================================================================
