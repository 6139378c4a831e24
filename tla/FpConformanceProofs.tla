-------------------------- MODULE FpConformanceProofs --------------------------
(***************************************************************************)
(* What a scan says of the sources, proved for any sources and limits.     *)
(* The loops of strip_noise and long_fn are functions over the positions   *)
(* of what they read; Runs says that there is one, and Rising that a set   *)
(* of positions that is closed under the next one holds them all.          *)
(***************************************************************************)
EXTENDS FpConformance, TLAPS, FiniteSetTheorems, SequenceTheorems, WellFoundedInduction

-----------------------------------------------------------------------------
(* Positions and loops *)

Less == OpToRel(<, Nat)

LEMMA LessDef == \A m, n \in Nat : <<m, n>> \in Less <=> m < n
BY DEF Less, OpToRel

LEMMA LeastOf ==
    ASSUME NEW K, K \subseteq Nat, K # {}
    PROVE  \E k \in K : \A j \in K : k <= j
<1>1. IsWellFoundedOn(Less, Nat)
  BY NatLessThanWellFounded DEF Less
<1>2. PICK k \in K : \A j \in K : ~(<<j, k>> \in Less)
  BY <1>1, WFMin
<1>3. ASSUME NEW j \in K
      PROVE  k <= j
  <2>1. k \in Nat /\ j \in Nat
    OBVIOUS
  <2>2. ~(j < k)
    BY <1>2, <2>1, LessDef
  <2> QED BY <2>1, <2>2
<1> QED BY <1>3

LEMMA MinIsLeast ==
    ASSUME NEW K, K \subseteq Nat, K # {}
    PROVE  Min(K) \in K /\ \A k \in K : Min(K) <= k
<1>1. \E m \in K : \A k \in K : m =< k
  BY LeastOf
<1> QED BY <1>1, Zenon DEF Min

LEMMA Rising ==
    ASSUME NEW L \in Nat, NEW P, 0 \in P,
           \A n \in 1..L : n - 1 \in P => n \in P
    PROVE  \A n \in 0..L : n \in P
<1> SUFFICES ASSUME (0..L) \ P # {} PROVE FALSE
  OBVIOUS
<1>1. (0..L) \ P \subseteq Nat
  OBVIOUS
<1>2. PICK k \in (0..L) \ P : \A j \in (0..L) \ P : k <= j
  BY <1>1, LeastOf
<1>3. k \in 1..L /\ k - 1 \in 0..L /\ ~(k <= k - 1)
  BY <1>2
<1>4. k - 1 \in P
  BY <1>2, <1>3
<1> QED BY <1>2, <1>3, <1>4

\* f goes through the elements of seq from what is there before the first, in S.
Goes(f, S, first, step, seq) ==
    /\ f \in [0..Len(seq) -> S] /\ f[0] = first
    /\ \A n \in 1..Len(seq) : f[n] = step[<<f[n - 1], seq[n]>>]

\* g takes the same steps, as far as it is in S.
Joins(g, S, first, step, seq) ==
    /\ g[0] = first
    /\ \A n \in 1..Len(seq) : g[n - 1] \in S => g[n] = step[<<g[n - 1], seq[n]>>]

\* A loop whose steps stay in S has a function from the positions into S.
LEMMA Runs ==
    ASSUME NEW S, NEW E, NEW seq \in Seq(E), NEW first \in S, NEW step \in [S \X E -> S]
    PROVE  \E f : Goes(f, S, first, step, seq)
<1> DEFINE L == Len(seq)
           IsRun(m, f) ==
               /\ f \in [0..m -> S] /\ f[0] = first
               /\ \A n \in 1..m : f[n] = step[<<f[n - 1], seq[n]>>]
           P == {m \in 0..L : \E f : IsRun(m, f)}
<1>1. L \in Nat
  OBVIOUS
<1>2. 0 \in P
  <2>1. IsRun(0, [n \in 0..0 |-> first])
    OBVIOUS
  <2> HIDE DEF IsRun
  <2> QED BY <1>1, <2>1
<1>3. ASSUME NEW m \in 1..L, m - 1 \in P
      PROVE  m \in P
  <2>1. PICK f : IsRun(m - 1, f)
    BY <1>3
  <2> DEFINE g == [n \in 0..m |-> IF n = m THEN step[<<f[m - 1], seq[m]>>] ELSE f[n]]
  <2>2. f[m - 1] \in S /\ seq[m] \in E
    BY <2>1
  <2>3. g \in [0..m -> S]
    <3>1. step[<<f[m - 1], seq[m]>>] \in S
      BY <2>2
    <3>2. \A n \in 0..m : n # m => f[n] \in S
      BY <2>1
    <3> QED BY <3>1, <3>2
  <2>4. g[0] = first
    BY <2>1
  <2>5. ASSUME NEW n \in 1..m
        PROVE  g[n] = step[<<g[n - 1], seq[n]>>]
    <3>1. n - 1 \in 0..m /\ n - 1 # m /\ g[n - 1] = f[n - 1]
      OBVIOUS
    <3>2. CASE n = m
      BY <3>1, <3>2
    <3>3. CASE n # m
      <4>1. n \in 1..(m - 1) /\ g[n] = f[n]
        BY <3>3
      <4>2. f[n] = step[<<f[n - 1], seq[n]>>]
        BY <2>1, <4>1
      <4> HIDE DEF g
      <4> QED BY <3>1, <4>1, <4>2
    <3> QED BY <3>2, <3>3
  <2>6. IsRun(m, g)
    <3> HIDE DEF g
    <3> QED BY <2>3, <2>4, <2>5
  <2> HIDE DEF IsRun
  <2> QED BY <2>6
<1>4. L \in P
  <2> HIDE DEF P
  <2>1. \A n \in 0..L : n \in P
    BY <1>1, <1>2, <1>3, Rising
  <2> QED BY <1>1, <2>1
<1> QED BY <1>4 DEF Goes

\* Two that take the same steps end in the same place.
LEMMA SameEnd ==
    ASSUME NEW S, NEW E, NEW seq \in Seq(E), NEW first, NEW step, NEW f, Goes(f, S, first, step, seq),
           NEW g, Joins(g, S, first, step, seq)
    PROVE  f[Len(seq)] = g[Len(seq)]
<1> DEFINE L == Len(seq)
           P == {n \in 0..L : f[n] = g[n]}
<1>1. L \in Nat
  OBVIOUS
<1>2. ASSUME NEW n \in 1..L, f[n - 1] = g[n - 1]
      PROVE  f[n] = g[n]
  <2>1. n - 1 \in 0..L
    BY <1>1
  <2>2. f[n - 1] \in S /\ f[n] = step[<<f[n - 1], seq[n]>>]
    BY <2>1 DEF Goes
  <2> QED BY <1>2, <2>2 DEF Joins
<1>3. \A n \in 0..L : n \in P
  <2>1. 0 \in P /\ \A n \in 1..L : n - 1 \in P => n \in P
    BY <1>1, <1>2 DEF Goes, Joins
  <2> HIDE DEF P
  <2> QED BY <1>1, <2>1, Rising
<1> QED BY <1>1, <1>3 DEF Goes

-----------------------------------------------------------------------------
(* The loops over a line *)

Tokens == STRING
Code == Seq(Tokens)
BlockStates == [code : Code, block : BOOLEAN]
StringStates == [code : Code, rest : Code, inside : BOOLEAN]
LexStates == [nests : BOOLEAN, in : {"code", "block", "line", "string"}, depth : Nat, code : Code,
              tame : BOOLEAN]
FirstRead(nests, depth) ==
    [nests |-> nests, in |-> IF depth > 0 THEN "block" ELSE "code", depth |-> depth,
     code |-> <<>>, tame |-> TRUE]

\* There is a run of RemoveBlocks over a line.
LEMMA BlocksRun ==
    ASSUME NEW line \in Code, NEW block \in BOOLEAN
    PROVE  \E f \in [0..Len(line) -> BlockStates] :
               /\ f[0] = [code |-> <<>>, block |-> block]
               /\ \A n \in 1..Len(line) : f[n] = BlockStep(f[n - 1], line[n])
               /\ RemoveBlocks(block, line) = f[Len(line)]
<1> DEFINE L == Len(line)
           first == [code |-> <<>>, block |-> block]
           step == [p \in BlockStates \X Tokens |-> BlockStep(p[1], p[2])]
           IsRun(f) == f = [n \in 0..L |-> IF n = 0 THEN first ELSE BlockStep(f[n - 1], line[n])]
           g == CHOOSE g : IsRun(g)
<1>1. first \in BlockStates
  BY DEF BlockStates, Code
<1>2. ASSUME NEW s \in BlockStates, NEW t \in Tokens
      PROVE  BlockStep(s, t) \in BlockStates
  <2>1. s.code \in Code /\ Append(s.code, t) \in Code
    BY DEF BlockStates, Code
  <2> QED BY <2>1 DEF BlockStates, BlockStep
<1>3. step \in [BlockStates \X Tokens -> BlockStates]
  BY <1>2
<1>4. \A s \in BlockStates, t \in Tokens : step[<<s, t>>] = BlockStep(s, t)
  OBVIOUS
<1>5. RemoveBlocks(block, line) = g[L]
  BY DEF RemoveBlocks, Loop
<1> HIDE DEF step, first
<1>6. line \in Seq(Tokens) /\ L \in Nat /\ \A n \in 1..L : line[n] \in Tokens
  BY DEF Code
<1>7. PICK f : Goes(f, BlockStates, first, step, line)
  BY <1>1, <1>3, <1>6, Runs
<1>8. f \in [0..L -> BlockStates] /\ f[0] = first
      /\ \A n \in 1..L : f[n] = BlockStep(f[n - 1], line[n])
  <2>1. f \in [0..L -> BlockStates] /\ f[0] = first
        /\ \A n \in 1..L : f[n] = step[<<f[n - 1], line[n]>>]
    BY <1>7 DEF Goes
  <2>2. \A n \in 1..L : f[n - 1] \in BlockStates
    BY <1>6, <2>1
  <2> QED BY <1>4, <1>6, <2>1, <2>2
<1>9. IsRun(f)
  BY <1>6, <1>8
<1>10. IsRun(g)
  BY <1>9
<1> HIDE DEF g
<1>11. g[0] = first /\ \A n \in 1..L : g[n] = BlockStep(g[n - 1], line[n])
  BY <1>6, <1>10
<1>12. f[L] = g[L]
  <2>1. Joins(g, BlockStates, first, step, line)
    BY <1>4, <1>6, <1>11 DEF Joins
  <2> QED BY <1>6, <1>7, <2>1, SameEnd
<1> QED BY <1>5, <1>8, <1>12 DEF first

\* There is a run of RemoveStrings over a line.
LEMMA StringsRun ==
    ASSUME NEW line \in Code
    PROVE  \E f \in [0..Len(line) -> StringStates] :
               /\ f[0] = [code |-> <<>>, rest |-> <<>>, inside |-> FALSE]
               /\ \A n \in 1..Len(line) : f[n] = StringStep(f[n - 1], line[n])
               /\ Strings(line) = f[Len(line)]
<1> DEFINE L == Len(line)
           first == [code |-> <<>>, rest |-> <<>>, inside |-> FALSE]
           step == [p \in StringStates \X Tokens |-> StringStep(p[1], p[2])]
           IsRun(f) == f = [n \in 0..L |-> IF n = 0 THEN first ELSE StringStep(f[n - 1], line[n])]
           g == CHOOSE g : IsRun(g)
<1>1. first \in StringStates
  BY DEF StringStates, Code
<1>2. ASSUME NEW s \in StringStates, NEW t \in Tokens
      PROVE  StringStep(s, t) \in StringStates
  <2>1. /\ s.code \in Code /\ s.rest \in Code /\ <<>> \in Code
        /\ Append(s.rest, t) \in Code /\ s.code \o s.rest \in Code
    BY DEF StringStates, Code
  <2> QED BY <2>1 DEF StringStates, StringStep
<1>3. step \in [StringStates \X Tokens -> StringStates]
  BY <1>2
<1>4. \A s \in StringStates, t \in Tokens : step[<<s, t>>] = StringStep(s, t)
  OBVIOUS
<1>5. Strings(line) = g[L]
  BY DEF Strings, Loop
<1> HIDE DEF step, first
<1>6. line \in Seq(Tokens) /\ L \in Nat /\ \A n \in 1..L : line[n] \in Tokens
  BY DEF Code
<1>7. PICK f : Goes(f, StringStates, first, step, line)
  BY <1>1, <1>3, <1>6, Runs
<1>8. f \in [0..L -> StringStates] /\ f[0] = first
      /\ \A n \in 1..L : f[n] = StringStep(f[n - 1], line[n])
  <2>1. f \in [0..L -> StringStates] /\ f[0] = first
        /\ \A n \in 1..L : f[n] = step[<<f[n - 1], line[n]>>]
    BY <1>7 DEF Goes
  <2>2. \A n \in 1..L : f[n - 1] \in StringStates
    BY <1>6, <2>1
  <2> QED BY <1>4, <1>6, <2>1, <2>2
<1>9. IsRun(f)
  BY <1>6, <1>8
<1>10. IsRun(g)
  BY <1>9
<1> HIDE DEF g
<1>11. g[0] = first /\ \A n \in 1..L : g[n] = StringStep(g[n - 1], line[n])
  BY <1>6, <1>10
<1>12. f[L] = g[L]
  <2>1. Joins(g, StringStates, first, step, line)
    BY <1>4, <1>6, <1>11 DEF Joins
  <2> QED BY <1>6, <1>7, <2>1, SameEnd
<1> QED BY <1>5, <1>8, <1>12 DEF first

\* There is a run of Lexed over a line.
LEMMA LexedRun ==
    ASSUME NEW line \in Code, NEW nests \in BOOLEAN, NEW depth \in Nat
    PROVE  \E f \in [0..Len(line) -> LexStates] :
               /\ f[0] = FirstRead(nests, depth)
               /\ \A n \in 1..Len(line) : f[n] = LexStep(f[n - 1], line[n])
               /\ Lexed(nests, depth, line) = [f[Len(line)] EXCEPT !.tame = @ /\ f[Len(line)].in # "string"]
<1> DEFINE L == Len(line)
           first == FirstRead(nests, depth)
           step == [p \in LexStates \X Tokens |-> LexStep(p[1], p[2])]
           IsRun(f) == f = [n \in 0..L |-> IF n = 0 THEN first ELSE LexStep(f[n - 1], line[n])]
           g == CHOOSE g : IsRun(g)
<1>1. first \in LexStates
  BY DEF LexStates, FirstRead, Code
<1>2. ASSUME NEW s \in LexStates, NEW t \in Tokens
      PROVE  LexStep(s, t) \in LexStates
  <2>1. s.code \in Code /\ Append(s.code, t) \in Code
    BY DEF LexStates, Code
  <2>2. CASE s.in = "code"
    BY <2>1, <2>2 DEF LexStates, LexStep, Open, Slashes, ColonSlashes, Quote
  <2>3. CASE s.in = "block"
    <3>1. /\ s.depth + 1 \in Nat
          /\ s.depth > 1 => s.depth - 1 \in Nat
      BY DEF LexStates
    <3> QED BY <2>3, <3>1 DEF LexStates, LexStep, Open, Close
  <2>4. CASE s.in \in {"string", "line"}
    BY <2>4 DEF LexStates, LexStep, Open, Slashes, Quote
  <2> QED BY <2>2, <2>3, <2>4 DEF LexStates
<1>3. step \in [LexStates \X Tokens -> LexStates]
  BY <1>2
<1>4. \A s \in LexStates, t \in Tokens : step[<<s, t>>] = LexStep(s, t)
  OBVIOUS
<1>5. Lexed(nests, depth, line) = [g[L] EXCEPT !.tame = @ /\ g[L].in # "string"]
  BY DEF Lexed, Loop, FirstRead
<1> HIDE DEF step, first
<1>6. line \in Seq(Tokens) /\ L \in Nat /\ \A n \in 1..L : line[n] \in Tokens
  BY DEF Code
<1>7. PICK f : Goes(f, LexStates, first, step, line)
  BY <1>1, <1>3, <1>6, Runs
<1>8. f \in [0..L -> LexStates] /\ f[0] = first
      /\ \A n \in 1..L : f[n] = LexStep(f[n - 1], line[n])
  <2>1. f \in [0..L -> LexStates] /\ f[0] = first
        /\ \A n \in 1..L : f[n] = step[<<f[n - 1], line[n]>>]
    BY <1>7 DEF Goes
  <2>2. \A n \in 1..L : f[n - 1] \in LexStates
    BY <1>6, <2>1
  <2> QED BY <1>4, <1>6, <2>1, <2>2
<1>9. IsRun(f)
  BY <1>6, <1>8
<1>10. IsRun(g)
  BY <1>9
<1> HIDE DEF g
<1>11. g[0] = first /\ \A n \in 1..L : g[n] = LexStep(g[n - 1], line[n])
  BY <1>6, <1>10
<1>12. f[L] = g[L]
  <2>1. Joins(g, LexStates, first, step, line)
    BY <1>4, <1>6, <1>11 DEF Joins
  <2> QED BY <1>6, <1>7, <2>1, SameEnd
<1> QED BY <1>5, <1>8, <1>12 DEF first

LEMMA CommentFits ==
    ASSUME NEW line \in Code
    PROVE  RemoveLineComment(line) \in Code
<1> DEFINE marks == {i \in DOMAIN line : line[i] = Slashes}
<1>1. CASE marks = {}
  BY <1>1 DEF RemoveLineComment
<1>2. CASE marks # {}
  <2>1. marks \subseteq 1..Len(line) /\ marks \subseteq Nat
    BY DEF Code
  <2>2. RemoveLineComment(line) = SubSeq(line, 1, Min(marks) - 1)
    BY <1>2 DEF RemoveLineComment
  <2> HIDE DEF marks
  <2>3. PICK k \in 1..Len(line) : k = Min(marks)
    BY <1>2, <2>1, MinIsLeast
  <2>4. k - 1 \in 1..Len(line) \/ k - 1 < 1
    BY <2>3 DEF Code
  <2>5. SubSeq(line, 1, k - 1) \in Code
    BY <2>3, <2>4, SubSeqProperties DEF Code
  <2> QED BY <2>2, <2>3, <2>5
<1> QED BY <1>1, <1>2

LEMMA StringsFit ==
    ASSUME NEW line \in Code
    PROVE  Strings(line) \in StringStates /\ RemoveStrings(line) \in Code
<1>1. Strings(line) \in StringStates
  BY StringsRun DEF Code
<1>2. Strings(line).code \in Code /\ Strings(line).rest \in Code
  BY <1>1 DEF StringStates
<1> QED BY <1>1, <1>2 DEF RemoveStrings, Code

LEMMA BlocksFit ==
    ASSUME NEW line \in Code, NEW block \in BOOLEAN
    PROVE  RemoveBlocks(block, line) \in BlockStates
<1>1. PICK f \in [0..Len(line) -> BlockStates] : RemoveBlocks(block, line) = f[Len(line)]
  BY BlocksRun
<1> QED BY <1>1 DEF Code

LEMMA LexedFits ==
    ASSUME NEW line \in Code, NEW nests \in BOOLEAN, NEW depth \in Nat
    PROVE  Lexed(nests, depth, line) \in LexStates
<1>1. PICK f \in [0..Len(line) -> LexStates] :
          /\ f[0] = FirstRead(nests, depth)
          /\ \A n \in 1..Len(line) : f[n] = LexStep(f[n - 1], line[n])
          /\ Lexed(nests, depth, line) = [f[Len(line)] EXCEPT !.tame = @ /\ f[Len(line)].in # "string"]
  BY LexedRun
<1>2. f[Len(line)] \in LexStates
  BY DEF Code
<1> QED BY <1>1, <1>2 DEF LexStates

-----------------------------------------------------------------------------
(* The loops over the lines of a file *)

Texts == Seq(Code)
NoiseStates == [masked : Texts, block : BOOLEAN]
ReadStates == [nests : BOOLEAN, code : Texts, depth : Nat, tame : BOOLEAN]
BodyStates == [line : Nat, open : Nat, depth : Int, found : SUBSET Nat]

\* What is left of a line.
Mask(block, line) == RemoveStrings(RemoveLineComment(RemoveBlocks(block, line).code))

LEMMA MaskFits ==
    ASSUME NEW line \in Code, NEW block \in BOOLEAN
    PROVE  Mask(block, line) \in Code
<1>1. RemoveBlocks(block, line).code \in Code
  BY BlocksFit DEF BlockStates
<1> QED BY <1>1, CommentFits, StringsFit DEF Mask

LEMMA BracesFit ==
    ASSUME NEW line \in Code
    PROVE  Braces(line) \in Int
<1> DEFINE opened == {i \in DOMAIN line : line[i] \in {Fn, "{"}}
           closed == {i \in DOMAIN line : line[i] = "}"}
<1>1. IsFiniteSet(1..Len(line)) /\ DOMAIN line = 1..Len(line)
  BY FS_Interval DEF Code
<1>2. IsFiniteSet(opened) /\ IsFiniteSet(closed)
  BY <1>1, FS_Subset
<1>3. Cardinality(opened) \in Nat /\ Cardinality(closed) \in Nat
  BY <1>2, FS_CardinalityType
<1>4. Braces(line) = Cardinality(opened) - Cardinality(closed)
  BY DEF Braces
<1> HIDE DEF opened, closed
<1> QED BY <1>3, <1>4

\* There is a run of strip_noise over a file.
LEMMA NoiseRun ==
    ASSUME NEW lines \in Texts
    PROVE  \E f \in [0..Len(lines) -> NoiseStates] :
               /\ f[0] = [masked |-> <<>>, block |-> FALSE]
               /\ \A n \in 1..Len(lines) : f[n] = NoiseStep(f[n - 1], lines[n])
               /\ strip_noise(lines) = f[Len(lines)].masked
<1> DEFINE L == Len(lines)
           first == [masked |-> <<>>, block |-> FALSE]
           step == [p \in NoiseStates \X Code |-> NoiseStep(p[1], p[2])]
           IsRun(f) == f = [n \in 0..L |-> IF n = 0 THEN first ELSE NoiseStep(f[n - 1], lines[n])]
           g == CHOOSE g : IsRun(g)
<1>1. first \in NoiseStates
  BY DEF NoiseStates, Texts
<1>2. ASSUME NEW s \in NoiseStates, NEW t \in Code
      PROVE  NoiseStep(s, t) \in NoiseStates
  <2>1. /\ s.masked \in Texts /\ s.block \in BOOLEAN
        /\ RemoveBlocks(s.block, t).block \in BOOLEAN
    BY BlocksFit DEF NoiseStates, BlockStates
  <2>2. Append(s.masked, Mask(s.block, t)) \in Texts
    BY <2>1, MaskFits DEF Texts
  <2> QED BY <2>1, <2>2 DEF NoiseStates, NoiseStep, Mask
<1>3. step \in [NoiseStates \X Code -> NoiseStates]
  BY <1>2
<1>4. \A s \in NoiseStates, t \in Code : step[<<s, t>>] = NoiseStep(s, t)
  OBVIOUS
<1>5. strip_noise(lines) = g[L].masked
  BY DEF strip_noise, Loop
<1> HIDE DEF step, first
<1>6. lines \in Seq(Code) /\ L \in Nat /\ \A n \in 1..L : lines[n] \in Code
  BY DEF Texts
<1>7. PICK f : Goes(f, NoiseStates, first, step, lines)
  BY <1>1, <1>3, <1>6, Runs
<1>8. f \in [0..L -> NoiseStates] /\ f[0] = first
      /\ \A n \in 1..L : f[n] = NoiseStep(f[n - 1], lines[n])
  <2>1. f \in [0..L -> NoiseStates] /\ f[0] = first
        /\ \A n \in 1..L : f[n] = step[<<f[n - 1], lines[n]>>]
    BY <1>7 DEF Goes
  <2>2. \A n \in 1..L : f[n - 1] \in NoiseStates
    BY <1>6, <2>1
  <2> QED BY <1>4, <1>6, <2>1, <2>2
<1>9. IsRun(f)
  BY <1>6, <1>8
<1>10. IsRun(g)
  BY <1>9
<1> HIDE DEF g
<1>11. g[0] = first /\ \A n \in 1..L : g[n] = NoiseStep(g[n - 1], lines[n])
  BY <1>6, <1>10
<1>12. f[L] = g[L]
  <2>1. Joins(g, NoiseStates, first, step, lines)
    BY <1>4, <1>6, <1>11 DEF Joins
  <2> QED BY <1>6, <1>7, <2>1, SameEnd
<1> QED BY <1>5, <1>8, <1>12 DEF first

\* There is a run of Read over a file.
LEMMA ReadRun ==
    ASSUME NEW lines \in Texts, NEW lang
    PROVE  \E f \in [0..Len(lines) -> ReadStates] :
               /\ f[0] = [nests |-> lang \in Nesting, depth |-> 0, code |-> <<>>, tame |-> TRUE]
               /\ \A n \in 1..Len(lines) : f[n] = ReadStep(f[n - 1], lines[n])
               /\ Read(lang, lines) = f[Len(lines)]
<1> DEFINE L == Len(lines)
           first == [nests |-> lang \in Nesting, depth |-> 0, code |-> <<>>, tame |-> TRUE]
           step == [p \in ReadStates \X Code |-> ReadStep(p[1], p[2])]
           IsRun(f) == f = [n \in 0..L |-> IF n = 0 THEN first ELSE ReadStep(f[n - 1], lines[n])]
           g == CHOOSE g : IsRun(g)
<1>1. first \in ReadStates
  BY DEF ReadStates, Texts
<1>2. ASSUME NEW s \in ReadStates, NEW t \in Code
      PROVE  ReadStep(s, t) \in ReadStates
  <2> DEFINE read == Lexed(s.nests, s.depth, t)
  <2>1. s.code \in Texts /\ s.nests \in BOOLEAN /\ s.depth \in Nat /\ s.tame \in BOOLEAN
    BY DEF ReadStates
  <2>2. read.code \in Code /\ read.depth \in Nat /\ read.tame \in BOOLEAN
    BY <2>1, LexedFits DEF LexStates
  <2>3. Append(s.code, read.code) \in Texts
    BY <2>1, <2>2 DEF Texts
  <2>4. ReadStep(s, t) = [s EXCEPT !.code = Append(@, read.code), !.depth = read.depth, !.tame = @ /\ read.tame]
    BY DEF ReadStep
  <2> HIDE DEF read
  <2> QED BY <2>1, <2>2, <2>3, <2>4 DEF ReadStates
<1>3. step \in [ReadStates \X Code -> ReadStates]
  BY <1>2
<1>4. \A s \in ReadStates, t \in Code : step[<<s, t>>] = ReadStep(s, t)
  OBVIOUS
<1>5. Read(lang, lines) = g[L]
  BY DEF Read, Loop
<1> HIDE DEF step, first
<1>6. lines \in Seq(Code) /\ L \in Nat /\ \A n \in 1..L : lines[n] \in Code
  BY DEF Texts
<1>7. PICK f : Goes(f, ReadStates, first, step, lines)
  BY <1>1, <1>3, <1>6, Runs
<1>8. f \in [0..L -> ReadStates] /\ f[0] = first
      /\ \A n \in 1..L : f[n] = ReadStep(f[n - 1], lines[n])
  <2>1. f \in [0..L -> ReadStates] /\ f[0] = first
        /\ \A n \in 1..L : f[n] = step[<<f[n - 1], lines[n]>>]
    BY <1>7 DEF Goes
  <2>2. \A n \in 1..L : f[n - 1] \in ReadStates
    BY <1>6, <2>1
  <2> QED BY <1>4, <1>6, <2>1, <2>2
<1>9. IsRun(f)
  BY <1>6, <1>8
<1>10. IsRun(g)
  BY <1>9
<1> HIDE DEF g
<1>11. g[0] = first /\ \A n \in 1..L : g[n] = ReadStep(g[n - 1], lines[n])
  BY <1>6, <1>10
<1>12. f[L] = g[L]
  <2>1. Joins(g, ReadStates, first, step, lines)
    BY <1>4, <1>6, <1>11 DEF Joins
  <2> QED BY <1>6, <1>7, <2>1, SameEnd
<1> QED BY <1>5, <1>8, <1>12 DEF first

\* Where the functions begin that are too long.
Bodies(lines) == Loop(BodyStep, [line |-> 0, open |-> 0, depth |-> 0, found |-> {}], lines).found

\* There is a run of long_fn over a file.
LEMMA BodiesRun ==
    ASSUME NEW lines \in Texts
    PROVE  \E f \in [0..Len(lines) -> BodyStates] :
               /\ f[0] = [line |-> 0, open |-> 0, depth |-> 0, found |-> {}]
               /\ \A n \in 1..Len(lines) : f[n] = BodyStep(f[n - 1], lines[n])
               /\ Bodies(lines) = f[Len(lines)].found
<1> DEFINE L == Len(lines)
           first == [line |-> 0, open |-> 0, depth |-> 0, found |-> {}]
           step == [p \in BodyStates \X Code |-> BodyStep(p[1], p[2])]
           IsRun(f) == f = [n \in 0..L |-> IF n = 0 THEN first ELSE BodyStep(f[n - 1], lines[n])]
           g == CHOOSE g : IsRun(g)
<1>1. first \in BodyStates
  BY DEF BodyStates
<1>2. ASSUME NEW s \in BodyStates, NEW t \in Code
      PROVE  BodyStep(s, t) \in BodyStates
  <2>1. /\ s.line \in Nat /\ s.open \in Nat /\ s.depth \in Int /\ s.found \in SUBSET Nat
        /\ s.line + 1 \in Nat /\ 0 \in Nat
    BY DEF BodyStates
  <2>2. s.depth + Braces(t) \in Int
    BY <2>1, BracesFit
  <2>3. ASSUME NEW T, T = {s.open} \/ T = {}
        PROVE  s.found \cup T \in SUBSET Nat
    BY <2>1, <2>3
  <2>4. s.found \cup (IF s.line + 1 - s.open > BodyLimit THEN {s.open} ELSE {}) \in SUBSET Nat
    BY <2>3
  <2>5. PICK n \in Nat, d \in Int, F \in SUBSET Nat :
            /\ n = s.line + 1 /\ d = s.depth + Braces(t)
            /\ F = s.found \cup (IF n - s.open > BodyLimit THEN {s.open} ELSE {})
    BY <2>1, <2>2, <2>4
  <2>6. \/ BodyStep(s, t) = [s EXCEPT !.line = n]
        \/ BodyStep(s, t) = [s EXCEPT !.line = n, !.open = n, !.depth = d]
        \/ BodyStep(s, t) = [s EXCEPT !.line = n, !.depth = d]
        \/ BodyStep(s, t) = [line |-> n, open |-> 0, depth |-> 0, found |-> F]
    BY <2>5 DEF BodyStep
  <2>7. /\ [s EXCEPT !.line = n] \in BodyStates
        /\ [s EXCEPT !.line = n, !.open = n, !.depth = d] \in BodyStates
        /\ [s EXCEPT !.line = n, !.depth = d] \in BodyStates
    BY DEF BodyStates
  <2>8. [line |-> n, open |-> 0, depth |-> 0, found |-> F] \in BodyStates
    BY DEF BodyStates
  <2> QED BY <2>6, <2>7, <2>8
<1>3. step \in [BodyStates \X Code -> BodyStates]
  BY <1>2
<1>4. \A s \in BodyStates, t \in Code : step[<<s, t>>] = BodyStep(s, t)
  OBVIOUS
<1>5. Bodies(lines) = g[L].found
  BY DEF Bodies, Loop
<1> HIDE DEF step, first
<1>6. lines \in Seq(Code) /\ L \in Nat /\ \A n \in 1..L : lines[n] \in Code
  BY DEF Texts
<1>7. PICK f : Goes(f, BodyStates, first, step, lines)
  BY <1>1, <1>3, <1>6, Runs
<1>8. f \in [0..L -> BodyStates] /\ f[0] = first
      /\ \A n \in 1..L : f[n] = BodyStep(f[n - 1], lines[n])
  <2>1. f \in [0..L -> BodyStates] /\ f[0] = first
        /\ \A n \in 1..L : f[n] = step[<<f[n - 1], lines[n]>>]
    BY <1>7 DEF Goes
  <2>2. \A n \in 1..L : f[n - 1] \in BodyStates
    BY <1>6, <2>1
  <2> QED BY <1>4, <1>6, <2>1, <2>2
<1>9. IsRun(f)
  BY <1>6, <1>8
<1>10. IsRun(g)
  BY <1>9
<1> HIDE DEF g
<1>11. g[0] = first /\ \A n \in 1..L : g[n] = BodyStep(g[n - 1], lines[n])
  BY <1>6, <1>10
<1>12. f[L] = g[L]
  <2>1. Joins(g, BodyStates, first, step, lines)
    BY <1>4, <1>6, <1>11 DEF Joins
  <2> QED BY <1>6, <1>7, <2>1, SameEnd
<1> QED BY <1>5, <1>8, <1>12 DEF first

-----------------------------------------------------------------------------
(* A line without marks *)

LEMMA PrefixAppend ==
    ASSUME NEW S, NEW seq \in Seq(S), NEW n \in 1..Len(seq)
    PROVE  Append(SubSeq(seq, 1, n - 1), seq[n]) = SubSeq(seq, 1, n)
<1>1. Len(seq) \in Nat /\ 1 \in 1..(Len(seq) + 1) /\ n \in 1..Len(seq)
  OBVIOUS
<1> DEFINE p == SubSeq(seq, 1, n - 1)
           q == SubSeq(seq, 1, n)
<1>2. p \in Seq(S) /\ Len(p) = n - 1 /\ \A i \in 1..(n - 1) : p[i] = seq[i]
  OBVIOUS
<1>3. q \in Seq(S) /\ Len(q) = n /\ \A i \in 1..n : q[i] = seq[i]
  OBVIOUS
<1>4. seq[n] \in S
  OBVIOUS
<1> HIDE DEF p, q
<1>5. Append(p, seq[n]) \in Seq(S) /\ Len(Append(p, seq[n])) = n
      /\ \A i \in 1..n : Append(p, seq[n])[i] = seq[i]
  BY <1>2, <1>4
<1> QED BY <1>3, <1>5, SeqEqual DEF p, q

LEMMA PlainTokens ==
    ASSUME NEW line \in Code, PlainLine(line)
    PROVE  \A n \in 1..Len(line) :
               line[n] \notin {Open, Close, Slashes, ColonSlashes, Quote, Fn, "{", "}"}
<1> SUFFICES ASSUME NEW n \in 1..Len(line)
             PROVE  line[n] \notin Marks
  BY DEF Marks
<1>1. line[n] \in ToSet(line)
  BY DEF ToSet, Code
<1> QED BY <1>1 DEF PlainLine

\* A block comment hides such a line as a whole, or not at all.
LEMMA PlainBlocks ==
    ASSUME NEW line \in Code, NEW block \in BOOLEAN, PlainLine(line)
    PROVE  RemoveBlocks(block, line) = [code |-> IF block THEN <<>> ELSE line, block |-> block]
<1> DEFINE L == Len(line)
           At(n) == [code |-> IF block THEN <<>> ELSE SubSeq(line, 1, n), block |-> block]
<1>1. PICK f \in [0..L -> BlockStates] :
          /\ f[0] = [code |-> <<>>, block |-> block]
          /\ \A n \in 1..L : f[n] = BlockStep(f[n - 1], line[n])
          /\ RemoveBlocks(block, line) = f[L]
  BY BlocksRun
<1> DEFINE P == {n \in 0..L : f[n] = At(n)}
<1>2. L \in Nat /\ line \in Seq(Tokens)
  BY DEF Code
<1>3. f[0] = At(0)
  <2>1. SubSeq(line, 1, 0) = <<>>
    BY <1>2, SubSeqEmpty
  <2> QED BY <1>1, <2>1
<1>4. ASSUME NEW n \in 1..L, f[n - 1] = At(n - 1)
      PROVE  f[n] = At(n)
  <2>1. f[n] = BlockStep(At(n - 1), line[n])
    BY <1>1, <1>4
  <2>2. line[n] # Close /\ line[n] # Open
    BY PlainTokens
  <2>3. CASE block
    BY <2>1, <2>2, <2>3 DEF BlockStep
  <2>4. CASE ~block
    <3>1. Append(SubSeq(line, 1, n - 1), line[n]) = SubSeq(line, 1, n)
      BY <1>2, PrefixAppend
    <3>2. At(n - 1) = [code |-> SubSeq(line, 1, n - 1), block |-> FALSE]
      BY <2>4
    <3>3. f[n] = [code |-> Append(SubSeq(line, 1, n - 1), line[n]), block |-> FALSE]
      BY <2>1, <2>2, <3>2 DEF BlockStep
    <3> QED BY <2>4, <3>1, <3>3
  <2> QED BY <2>3, <2>4
<1>5. f[L] = At(L)
  <2> HIDE DEF At
  <2>1. 0 \in P /\ \A n \in 1..L : n - 1 \in P => n \in P
    BY <1>2, <1>3, <1>4
  <2>2. \A n \in 0..L : n \in P
    <3> HIDE DEF P
    <3> QED BY <1>2, <2>1, Rising
  <2> QED BY <1>2, <2>2
<1>6. SubSeq(line, 1, L) = line
  BY <1>2, SubSeqFull
<1> QED BY <1>1, <1>5, <1>6

LEMMA PlainComment ==
    ASSUME NEW line \in Code, PlainLine(line)
    PROVE  RemoveLineComment(line) = line
<1>1. \A i \in DOMAIN line : line[i] # Slashes
  <2>1. DOMAIN line = 1..Len(line)
    BY DEF Code
  <2> QED BY <2>1, PlainTokens
<1> QED BY <1>1 DEF RemoveLineComment

LEMMA PlainStrings ==
    ASSUME NEW line \in Code, PlainLine(line)
    PROVE  RemoveStrings(line) = line
<1> DEFINE L == Len(line)
           At(n) == [code |-> <<>>, rest |-> SubSeq(line, 1, n), inside |-> FALSE]
<1>1. PICK f \in [0..L -> StringStates] :
          /\ f[0] = [code |-> <<>>, rest |-> <<>>, inside |-> FALSE]
          /\ \A n \in 1..L : f[n] = StringStep(f[n - 1], line[n])
          /\ Strings(line) = f[L]
  BY StringsRun
<1> DEFINE P == {n \in 0..L : f[n] = At(n)}
<1>2. L \in Nat /\ line \in Seq(Tokens)
  BY DEF Code
<1>3. f[0] = At(0)
  <2>1. SubSeq(line, 1, 0) = <<>>
    BY <1>2, SubSeqEmpty
  <2> QED BY <1>1, <2>1
<1>4. ASSUME NEW n \in 1..L, f[n - 1] = At(n - 1)
      PROVE  f[n] = At(n)
  <2>1. f[n] = StringStep(At(n - 1), line[n])
    BY <1>1, <1>4
  <2>2. line[n] # Quote
    BY PlainTokens
  <2>3. Append(SubSeq(line, 1, n - 1), line[n]) = SubSeq(line, 1, n)
    BY <1>2, PrefixAppend
  <2> QED BY <2>1, <2>2, <2>3 DEF StringStep
<1>5. f[L] = At(L)
  <2> HIDE DEF At
  <2>1. 0 \in P /\ \A n \in 1..L : n - 1 \in P => n \in P
    BY <1>2, <1>3, <1>4
  <2>2. \A n \in 0..L : n \in P
    <3> HIDE DEF P
    <3> QED BY <1>2, <2>1, Rising
  <2> QED BY <1>2, <2>2
<1>6. SubSeq(line, 1, L) = line
  BY <1>2, SubSeqFull
<1>7. Strings(line).code = <<>> /\ Strings(line).rest = line
  BY <1>1, <1>5, <1>6
<1> QED BY <1>2, <1>7 DEF RemoveStrings

LEMMA MaskOfPlain ==
    ASSUME NEW line \in Code, NEW block \in BOOLEAN, PlainLine(line)
    PROVE  /\ Mask(block, line) = IF block THEN <<>> ELSE line
           /\ RemoveBlocks(block, line).block = block
           /\ PlainLine(Mask(block, line)) /\ Mask(block, line) \in Code
<1>1. <<>> \in Code /\ PlainLine(<<>>)
  BY DEF Code, PlainLine, ToSet
<1>2. RemoveBlocks(block, line) = [code |-> IF block THEN <<>> ELSE line, block |-> block]
  BY PlainBlocks
<1>3. CASE block
  <2>1. RemoveBlocks(block, line).code = <<>>
    BY <1>2, <1>3
  <2>2. Mask(block, line) = <<>>
    BY <1>1, <2>1, PlainComment, PlainStrings DEF Mask
  <2>3. RemoveBlocks(block, line).block = block
    BY <1>2
  <2> QED BY <1>1, <1>3, <2>2, <2>3
<1>4. CASE ~block
  <2>1. RemoveBlocks(block, line).code = line
    BY <1>2, <1>4
  <2>2. Mask(block, line) = line
    BY <2>1, PlainComment, PlainStrings DEF Mask
  <2>3. RemoveBlocks(block, line).block = block
    BY <1>2
  <2> QED BY <1>4, <2>2, <2>3
<1> QED BY <1>3, <1>4

-----------------------------------------------------------------------------
(* A line taken out *)

\* Where the n-th of the lines that are left was, before the i-th was taken out.
Past(i, n) == IF n < i THEN n ELSE n + 1

LEMMA RemoveAtFacts ==
    ASSUME NEW S, NEW seq \in Seq(S), NEW i \in 1..Len(seq)
    PROVE  /\ RemoveAt(seq, i) \in Seq(S) /\ Len(RemoveAt(seq, i)) = Len(seq) - 1
           /\ \A n \in 1..(Len(seq) - 1) : RemoveAt(seq, i)[n] = seq[Past(i, n)]
<1> DEFINE p == SubSeq(seq, 1, i - 1)
           q == SubSeq(seq, i + 1, Len(seq))
<1>1. p \in Seq(S) /\ Len(p) = i - 1 /\ \A n \in 1..(i - 1) : p[n] = seq[n]
  OBVIOUS
<1>2. q \in Seq(S) /\ Len(q) = Len(seq) - i /\ \A n \in 1..(Len(seq) - i) : q[n] = seq[i + n]
  OBVIOUS
<1>3. RemoveAt(seq, i) = p \o q
  BY DEF RemoveAt
<1> HIDE DEF p, q
<1>4. p \o q \in Seq(S) /\ Len(p \o q) = Len(seq) - 1
  BY <1>1, <1>2
<1>5. ASSUME NEW n \in 1..(Len(seq) - 1)
      PROVE  (p \o q)[n] = seq[Past(i, n)]
  <2>1. CASE n < i
    BY <1>1, <1>2, <2>1 DEF Past
  <2>2. CASE ~(n < i)
    <3>1. (p \o q)[n] = q[n - (i - 1)] /\ n - (i - 1) \in 1..(Len(seq) - i)
      BY <1>1, <1>2, <2>2
    <3>2. q[n - (i - 1)] = seq[i + (n - (i - 1))]
      BY <1>2, <3>1
    <3> QED BY <2>2, <3>1, <3>2 DEF Past
  <2> QED BY <2>1, <2>2
<1> QED BY <1>3, <1>4, <1>5

LEMMA RemoveLast ==
    ASSUME NEW S, NEW seq \in Seq(S), NEW x \in S
    PROVE  RemoveAt(Append(seq, x), Len(seq) + 1) = seq
<1> DEFINE t == Append(seq, x)
           k == Len(seq) + 1
<1>1. t \in Seq(S) /\ Len(t) = k /\ k \in 1..Len(t) /\ \A n \in 1..Len(seq) : t[n] = seq[n]
  OBVIOUS
<1> HIDE DEF t
<1>2. /\ RemoveAt(t, k) \in Seq(S) /\ Len(RemoveAt(t, k)) = Len(seq)
      /\ \A n \in 1..Len(seq) : RemoveAt(t, k)[n] = t[Past(k, n)]
  <2>1. /\ RemoveAt(t, k) \in Seq(S) /\ Len(RemoveAt(t, k)) = Len(t) - 1
        /\ \A n \in 1..(Len(t) - 1) : RemoveAt(t, k)[n] = t[Past(k, n)]
    <3> HIDE DEF k
    <3> QED BY <1>1, RemoveAtFacts
  <2>2. Len(t) - 1 = Len(seq)
    BY <1>1
  <2> QED BY <2>1, <2>2
<1>3. \A n \in 1..Len(seq) : RemoveAt(t, k)[n] = seq[n]
  BY <1>1, <1>2 DEF Past
<1> QED BY <1>2, <1>3, SeqEqual DEF t

LEMMA RemoveBefore ==
    ASSUME NEW S, NEW seq \in Seq(S), NEW x \in S, NEW i \in 1..Len(seq)
    PROVE  RemoveAt(Append(seq, x), i) = Append(RemoveAt(seq, i), x)
<1> DEFINE t == Append(seq, x)
           r == RemoveAt(seq, i)
           L == Len(seq)
<1>1. L \in Nat /\ t \in Seq(S) /\ Len(t) = L + 1 /\ i \in 1..Len(t)
      /\ t[L + 1] = x /\ \A n \in 1..L : t[n] = seq[n]
  OBVIOUS
<1>2. r \in Seq(S) /\ Len(r) = L - 1 /\ \A n \in 1..(L - 1) : r[n] = seq[Past(i, n)]
  BY RemoveAtFacts
<1> HIDE DEF t, r
<1>3. /\ RemoveAt(t, i) \in Seq(S) /\ Len(RemoveAt(t, i)) = L
      /\ \A n \in 1..L : RemoveAt(t, i)[n] = t[Past(i, n)]
  <2>1. /\ RemoveAt(t, i) \in Seq(S) /\ Len(RemoveAt(t, i)) = Len(t) - 1
        /\ \A n \in 1..(Len(t) - 1) : RemoveAt(t, i)[n] = t[Past(i, n)]
    BY <1>1, RemoveAtFacts
  <2>2. Len(t) - 1 = L
    BY <1>1
  <2> QED BY <2>1, <2>2
<1>4. /\ Append(r, x) \in Seq(S) /\ Len(Append(r, x)) = L /\ Append(r, x)[L] = x
      /\ \A n \in 1..(L - 1) : Append(r, x)[n] = r[n]
  BY <1>1, <1>2
<1>5. ASSUME NEW n \in 1..L
      PROVE  RemoveAt(t, i)[n] = Append(r, x)[n]
  <2>1. CASE n = L
    <3>1. Past(i, n) = L + 1
      BY <1>1, <2>1 DEF Past
    <3>2. RemoveAt(t, i)[n] = t[L + 1]
      BY <1>3, <3>1
    <3> QED BY <1>1, <1>4, <2>1, <3>2
  <2>2. CASE n # L
    <3>1. n \in 1..(L - 1) /\ Past(i, n) \in 1..L
      BY <1>1, <2>2 DEF Past
    <3> QED BY <1>1, <1>2, <1>3, <1>4, <3>1
  <2> QED BY <2>1, <2>2
<1> QED BY <1>3, <1>4, <1>5, SeqEqual DEF t, r

LEMMA NoiseStepIs ==
    ASSUME NEW acc, NEW line
    PROVE  NoiseStep(acc, line) = [masked |-> Append(acc.masked, Mask(acc.block, line)),
                                   block |-> RemoveBlocks(acc.block, line).block]
BY DEF NoiseStep, Mask

\* strip_noise keeps the number of lines, and masks each of them.
LEMMA NoiseFits ==
    ASSUME NEW lines \in Texts, NEW f \in [0..Len(lines) -> NoiseStates], f[0].masked = <<>>,
           \A n \in 1..Len(lines) : f[n] = NoiseStep(f[n - 1], lines[n])
    PROVE  \A n \in 0..Len(lines) :
               /\ Len(f[n].masked) = n
               /\ \A k \in 1..n : f[n].masked[k] = Mask(f[k - 1].block, lines[k])
<1> DEFINE L == Len(lines)
           Fits(n) == /\ Len(f[n].masked) = n
                      /\ \A k \in 1..n : f[n].masked[k] = Mask(f[k - 1].block, lines[k])
           P == {n \in 0..L : Fits(n)}
<1>1. L \in Nat
  BY DEF Texts
<1>2. ASSUME NEW n \in 1..L, Fits(n - 1)
      PROVE  Fits(n)
  <2>1. n - 1 \in 0..L /\ f[n - 1] \in NoiseStates /\ lines[n] \in Code
    BY <1>1 DEF Texts
  <2>2. f[n - 1].masked \in Texts /\ f[n - 1].block \in BOOLEAN
    BY <2>1 DEF NoiseStates
  <2>3. Mask(f[n - 1].block, lines[n]) \in Code
    BY <2>1, <2>2, MaskFits
  <2>4. f[n].masked = Append(f[n - 1].masked, Mask(f[n - 1].block, lines[n]))
    BY NoiseStepIs
  <2>5. /\ Len(f[n].masked) = n /\ f[n].masked[n] = Mask(f[n - 1].block, lines[n])
        /\ \A k \in 1..(n - 1) : f[n].masked[k] = f[n - 1].masked[k]
    BY <1>2, <2>2, <2>3, <2>4 DEF Texts
  <2>6. ASSUME NEW k \in 1..n
        PROVE  f[n].masked[k] = Mask(f[k - 1].block, lines[k])
    <3>1. CASE k = n
      BY <2>5, <3>1
    <3>2. CASE k # n
      <4>1. k \in 1..(n - 1)
        BY <3>2
      <4>2. f[n].masked[k] = f[n - 1].masked[k]
        BY <2>5, <4>1
      <4>3. f[n - 1].masked[k] = Mask(f[k - 1].block, lines[k])
        BY <1>2, <4>1
      <4> QED BY <4>2, <4>3
    <3> QED BY <3>1, <3>2
  <2> QED BY <2>5, <2>6
<1>3. Fits(0)
  <2>1. Len(f[0].masked) = 0
    BY Zenon, EmptySeq
  <2> QED BY <2>1
<1> HIDE DEF Fits
<1>4. 0 \in P /\ \A n \in 1..L : n - 1 \in P => n \in P
  BY <1>1, <1>2, <1>3
<1>5. \A n \in 0..L : n \in P
  <2> HIDE DEF P
  <2> QED BY <1>1, <1>4, Rising
<1> QED BY <1>5 DEF Fits

\* A line without marks that is taken out is gone from what strip_noise leaves,
\* which is the same otherwise.
LEMMA NoiseOfRest ==
    ASSUME NEW lines \in Texts, NEW i \in 1..Len(lines), PlainLine(lines[i])
    PROVE  /\ strip_noise(lines) \in Texts /\ Len(strip_noise(lines)) = Len(lines)
           /\ PlainLine(strip_noise(lines)[i])
           /\ strip_noise(RemoveAt(lines, i)) = RemoveAt(strip_noise(lines), i)
<1> DEFINE L == Len(lines)
           rest == RemoveAt(lines, i)
<1>1. L \in Nat /\ L - 1 \in Nat /\ i \in 1..L
  BY DEF Texts
<1>2. rest \in Texts /\ Len(rest) = L - 1 /\ \A n \in 1..(L - 1) : rest[n] = lines[Past(i, n)]
  BY RemoveAtFacts DEF Texts
<1> HIDE DEF rest
<1>3. PICK f \in [0..L -> NoiseStates] :
          /\ f[0] = [masked |-> <<>>, block |-> FALSE]
          /\ \A n \in 1..L : f[n] = NoiseStep(f[n - 1], lines[n])
          /\ strip_noise(lines) = f[L].masked
  BY NoiseRun
<1>4. PICK g \in [0..(L - 1) -> NoiseStates] :
          /\ g[0] = [masked |-> <<>>, block |-> FALSE]
          /\ \A n \in 1..(L - 1) : g[n] = NoiseStep(g[n - 1], rest[n])
          /\ strip_noise(rest) = g[L - 1].masked
  BY <1>2, NoiseRun
<1>5. \A n \in 0..L : /\ f[n].masked \in Texts /\ f[n].block \in BOOLEAN /\ Len(f[n].masked) = n
                      /\ \A k \in 1..n : f[n].masked[k] = Mask(f[k - 1].block, lines[k])
  <2>1. f[0].masked = <<>>
    BY <1>3
  <2>2. \A n \in 0..L : f[n] \in NoiseStates
    BY <1>1
  <2>3. \A n \in 0..L : /\ Len(f[n].masked) = n
                        /\ \A k \in 1..n : f[n].masked[k] = Mask(f[k - 1].block, lines[k])
    BY <1>3, <2>1, NoiseFits
  <2>4. \A n \in 0..L : f[n].masked \in Texts /\ f[n].block \in BOOLEAN
    BY <2>2 DEF NoiseStates
  <2> QED BY <2>3, <2>4
<1>6. \A n \in 1..L : lines[n] \in Code
  BY DEF Texts
<1>7. \A n \in 0..(i - 1) : g[n] = f[n]
  <2> DEFINE P == {n \in 0..(i - 1) : g[n] = f[n]}
  <2>1. 0 \in P
    <3>1. g[0] = f[0]
      BY <1>3, <1>4
    <3> QED BY <1>1, <3>1
  <2>2. ASSUME NEW n \in 1..(i - 1), n - 1 \in P
        PROVE  n \in P
    <3>1. n \in 1..(L - 1) /\ n \in 1..L /\ Past(i, n) = n
      BY <1>1 DEF Past
    <3>2. g[n] = NoiseStep(g[n - 1], lines[n])
      BY <1>2, <1>4, <3>1
    <3>3. f[n] = NoiseStep(f[n - 1], lines[n]) /\ g[n - 1] = f[n - 1]
      BY <1>3, <2>2, <3>1
    <3> QED BY <3>2, <3>3
  <2>3. i - 1 \in Nat
    BY <1>1
  <2>4. \A n \in 0..(i - 1) : n \in P
    <3> HIDE DEF P
    <3> QED BY <2>1, <2>2, <2>3, Rising
  <2> QED BY <2>4
<1>8. f[i - 1].block \in BOOLEAN /\ lines[i] \in Code /\ i - 1 \in 0..L
  BY <1>1, <1>5, <1>6
<1>9. /\ f[i].masked = Append(f[i - 1].masked, Mask(f[i - 1].block, lines[i]))
      /\ f[i].block = f[i - 1].block
      /\ PlainLine(Mask(f[i - 1].block, lines[i])) /\ Mask(f[i - 1].block, lines[i]) \in Code
  <2>1. f[i] = NoiseStep(f[i - 1], lines[i])
    BY <1>1, <1>3
  <2>2. f[i] = [masked |-> Append(f[i - 1].masked, Mask(f[i - 1].block, lines[i])),
                block |-> RemoveBlocks(f[i - 1].block, lines[i]).block]
    BY <2>1, NoiseStepIs
  <2>3. /\ RemoveBlocks(f[i - 1].block, lines[i]).block = f[i - 1].block
        /\ PlainLine(Mask(f[i - 1].block, lines[i])) /\ Mask(f[i - 1].block, lines[i]) \in Code
    BY <1>8, MaskOfPlain
  <2> QED BY <2>2, <2>3
<1> DEFINE Same(n) == /\ g[n].masked = RemoveAt(f[n + 1].masked, i)
                      /\ g[n].block = f[n + 1].block
           P == {m \in 0..(L - i) : Same(i - 1 + m)}
<1>10. Same(i - 1)
  <2>1. g[i - 1] = f[i - 1]
    BY <1>1, <1>7
  <2>2. RemoveAt(Append(f[i - 1].masked, Mask(f[i - 1].block, lines[i])), Len(f[i - 1].masked) + 1) =
        f[i - 1].masked
    <3>1. PICK base \in Seq(Code) : base = f[i - 1].masked
      BY <1>5, <1>8 DEF Texts
    <3>2. PICK x \in Code : x = Mask(f[i - 1].block, lines[i])
      BY <1>9
    <3>3. RemoveAt(Append(base, x), Len(base) + 1) = base
      BY RemoveLast
    <3> QED BY <3>1, <3>2, <3>3
  <2>3. Len(f[i - 1].masked) + 1 = i /\ i - 1 + 1 = i
    BY <1>1, <1>5, <1>8
  <2> QED BY <1>9, <2>1, <2>2, <2>3
<1>11. ASSUME NEW n \in i..(L - 1), Same(n - 1)
       PROVE  Same(n)
  <2>1. n \in 1..(L - 1) /\ n + 1 \in 1..L /\ n \in 0..L /\ n - 1 + 1 = n /\ n + 1 - 1 = n /\ Past(i, n) = n + 1
        /\ i \in 1..n
    BY <1>1 DEF Past
  <2>2. g[n] = NoiseStep(g[n - 1], lines[n + 1])
    BY <1>2, <1>4, <2>1
  <2>3. f[n + 1] = NoiseStep(f[n], lines[n + 1])
    BY <1>3, <2>1
  <2>4. g[n - 1].masked = RemoveAt(f[n].masked, i) /\ g[n - 1].block = f[n].block
    BY <1>11, <2>1
  <2> DEFINE x == Mask(f[n].block, lines[n + 1])
  <2>5. x \in Code
    BY <1>5, <1>6, <2>1, MaskFits
  <2>6. f[n + 1].masked = Append(f[n].masked, x) /\ f[n + 1].block = RemoveBlocks(f[n].block, lines[n + 1]).block
    <3>1. NoiseStep(f[n], lines[n + 1]) =
              [masked |-> Append(f[n].masked, x), block |-> RemoveBlocks(f[n].block, lines[n + 1]).block]
      BY NoiseStepIs
    <3> HIDE DEF x
    <3> QED BY <2>3, <3>1
  <2>7. g[n].masked = Append(g[n - 1].masked, x) /\ g[n].block = RemoveBlocks(f[n].block, lines[n + 1]).block
    <3>1. NoiseStep(g[n - 1], lines[n + 1]) =
              [masked |-> Append(g[n - 1].masked, Mask(g[n - 1].block, lines[n + 1])),
               block |-> RemoveBlocks(g[n - 1].block, lines[n + 1]).block]
      BY NoiseStepIs
    <3>2. Mask(g[n - 1].block, lines[n + 1]) = x
      BY <2>4
    <3> HIDE DEF x
    <3> QED BY <2>2, <2>4, <3>1, <3>2
  <2>8. f[n].masked \in Seq(Code) /\ i \in 1..Len(f[n].masked)
    BY <1>5, <2>1 DEF Texts
  <2> HIDE DEF x
  <2>9. RemoveAt(Append(f[n].masked, x), i) = Append(RemoveAt(f[n].masked, i), x)
    BY <2>5, <2>8, RemoveBefore
  <2> QED BY <2>4, <2>6, <2>7, <2>9
<1>12. Same(L - 1)
  <2>1. L - i \in Nat
    BY <1>1
  <2>2. 0 \in P
    <3>1. i - 1 + 0 = i - 1
      BY <1>1
    <3> HIDE DEF Same
    <3> QED BY <1>10, <2>1, <3>1
  <2>3. ASSUME NEW m \in 1..(L - i), m - 1 \in P
        PROVE  m \in P
    <3>1. i - 1 + m \in i..(L - 1) /\ i - 1 + (m - 1) = i - 1 + m - 1 /\ m \in 0..(L - i)
      BY <1>1
    <3> HIDE DEF Same
    <3>2. Same(i - 1 + m - 1)
      BY <2>3, <3>1
    <3> QED BY <1>11, <3>1, <3>2
  <2>4. \A m \in 0..(L - i) : m \in P
    <3> HIDE DEF P
    <3> QED BY <2>1, <2>2, <2>3, Rising
  <2>5. L - i \in P
    <3> HIDE DEF P
    <3> QED BY <2>1, <2>4
  <2>6. i - 1 + (L - i) = L - 1
    BY <1>1
  <2> HIDE DEF Same
  <2> QED BY <2>5, <2>6
<1>13. strip_noise(lines) \in Texts /\ Len(strip_noise(lines)) = L
       /\ strip_noise(lines)[i] = Mask(f[i - 1].block, lines[i])
  <2>1. L \in 0..L
    BY <1>1
  <2> QED BY <1>1, <1>3, <1>5, <2>1
<1>14. strip_noise(rest) = RemoveAt(strip_noise(lines), i)
  <2>1. L - 1 + 1 = L
    BY <1>1
  <2> QED BY <1>3, <1>4, <1>12, <2>1
<1> QED BY <1>9, <1>13, <1>14 DEF rest

-----------------------------------------------------------------------------
(* Functions that are too long *)

Starts(line) == line # <<>> /\ Head(line) = Fn

\* What is found when the function that is open is closed on the n-th line.
Kept(s, n) == s.found \cup (IF n - s.open > BodyLimit THEN {s.open} ELSE {})

\* What a step of long_fn leaves, case by case.
LEMMA BodyStepIs ==
    ASSUME NEW s \in BodyStates, NEW line \in Code
    PROVE  LET n == s.line + 1
               depth == s.depth + Braces(line)
           IN  /\ s.open = 0 /\ ~(Starts(line) /\ depth > 0) =>
                      BodyStep(s, line) = [line |-> n, open |-> 0, depth |-> s.depth, found |-> s.found]
               /\ s.open = 0 /\ Starts(line) /\ depth > 0 =>
                      BodyStep(s, line) = [line |-> n, open |-> n, depth |-> depth, found |-> s.found]
               /\ s.open # 0 /\ depth > 0 =>
                      BodyStep(s, line) = [line |-> n, open |-> s.open, depth |-> depth, found |-> s.found]
               /\ s.open # 0 /\ ~(depth > 0) =>
                      BodyStep(s, line) = [line |-> n, open |-> 0, depth |-> 0, found |-> Kept(s, n)]
<1> DEFINE n == s.line + 1
           depth == s.depth + Braces(line)
           F == Kept(s, n)
<1>1. BodyStep(s, line) =
          IF s.open = 0
          THEN IF Starts(line) /\ depth > 0 THEN [s EXCEPT !.line = n, !.open = n, !.depth = depth]
               ELSE [s EXCEPT !.line = n]
          ELSE IF depth > 0 THEN [s EXCEPT !.line = n, !.depth = depth]
               ELSE [line |-> n, open |-> 0, depth |-> 0, found |-> F]
  BY DEF BodyStep, Starts, Kept
<1>2. ASSUME NEW a \in Nat, NEW d \in Int
      PROVE  /\ [s EXCEPT !.line = a] = [line |-> a, open |-> s.open, depth |-> s.depth, found |-> s.found]
             /\ [s EXCEPT !.line = a, !.depth = d] = [line |-> a, open |-> s.open, depth |-> d, found |-> s.found]
             /\ [s EXCEPT !.line = a, !.open = a, !.depth = d] =
                    [line |-> a, open |-> a, depth |-> d, found |-> s.found]
  <2>1. \A r, t \in BodyStates :
            r.line = t.line /\ r.open = t.open /\ r.depth = t.depth /\ r.found = t.found => r = t
    BY DEF BodyStates
  <2>2. PICK x : x = [s EXCEPT !.line = a]
    OBVIOUS
  <2>3. PICK y : y = [s EXCEPT !.line = a, !.depth = d]
    OBVIOUS
  <2>4. PICK z : z = [s EXCEPT !.line = a, !.open = a, !.depth = d]
    OBVIOUS
  <2>5. x \in BodyStates /\ x.line = a /\ x.open = s.open /\ x.depth = s.depth /\ x.found = s.found
    BY <2>2 DEF BodyStates
  <2>6. y \in BodyStates /\ y.line = a /\ y.open = s.open /\ y.depth = d /\ y.found = s.found
    BY <2>3 DEF BodyStates
  <2>7. z \in BodyStates /\ z.line = a /\ z.open = a /\ z.depth = d /\ z.found = s.found
    BY <2>4 DEF BodyStates
  <2>8. /\ [line |-> a, open |-> s.open, depth |-> s.depth, found |-> s.found] \in BodyStates
        /\ [line |-> a, open |-> s.open, depth |-> d, found |-> s.found] \in BodyStates
        /\ [line |-> a, open |-> a, depth |-> d, found |-> s.found] \in BodyStates
    BY DEF BodyStates
  <2>9. x = [line |-> a, open |-> s.open, depth |-> s.depth, found |-> s.found]
    BY <2>1, <2>5, <2>8
  <2>10. y = [line |-> a, open |-> s.open, depth |-> d, found |-> s.found]
    BY <2>1, <2>6, <2>8
  <2>11. z = [line |-> a, open |-> a, depth |-> d, found |-> s.found]
    BY <2>1, <2>7, <2>8
  <2> QED BY <2>2, <2>3, <2>4, <2>9, <2>10, <2>11
<1>4. n \in Nat /\ depth \in Int
  BY BracesFit DEF BodyStates
<1> HIDE DEF n, depth, F
<1>3. /\ s.open = 0 /\ ~(Starts(line) /\ depth > 0) =>
             BodyStep(s, line) = [line |-> n, open |-> 0, depth |-> s.depth, found |-> s.found]
      /\ s.open = 0 /\ Starts(line) /\ depth > 0 =>
             BodyStep(s, line) = [line |-> n, open |-> n, depth |-> depth, found |-> s.found]
      /\ s.open # 0 /\ depth > 0 =>
             BodyStep(s, line) = [line |-> n, open |-> s.open, depth |-> depth, found |-> s.found]
      /\ s.open # 0 /\ ~(depth > 0) =>
             BodyStep(s, line) = [line |-> n, open |-> 0, depth |-> 0, found |-> F]
  BY <1>1, <1>2, <1>4
<1> QED BY <1>3 DEF n, depth, F

\* The function that is open began at a line that was read, and its braces are open.
BodyFits(s, n) ==
    /\ s.line = n /\ s.open \in 0..n /\ s.found \subseteq 1..n
    /\ s.open = 0 => s.depth = 0
    /\ s.open # 0 => s.depth > 0

LEMMA BodiesFit ==
    ASSUME NEW lines \in Texts, NEW f \in [0..Len(lines) -> BodyStates],
           f[0] = [line |-> 0, open |-> 0, depth |-> 0, found |-> {}],
           \A n \in 1..Len(lines) : f[n] = BodyStep(f[n - 1], lines[n])
    PROVE  \A n \in 0..Len(lines) : BodyFits(f[n], n)
<1> DEFINE L == Len(lines)
           P == {n \in 0..L : BodyFits(f[n], n)}
<1>1. L \in Nat
  BY DEF Texts
<1>2. 0 \in P
  BY <1>1 DEF BodyFits
<1>3. ASSUME NEW n \in 1..L, n - 1 \in P
      PROVE  n \in P
  <2> DEFINE s == f[n - 1]
             depth == s.depth + Braces(lines[n])
  <2>1. s \in BodyStates /\ BodyFits(s, n - 1) /\ n \in 0..L /\ n - 1 \in 0..n /\ lines[n] \in Code
    BY <1>1, <1>3 DEF Texts
  <2>2. f[n] = BodyStep(s, lines[n])
    OBVIOUS
  <2>3. depth \in Int /\ s.line + 1 = n /\ s.open \in 0..(n - 1) /\ s.found \subseteq 1..(n - 1)
        /\ (s.open = 0 => s.depth = 0)
    BY <2>1, BracesFit DEF BodyStates, BodyFits
  <2>4. s.found \subseteq 1..n /\ s.open \in 0..n /\ n \in 1..n
    BY <2>3
  <2> HIDE DEF s
  <2>5. /\ s.open = 0 /\ ~(Starts(lines[n]) /\ depth > 0) =>
               f[n] = [line |-> n, open |-> 0, depth |-> s.depth, found |-> s.found]
        /\ s.open = 0 /\ Starts(lines[n]) /\ depth > 0 =>
               f[n] = [line |-> n, open |-> n, depth |-> depth, found |-> s.found]
        /\ s.open # 0 /\ depth > 0 =>
               f[n] = [line |-> n, open |-> s.open, depth |-> depth, found |-> s.found]
        /\ s.open # 0 /\ ~(depth > 0) =>
               f[n] = [line |-> n, open |-> 0, depth |-> 0, found |-> Kept(s, n)]
    BY <2>1, <2>2, <2>3, BodyStepIs
  <2> HIDE DEF depth
  <2>6. CASE s.open = 0 /\ ~(Starts(lines[n]) /\ depth > 0)
    BY <2>1, <2>3, <2>4, <2>5, <2>6 DEF BodyFits
  <2>7. CASE s.open = 0 /\ Starts(lines[n]) /\ depth > 0
    BY <2>1, <2>3, <2>4, <2>5, <2>7 DEF BodyFits
  <2>8. CASE s.open # 0 /\ depth > 0
    BY <2>1, <2>3, <2>4, <2>5, <2>8 DEF BodyFits
  <2>9. CASE s.open # 0 /\ ~(depth > 0)
    <3>1. s.open \in 1..n
      BY <2>4, <2>9
    <3>2. PICK T : T = Kept(s, n)
      OBVIOUS
    <3>3. T \subseteq 1..n
      BY <2>4, <3>1, <3>2 DEF Kept
    <3>4. f[n] = [line |-> n, open |-> 0, depth |-> 0, found |-> T]
      BY <2>5, <2>9, <3>2
    <3>5. BodyFits(f[n], n)
      BY <2>1, <3>3, <3>4 DEF BodyFits
    <3> QED BY <2>1, <3>5
  <2> QED BY <2>6, <2>7, <2>8, <2>9
<1>4. \A n \in 0..L : n \in P
  <2> HIDE DEF P
  <2> QED BY <1>1, <1>2, <1>3, Rising
<1> QED BY <1>4

LEMMA PlainBody ==
    ASSUME NEW s \in BodyStates, NEW n, BodyFits(s, n), NEW line \in Code, PlainLine(line)
    PROVE  BodyStep(s, line) = [line |-> s.line + 1, open |-> s.open, depth |-> s.depth, found |-> s.found]
<1>1. \A k \in 1..Len(line) : line[k] \notin Marks
  BY PlainTokens DEF Marks
<1>2. Braces(line) = 0
  <2>1. DOMAIN line = 1..Len(line)
    BY DEF Code
  <2>2. {i \in DOMAIN line : line[i] \in {Fn, "{"}} = {} /\ {i \in DOMAIN line : line[i] = "}"} = {}
    BY <1>1, <2>1 DEF Marks
  <2>3. Cardinality({}) = 0
    BY FS_EmptySet
  <2>4. Braces(line) = Cardinality({}) - Cardinality({})
    BY <2>2, Zenon DEF Braces
  <2> QED BY <2>3, <2>4
<1>3. ~Starts(line)
  <2>1. ASSUME line # <<>>
        PROVE  Head(line) # Fn
    <3>1. 1 \in 1..Len(line) /\ Head(line) = line[1]
      BY <2>1 DEF Code
    <3> QED BY <1>1, <3>1 DEF Marks
  <2> QED BY <2>1 DEF Starts
<1>4. s.depth + Braces(line) = s.depth
  BY <1>2 DEF BodyStates
<1> QED BY <1>3, <1>4, BodyStepIs DEF BodyFits

\* A body that one line more shifts down by at most one line is no shorter.
LEMMA NoShorter ==
    \A n, a, b, limit \in Int : b <= a + 1 /\ n - a > limit => n + 1 - b > limit
BY SMT

\* What was found in what is left had been found before, one line up or where it was.
LEMMA BodiesOfRest ==
    ASSUME NEW lines \in Texts, NEW i \in 1..Len(lines), PlainLine(lines[i])
    PROVE  \A x \in Bodies(RemoveAt(lines, i)) : Past(i, x) \in Bodies(lines)
<1> DEFINE L == Len(lines)
           rest == RemoveAt(lines, i)
           first == [line |-> 0, open |-> 0, depth |-> 0, found |-> {}]
<1>1. L \in Nat /\ L - 1 \in Nat /\ i \in 1..L /\ i - 1 \in 0..L
  BY DEF Texts
<1>2. rest \in Texts /\ Len(rest) = L - 1 /\ \A n \in 1..(L - 1) : rest[n] = lines[Past(i, n)]
  BY RemoveAtFacts DEF Texts
<1>3. \A n \in 1..L : lines[n] \in Code
  BY DEF Texts
<1> HIDE DEF rest
<1>4. PICK f \in [0..L -> BodyStates] :
          /\ f[0] = first
          /\ \A n \in 1..L : f[n] = BodyStep(f[n - 1], lines[n])
          /\ Bodies(lines) = f[L].found
  BY BodiesRun
<1>5. PICK g \in [0..(L - 1) -> BodyStates] :
          /\ g[0] = first
          /\ \A n \in 1..(L - 1) : g[n] = BodyStep(g[n - 1], rest[n])
          /\ Bodies(rest) = g[L - 1].found
  BY <1>2, BodiesRun
<1>6. \A n \in 0..L : f[n] \in BodyStates /\ BodyFits(f[n], n)
  BY <1>4, BodiesFit
<1>7. \A n \in 0..(L - 1) : g[n] \in BodyStates /\ BodyFits(g[n], n)
  BY <1>2, <1>5, BodiesFit
<1>8. \A n \in 0..(i - 1) : g[n] = f[n]
  <2> DEFINE P == {n \in 0..(i - 1) : g[n] = f[n]}
  <2>1. 0 \in P
    <3>1. g[0] = f[0]
      BY <1>4, <1>5
    <3> QED BY <1>1, <3>1
  <2>2. ASSUME NEW n \in 1..(i - 1), n - 1 \in P
        PROVE  n \in P
    <3>1. n \in 1..(L - 1) /\ n \in 1..L /\ Past(i, n) = n
      BY <1>1 DEF Past
    <3>2. g[n] = BodyStep(g[n - 1], lines[n])
      BY <1>2, <1>5, <3>1
    <3>3. f[n] = BodyStep(f[n - 1], lines[n]) /\ g[n - 1] = f[n - 1]
      BY <1>4, <2>2, <3>1
    <3> QED BY <3>2, <3>3
  <2>3. i - 1 \in Nat
    BY <1>1
  <2>4. \A n \in 0..(i - 1) : n \in P
    <3> HIDE DEF P
    <3> QED BY <2>1, <2>2, <2>3, Rising
  <2> QED BY <2>4
\* One line later in the whole file, the same function is open.
<1> DEFINE Later(t, s) == /\ s.depth = t.depth
                          /\ s.open = IF t.open = 0 THEN 0 ELSE Past(i, t.open)
                          /\ \A x \in t.found : Past(i, x) \in s.found
           Same(n) == Later(g[n], f[n + 1])
           P == {m \in 0..(L - i) : Same(i - 1 + m)}
<1>9. Same(i - 1)
  <2> DEFINE s == f[i - 1]
  <2>1. f[i] = BodyStep(s, lines[i]) /\ s \in BodyStates /\ BodyFits(s, i - 1) /\ lines[i] \in Code
    BY <1>1, <1>3, <1>4, <1>6
  <2>2. g[i - 1] = s
    BY <1>1, <1>8
  <2> HIDE DEF s
  <2>3. f[i] = [line |-> s.line + 1, open |-> s.open, depth |-> s.depth, found |-> s.found]
    BY <2>1, PlainBody
  <2>4. s.open \in 0..(i - 1) /\ s.found \subseteq 1..(i - 1)
    BY <2>1 DEF BodyFits
  <2>5. /\ \A x \in s.found : Past(i, x) = x
        /\ s.open # 0 => Past(i, s.open) = s.open
    BY <1>1, <2>4 DEF Past
  <2>6. Later(s, f[i])
    BY <2>3, <2>5
  <2>7. i - 1 + 1 = i
    BY <1>1
  <2> HIDE DEF Later
  <2> QED BY <2>2, <2>6, <2>7
<1>10. ASSUME NEW n \in i..(L - 1), Same(n - 1)
       PROVE  Same(n)
  <2> DEFINE s == f[n]
             t == g[n - 1]
             line == lines[n + 1]
             depth == s.depth + Braces(line)
  <2>1. n \in 1..(L - 1) /\ n + 1 \in 1..L /\ n \in 0..L /\ n - 1 \in 0..(L - 1)
        /\ n - 1 + 1 = n /\ n + 1 - 1 = n /\ Past(i, n) = n + 1
    BY <1>1 DEF Past
  <2>2. g[n] = BodyStep(t, line)
    BY <1>2, <1>5, <2>1
  <2>3. f[n + 1] = BodyStep(s, line)
    BY <1>4, <2>1
  <2>4. Later(t, s)
    BY <1>10, <2>1
  <2>5. s \in BodyStates /\ BodyFits(s, n) /\ t \in BodyStates /\ BodyFits(t, n - 1) /\ line \in Code
    BY <1>3, <1>6, <1>7, <2>1
  <2> HIDE DEF s, t, line
  <2>6. depth \in Int /\ t.depth + Braces(line) = depth /\ s.line = n /\ t.line + 1 = n
        /\ t.open \in 0..(n - 1) /\ s.open \in 0..n
    <3>1. Braces(line) \in Int
      BY <2>5, BracesFit
    <3>2. s.depth \in Int /\ t.depth = s.depth
      BY <2>4, <2>5 DEF BodyStates
    <3>3. s.line = n /\ s.open \in 0..n /\ t.line = n - 1 /\ t.open \in 0..(n - 1)
      BY <2>5 DEF BodyFits
    <3>4. depth \in Int /\ t.depth + Braces(line) = depth
      BY <3>1, <3>2
    <3>5. t.line + 1 = n
      BY <2>1, <3>3
    <3> QED BY <3>3, <3>4, <3>5
  <2>7. (s.open = 0 <=> t.open = 0) /\ (t.open # 0 => s.open <= t.open + 1)
    BY <1>1, <2>4, <2>6 DEF Past
  <2> HIDE DEF depth
  <2>8. CASE t.open = 0 /\ ~(Starts(line) /\ depth > 0)
    <3>1. g[n] = [line |-> n, open |-> 0, depth |-> t.depth, found |-> t.found]
      BY <2>2, <2>5, <2>6, <2>8, BodyStepIs
    <3>2. f[n + 1] = [line |-> n + 1, open |-> 0, depth |-> s.depth, found |-> s.found]
      BY <2>3, <2>5, <2>6, <2>7, <2>8, BodyStepIs DEF depth
    <3> QED BY <2>4, <3>1, <3>2
  <2>9. CASE t.open = 0 /\ Starts(line) /\ depth > 0
    <3>1. g[n] = [line |-> n, open |-> n, depth |-> depth, found |-> t.found]
      BY <2>2, <2>5, <2>6, <2>9, BodyStepIs
    <3>2. f[n + 1] = [line |-> n + 1, open |-> n + 1, depth |-> depth, found |-> s.found]
      BY <2>3, <2>5, <2>6, <2>7, <2>9, BodyStepIs DEF depth
    <3> QED BY <2>1, <2>4, <3>1, <3>2
  <2>10. CASE t.open # 0 /\ depth > 0
    <3>1. g[n] = [line |-> n, open |-> t.open, depth |-> depth, found |-> t.found]
      BY <2>2, <2>5, <2>6, <2>10, BodyStepIs
    <3>2. f[n + 1] = [line |-> n + 1, open |-> s.open, depth |-> depth, found |-> s.found]
      BY <2>3, <2>5, <2>6, <2>7, <2>10, BodyStepIs DEF depth
    <3> QED BY <2>4, <2>10, <3>1, <3>2
  <2>11. CASE t.open # 0 /\ ~(depth > 0)
    <3>1. g[n] = [line |-> n, open |-> 0, depth |-> 0, found |-> Kept(t, n)]
      BY <2>2, <2>5, <2>6, <2>11, BodyStepIs
    <3>2. f[n + 1] = [line |-> n + 1, open |-> 0, depth |-> 0, found |-> Kept(s, n + 1)]
      BY <2>3, <2>5, <2>6, <2>7, <2>11, BodyStepIs DEF depth
    <3>3. n - t.open > BodyLimit => n + 1 - s.open > BodyLimit
      <4>1. BodyLimit \in Nat
        BY LimitsAssumption DEF LimitsAssumption
      <4>2. PICK a \in Int : a = t.open
        BY <2>6
      <4>3. PICK b \in Int : b = s.open
        BY <2>6
      <4>4. b <= a + 1
        BY <2>7, <2>11, <4>2, <4>3
      <4>5. n - a > BodyLimit => n + 1 - b > BodyLimit
        <5>1. n \in Int /\ a \in Int /\ b \in Int /\ BodyLimit \in Int
          BY <2>1, <4>1, <4>2, <4>3
        <5> QED BY <4>4, <5>1, NoShorter, Zenon
      <4> QED BY <4>2, <4>3, <4>5
    <3>4. s.open = Past(i, t.open)
      BY <2>4, <2>11
    <3>5. ASSUME NEW x \in g[n].found
          PROVE  Past(i, x) \in f[n + 1].found
      <4>1. x \in t.found \/ (n - t.open > BodyLimit /\ x = t.open)
        BY <3>1 DEF Kept
      <4>2. s.found \subseteq f[n + 1].found /\ (n + 1 - s.open > BodyLimit => s.open \in f[n + 1].found)
        BY <3>2 DEF Kept
      <4>3. CASE x \in t.found
        BY <2>4, <4>2, <4>3
      <4>4. CASE n - t.open > BodyLimit /\ x = t.open
        <5>1. n + 1 - s.open > BodyLimit
          BY <3>3, <4>4
        <5>2. Past(i, x) = s.open
          BY <3>4, <4>4
        <5> QED BY <4>2, <5>1, <5>2
      <4> QED BY <4>1, <4>3, <4>4
    <3>6. f[n + 1].depth = g[n].depth /\ f[n + 1].open = 0 /\ g[n].open = 0
      BY <3>1, <3>2
    <3> QED BY <3>5, <3>6
  <2> QED BY <2>8, <2>9, <2>10, <2>11
<1> HIDE DEF Later
<1>11. Same(L - 1)
  <2>1. L - i \in Nat
    BY <1>1
  <2>2. 0 \in P
    <3>1. i - 1 + 0 = i - 1
      BY <1>1
    <3> HIDE DEF Same
    <3> QED BY <1>9, <2>1, <3>1
  <2>3. ASSUME NEW m \in 1..(L - i), m - 1 \in P
        PROVE  m \in P
    <3>1. i - 1 + m \in i..(L - 1) /\ i - 1 + (m - 1) = i - 1 + m - 1 /\ m \in 0..(L - i)
      BY <1>1
    <3> HIDE DEF Same
    <3>2. Same(i - 1 + m - 1)
      BY <2>3, <3>1
    <3> QED BY <1>10, <3>1, <3>2
  <2>4. \A m \in 0..(L - i) : m \in P
    <3> HIDE DEF P
    <3> QED BY <2>1, <2>2, <2>3, Rising
  <2>5. L - i \in P
    <3> HIDE DEF P
    <3> QED BY <2>1, <2>4
  <2>6. i - 1 + (L - i) = L - 1
    BY <1>1
  <2> HIDE DEF Same
  <2> QED BY <2>5, <2>6
<1>12. \A x \in g[L - 1].found : Past(i, x) \in f[L].found
  <2>1. L - 1 + 1 = L
    BY <1>1
  <2> QED BY <1>11, <2>1 DEF Later
<1> QED BY <1>4, <1>5, <1>12 DEF rest

\* Nothing is found beyond the end of a file.
LEMMA BodiesInside ==
    ASSUME NEW lines \in Texts
    PROVE  Bodies(lines) \subseteq 1..Len(lines)
<1>1. PICK f \in [0..Len(lines) -> BodyStates] :
          /\ f[0] = [line |-> 0, open |-> 0, depth |-> 0, found |-> {}]
          /\ \A n \in 1..Len(lines) : f[n] = BodyStep(f[n - 1], lines[n])
          /\ Bodies(lines) = f[Len(lines)].found
  BY BodiesRun
<1>2. Len(lines) \in 0..Len(lines)
  BY DEF Texts
<1>3. BodyFits(f[Len(lines)], Len(lines))
  BY <1>1, <1>2, BodiesFit
<1> QED BY <1>1, <1>3 DEF BodyFits

-----------------------------------------------------------------------------
(* What is found in one file *)

\* The codes of the rules are not those of the two that look at whole files, and no
\* rule looks for more than two patterns.
LEMMA RuleFacts ==
    \A rule \in RULES :
        /\ rule.code \notin {"XX001", "XX002"}
        /\ rule.severity \in {"warn", "error"}
        /\ DOMAIN rule.scans \subseteq 1..2
<1> DEFINE Fine(rule) == /\ rule.code \notin {"XX001", "XX002"}
                         /\ rule.severity \in {"warn", "error"}
                         /\ DOMAIN rule.scans \subseteq 1..2
<1>1. ASSUME NEW code, code \notin {"XX001", "XX002"}, NEW lang, NEW severity \in {"warn", "error"},
             NEW scans, DOMAIN scans \subseteq 1..2, NEW spares, NEW lets
      PROVE  Fine(Rule(code, lang, severity, scans, spares, lets))
  BY <1>1 DEF Rule
<1>2. /\ \A p : DOMAIN <<p>> \subseteq 1..2
      /\ \A p, q : DOMAIN <<p, q>> \subseteq 1..2
  OBVIOUS
<1> HIDE DEF Fine
<1>3. ASSUME NEW code, code \notin {"XX001", "XX002"}, NEW lang, NEW severity \in {"warn", "error"},
             NEW p, NEW q, NEW spares, NEW lets
      PROVE  /\ Fine(Plain(code, lang, severity, p)) /\ Fine(Carved(code, lang, severity, p, lets))
             /\ Fine(Rule(code, lang, severity, <<p, q>>, spares, lets))
             /\ Fine(Rule(code, lang, severity, <<p>>, spares, lets))
  BY <1>1, <1>2, <1>3 DEF Plain, Carved
<1>4. \A rule \in RustRules : Fine(rule)
  <2>1. /\ Fine(Carved("RS001", "rust", "warn", {"let mut"}, {"stateful"}))
        /\ Fine(Rule("RS002", "rust", "error", <<{"static mut"}, {"global lock"}>>, {}, {"boundary"}))
        /\ Fine(Plain("RS003", "rust", "error", {"unwrap", "panic"}))
        /\ Fine(Plain("RS004", "rust", "warn", {"wildcard arm"}))
        /\ Fine(Plain("RS005", "rust", "warn", {"erased error"}))
        /\ Fine(Carved("RS006", "rust", "warn", {"cell"}, {"stateful", "boundary"}))
        /\ Fine(Carved("RS007", "rust", "warn", {"print"}, {"boundary"}))
        /\ Fine(Carved("RS008", "rust", "warn", {"unit method"}, {"stateful"}))
        /\ Fine(Plain("RS009", "rust", "error", {"unsafe"}))
    BY <1>3
  <2> QED BY <2>1 DEF RustRules
<1>5. \A rule \in TypeScriptRules : Fine(rule)
  <2>1. /\ Fine(Plain("TS001", "ts", "error", {"var", "top var"}))
        /\ Fine(Rule("TS002", "ts", "warn", <<{"let", "top let"}>>, {"top let", "top var"}, {"stateful"}))
        /\ Fine(Carved("TS003", "ts", "error", {"top let", "top var"}, {"boundary"}))
        /\ Fine(Rule("TS004", "ts", "warn", <<{"push"}, {"delete"}>>, {}, {}))
        /\ Fine(Plain("TS005", "ts", "warn", {"any"}))
        /\ Fine(Plain("TS006", "ts", "warn", {"throw"}))
        /\ Fine(Plain("TS007", "ts", "error", {"react"}))
        /\ Fine(Carved("TS008", "ts", "warn", {"console"}, {"boundary"}))
        /\ Fine(Carved("TS009", "ts", "warn", {"clock"}, {"boundary"}))
        /\ Fine(Plain("TS010", "ts", "warn", {"bang"}))
    BY <1>3
  <2> QED BY <2>1 DEF TypeScriptRules
<1>6. \A rule \in DartRules : Fine(rule)
  <2>1. /\ Fine(Carved("DA001", "dart", "warn", {"var", "top var"}, {"stateful"}))
        /\ Fine(Carved("DA002", "dart", "error", {"top var"}, {"boundary"}))
        /\ Fine(Carved("DA003", "dart", "warn", {"field"}, {"stateful"}))
        /\ Fine(Plain("DA004", "dart", "warn", {"late"}))
        /\ Fine(Plain("DA005", "dart", "warn", {"throw"}))
        /\ Fine(Carved("DA006", "dart", "warn", {"print"}, {"boundary"}))
        /\ Fine(Plain("DA007", "dart", "warn", {"bang"}))
        /\ Fine(Carved("DA008", "dart", "warn", {"push"}, {"stateful"}))
        /\ Fine(Plain("DA009", "dart", "warn", {"default arm"}))
    BY <1>3
  <2> QED BY <2>1 DEF DartRules
<1>7. \A rule \in RULES : Fine(rule)
  BY <1>4, <1>5, <1>6 DEF RULES
<1> QED BY <1>7 DEF Fine

LEMMA InFindings ==
    ASSUME NEW place, NEW lines, NEW f
    PROVE  f \in Findings(place, lines) <=>
               \E rule \in RULES, n \in DOMAIN lines : \E k \in DOMAIN rule.scans :
                   /\ rule.lang = place.lang /\ ~Spared(rule, place) /\ Matches(rule, lines[n], k)
                   /\ f = <<rule.code, place, n, k>>
<1> DEFINE rules == {rule \in RULES : rule.lang = place.lang /\ ~Spared(rule, place)}
           ats(rule) == {at \in (DOMAIN lines) \X (DOMAIN rule.scans) : Matches(rule, lines[at[1]], at[2])}
           found(rule) == {<<rule.code, place, at[1], at[2]>> : at \in ats(rule)}
<1>1. f \in Findings(place, lines) <=> \E rule \in rules : f \in found(rule)
  BY DEF Findings
<1>2. ASSUME NEW rule \in RULES
      PROVE  f \in found(rule) <=>
                 \E n \in DOMAIN lines, k \in DOMAIN rule.scans :
                     Matches(rule, lines[n], k) /\ f = <<rule.code, place, n, k>>
  <2>1. ASSUME f \in found(rule)
        PROVE  \E n \in DOMAIN lines, k \in DOMAIN rule.scans :
                   Matches(rule, lines[n], k) /\ f = <<rule.code, place, n, k>>
    <3>1. PICK at \in ats(rule) : f = <<rule.code, place, at[1], at[2]>>
      BY <2>1
    <3>2. at[1] \in DOMAIN lines /\ at[2] \in DOMAIN rule.scans /\ Matches(rule, lines[at[1]], at[2])
      OBVIOUS
    <3> QED BY <3>1, <3>2
  <2>2. ASSUME NEW n \in DOMAIN lines, NEW k \in DOMAIN rule.scans,
               Matches(rule, lines[n], k), f = <<rule.code, place, n, k>>
        PROVE  f \in found(rule)
    <3>1. <<n, k>> \in ats(rule) /\ <<n, k>>[1] = n /\ <<n, k>>[2] = k
      BY <2>2
    <3> HIDE DEF ats
    <3> QED BY <2>2, <3>1
  <2> QED BY <2>1, <2>2
<1> HIDE DEF found
<1> QED BY <1>1, <1>2

\* Everything that is found in one file.
FoundIn(place, lines) == Findings(place, lines) \cup god_file(place, lines) \cup long_fn(place, lines)

\* Where a finding was before the i-th line was taken out.
Back(i, f) == IF f[1] = "XX001" THEN f ELSE <<f[1], f[2], Past(i, f[3]), f[4]>>

LEMMA FoundShape ==
    ASSUME NEW place, NEW lines \in Texts, NEW f \in FoundIn(place, lines)
    PROVE  /\ \E c : \E n \in 1..(Len(lines) + 1), k \in 1..2 : f = <<c, place, n, k>>
           /\ f[1] = "XX001" => f = <<"XX001", place, 1, 1>>
<1>1. Len(lines) \in Nat /\ DOMAIN lines = 1..Len(lines)
  BY DEF Texts
<1> DEFINE Shape(c, n, k) == <<c, place, n, k>>
<1>2. ASSUME NEW c, NEW n \in 1..(Len(lines) + 1), NEW k \in 1..2, f = Shape(c, n, k),
             c = "XX001" => n = 1 /\ k = 1
      PROVE  /\ \E d : \E m \in 1..(Len(lines) + 1), l \in 1..2 : f = Shape(d, m, l)
             /\ f[1] = "XX001" => f = <<"XX001", place, 1, 1>>
  <2>1. f[1] = c
    BY <1>2
  <2>2. f[1] = "XX001" => f = <<"XX001", place, 1, 1>>
    BY <1>2, <2>1
  <2>3. \E d : \E m \in 1..(Len(lines) + 1), l \in 1..2 : f = Shape(d, m, l)
    <3> HIDE DEF Shape
    <3> QED BY <1>2
  <2> QED BY <2>2, <2>3
<1>3. CASE f \in Findings(place, lines)
  <2>1. PICK rule, n, k : /\ rule \in RULES /\ n \in DOMAIN lines /\ k \in DOMAIN rule.scans
                          /\ f = <<rule.code, place, n, k>>
    BY <1>3, InFindings
  <2>2. n \in 1..(Len(lines) + 1) /\ k \in 1..2 /\ rule.code # "XX001"
    BY <1>1, <2>1, RuleFacts
  <2> QED BY <1>2, <2>1, <2>2
<1>4. CASE f \in god_file(place, lines)
  <2>1. f = <<"XX001", place, 1, 1>>
    BY <1>4 DEF god_file
  <2>2. 1 \in 1..(Len(lines) + 1) /\ 1 \in 1..2
    BY <1>1
  <2> QED BY <1>2, <2>1, <2>2
<1>5. CASE f \in long_fn(place, lines)
  <2>1. PICK n \in Bodies(lines) : f = <<"XX002", place, n, 1>>
    BY <1>5 DEF long_fn, Bodies
  <2>2. n \in 1..(Len(lines) + 1) /\ 1 \in 1..2
    BY <1>1, BodiesInside
  <2> QED BY <1>2, <2>1, <2>2
<1> QED BY <1>3, <1>4, <1>5 DEF FoundIn

\* What is found in what is left was found before.
LEMMA FoundBefore ==
    ASSUME NEW place, NEW lines \in Texts, NEW i \in 1..Len(lines), PlainLine(lines[i]),
           NEW f \in FoundIn(place, RemoveAt(lines, i))
    PROVE  Back(i, f) \in FoundIn(place, lines) /\ Back(i, f)[1] = f[1]
<1> DEFINE rest == RemoveAt(lines, i)
           L == Len(lines)
<1>1. L \in Nat /\ L - 1 \in Nat /\ DOMAIN lines = 1..L
  BY DEF Texts
<1>2. rest \in Texts /\ Len(rest) = L - 1 /\ \A n \in 1..(L - 1) : rest[n] = lines[Past(i, n)]
  BY RemoveAtFacts DEF Texts
<1>3. \A x \in Bodies(rest) : Past(i, x) \in Bodies(lines)
  BY BodiesOfRest
<1> HIDE DEF rest
<1>4. CASE f \in Findings(place, rest)
  <2>1. PICK rule, n, k :
            /\ rule \in RULES /\ n \in DOMAIN rest /\ k \in DOMAIN rule.scans
            /\ rule.lang = place.lang /\ ~Spared(rule, place) /\ Matches(rule, rest[n], k)
            /\ f = <<rule.code, place, n, k>>
    BY <1>4, InFindings
  <2>2. n \in 1..(L - 1)
    BY <1>2, <2>1 DEF Texts
  <2>3. Past(i, n) \in DOMAIN lines /\ rest[n] = lines[Past(i, n)]
    BY <1>1, <1>2, <2>2 DEF Past
  <2>4. Matches(rule, lines[Past(i, n)], k)
    BY <2>1, <2>3
  <2>5. <<rule.code, place, Past(i, n), k>> \in Findings(place, lines)
    BY <2>1, <2>3, <2>4, InFindings
  <2>6. Back(i, f) = <<rule.code, place, Past(i, n), k>>
    BY <2>1, RuleFacts DEF Back
  <2>7. <<rule.code, place, Past(i, n), k>>[1] = f[1]
    BY <2>1
  <2> QED BY <2>5, <2>6, <2>7 DEF FoundIn
<1>5. CASE f \in god_file(place, rest)
  <2>1. f = <<"XX001", place, 1, 1>> /\ L - 1 > (IF place.entry THEN EntryLimit ELSE ModuleLimit)
    BY <1>2, <1>5 DEF god_file
  <2>2. EntryLimit \in Nat /\ ModuleLimit \in Nat
    BY LimitsAssumption DEF LimitsAssumption
  <2>3. L > (IF place.entry THEN EntryLimit ELSE ModuleLimit)
    BY <1>1, <2>1, <2>2
  <2>4. f \in god_file(place, lines)
    BY <2>1, <2>3 DEF god_file
  <2>5. f[1] = "XX001"
    BY <2>1
  <2> QED BY <2>4, <2>5 DEF Back, FoundIn
<1>6. CASE f \in long_fn(place, rest)
  <2>1. PICK n \in Bodies(rest) : f = <<"XX002", place, n, 1>>
    BY <1>6 DEF long_fn, Bodies
  <2>2. Back(i, f) = <<"XX002", place, Past(i, n), 1>>
    BY <2>1 DEF Back
  <2>3. <<"XX002", place, Past(i, n), 1>> \in long_fn(place, lines)
    BY <1>3 DEF long_fn, Bodies
  <2>4. <<"XX002", place, Past(i, n), 1>>[1] = f[1]
    BY <2>1
  <2> QED BY <2>2, <2>3, <2>4 DEF FoundIn
<1> QED BY <1>4, <1>5, <1>6 DEF FoundIn, rest

-----------------------------------------------------------------------------
(* What is found in all files *)

\* Files whose comments and strings are gone, none of which is too long.
Short(masked) ==
    /\ masked \in [DOMAIN masked -> Texts] /\ IsFiniteSet(DOMAIN masked)
    /\ \A place \in DOMAIN masked : Len(masked[place]) <= FileLimit

\* What is found by the rule of a code.
Broken(masked, code) == {f \in analyse(masked) : f[1] = code}

LEMMA InBroken ==
    ASSUME NEW masked, Short(masked), NEW code, NEW f
    PROVE  /\ f \in Broken(masked, code) <=>
                  \E place \in DOMAIN masked : f \in FoundIn(place, masked[place]) /\ f[1] = code
           /\ f \in Broken(masked, code) =>
                  \E place \in DOMAIN masked : \E n \in 0..(FileLimit + 1), k \in 1..2 : f = <<code, place, n, k>>
<1>1. f \in Broken(masked, code) <=>
          \E place \in DOMAIN masked : f \in FoundIn(place, masked[place]) /\ f[1] = code
  BY DEF Broken, analyse, FoundIn
<1>2. ASSUME NEW place \in DOMAIN masked, f \in FoundIn(place, masked[place]), f[1] = code
      PROVE  \E n \in 0..(FileLimit + 1), k \in 1..2 : f = <<code, place, n, k>>
  <2>1. masked[place] \in Texts /\ Len(masked[place]) <= FileLimit /\ Len(masked[place]) \in Nat /\ FileLimit \in Nat
    BY LimitsAssumption DEF LimitsAssumption, Short, Texts
  <2>2. \E c : \E n \in 1..(Len(masked[place]) + 1), k \in 1..2 : f = <<c, place, n, k>>
    BY <1>2, <2>1, FoundShape
  <2>3. PICK c : \E n \in 1..(Len(masked[place]) + 1), k \in 1..2 : f = <<c, place, n, k>>
    BY <2>2
  <2>4. PICK n \in 1..(Len(masked[place]) + 1), k \in 1..2 : f = <<c, place, n, k>>
    BY <2>3
  <2>5. n \in 0..(FileLimit + 1)
    BY <2>1
  <2>6. c = code
    BY <1>2, <2>4
  <2> QED BY <2>4, <2>5, <2>6
<1> QED BY <1>1, <1>2

LEMMA BrokenIsFinite ==
    ASSUME NEW masked, Short(masked), NEW code
    PROVE  IsFiniteSet(Broken(masked, code)) /\ Cardinality(Broken(masked, code)) \in Nat
<1> DEFINE S == Broken(masked, code)
           T == ((DOMAIN masked) \X (0..(FileLimit + 1))) \X (1..2)
           h == [f \in S |-> <<<<f[2], f[3]>>, f[4]>>]
<1>1. IsFiniteSet(T)
  <2>1. IsFiniteSet(DOMAIN masked)
    BY DEF Short
  <2>2. FileLimit + 1 \in Int /\ 0 \in Int /\ 1 \in Int /\ 2 \in Int
    BY LimitsAssumption DEF LimitsAssumption
  <2>3. IsFiniteSet(0..(FileLimit + 1)) /\ IsFiniteSet(1..2)
    BY <2>2, FS_Interval
  <2>4. IsFiniteSet((DOMAIN masked) \X (0..(FileLimit + 1)))
    BY <2>1, <2>3, FS_Product
  <2> QED BY <2>3, <2>4, FS_Product
<1>2. ASSUME NEW f \in S
      PROVE  \E place \in DOMAIN masked : \E n \in 0..(FileLimit + 1), k \in 1..2 :
                 f = <<code, place, n, k>> /\ h[f] = <<<<place, n>>, k>>
  <2>1. PICK place, n, k :
            place \in DOMAIN masked /\ n \in 0..(FileLimit + 1) /\ k \in 1..2 /\ f = <<code, place, n, k>>
    BY InBroken
  <2>2. h[f] = <<<<place, n>>, k>>
    BY <2>1
  <2> QED BY <2>1, <2>2
<1>3. h \in [S -> T]
  <2>1. \A f \in S : h[f] \in T
    <3> HIDE DEF S, h
    <3> QED BY <1>2
  <2> HIDE DEF T
  <2> QED BY <2>1
<1>4. ASSUME NEW f \in S, NEW g \in S, h[f] = h[g]
      PROVE  f = g
  <2> HIDE DEF S, h
  <2>1. PICK p, n, k : f = <<code, p, n, k>> /\ h[f] = <<<<p, n>>, k>>
    BY <1>2
  <2>2. PICK q, m, l : g = <<code, q, m, l>> /\ h[g] = <<<<q, m>>, l>>
    BY <1>2
  <2> QED BY <1>4, <2>1, <2>2
<1> HIDE DEF S, T, h
<1>5. h \in Injection(S, T)
  BY <1>3, <1>4 DEF Injection, IsInjective
<1>6. IsFiniteSet(S)
  BY <1>1, <1>5, FS_Injection
<1> QED BY <1>6, FS_CardinalityType DEF S

LEMMA PastInjects ==
    ASSUME NEW i \in Nat, NEW m \in Nat, NEW n \in Nat, Past(i, m) = Past(i, n)
    PROVE  m = n
BY DEF Past

\* The rest of the files, when a line without marks is gone.
LEMMA FewerBroken ==
    ASSUME NEW masked, Short(masked), NEW place \in DOMAIN masked, NEW i \in 1..Len(masked[place]),
           PlainLine(masked[place][i]), NEW code
    PROVE  LET rest == [masked EXCEPT ![place] = RemoveAt(@, i)]
           IN  /\ Short(rest)
               /\ Cardinality(Broken(rest, code)) <= Cardinality(Broken(masked, code))
               /\ Broken(rest, code) # {} => Broken(masked, code) # {}
<1> DEFINE rest == [masked EXCEPT ![place] = RemoveAt(@, i)]
           S == Broken(rest, code)
           T == Broken(masked, code)
           h == [f \in S |-> IF f[2] = place THEN Back(i, f) ELSE f]
<1>1. /\ masked \in [DOMAIN masked -> Texts] /\ masked[place] \in Texts /\ Len(masked[place]) \in Nat
      /\ FileLimit \in Nat /\ Len(masked[place]) <= FileLimit /\ i \in Nat
  BY LimitsAssumption DEF LimitsAssumption, Short, Texts
<1>2. RemoveAt(masked[place], i) \in Texts /\ Len(RemoveAt(masked[place], i)) = Len(masked[place]) - 1
  BY <1>1, RemoveAtFacts DEF Texts
<1>3. /\ DOMAIN rest = DOMAIN masked /\ rest \in [DOMAIN masked -> Texts]
      /\ rest[place] = RemoveAt(masked[place], i)
      /\ \A p \in DOMAIN masked : p # place => rest[p] = masked[p]
  BY <1>1, <1>2
<1> HIDE DEF rest
<1>4. Short(rest)
  <2>1. \A p \in DOMAIN masked : Len(rest[p]) <= FileLimit
    BY <1>1, <1>2, <1>3 DEF Short
  <2> QED BY <1>3, <2>1 DEF Short
<1>5. IsFiniteSet(T)
  BY BrokenIsFinite
<1>6. ASSUME NEW f \in S
      PROVE  \E p \in DOMAIN masked : \E n \in Nat, k \in 1..2 :
                 f = <<code, p, n, k>> /\ f \in FoundIn(p, rest[p])
  <2>1. PICK p \in DOMAIN rest : f \in FoundIn(p, rest[p]) /\ f[1] = code
    BY <1>4, InBroken
  <2>2. rest[p] \in Texts /\ Len(rest[p]) \in Nat
    BY <1>3, <2>1 DEF Texts
  <2>3. PICK c : \E n \in 1..(Len(rest[p]) + 1), k \in 1..2 : f = <<c, p, n, k>>
    BY <2>1, <2>2, FoundShape
  <2>4. PICK n \in 1..(Len(rest[p]) + 1), k \in 1..2 : f = <<c, p, n, k>>
    BY <2>3
  <2>5. c = code /\ n \in Nat
    BY <2>1, <2>2, <2>4
  <2> QED BY <1>3, <2>1, <2>4, <2>5
<1>7. ASSUME NEW f \in S
      PROVE  h[f] \in T
  <2>1. PICK p, n, k : p \in DOMAIN masked /\ f = <<code, p, n, k>> /\ f \in FoundIn(p, rest[p])
    BY <1>6
  <2>2. f[2] = p /\ f[1] = code
    BY <2>1
  <2>3. CASE p = place
    <3>1. Back(i, f) \in FoundIn(place, masked[place]) /\ Back(i, f)[1] = code
      <4>1. f \in FoundIn(place, RemoveAt(masked[place], i))
        BY <1>3, <2>1, <2>3
      <4>2. Back(i, f) \in FoundIn(place, masked[place]) /\ Back(i, f)[1] = f[1]
        <5>1. PICK whole \in Texts : whole = masked[place]
          BY <1>1
        <5>2. i \in 1..Len(whole) /\ PlainLine(whole[i]) /\ f \in FoundIn(place, RemoveAt(whole, i))
          BY <4>1, <5>1
        <5>3. Back(i, f) \in FoundIn(place, whole) /\ Back(i, f)[1] = f[1]
          BY <5>2, FoundBefore
        <5> QED BY <5>1, <5>3
      <4> QED BY <2>2, <4>2
    <3>2. Back(i, f) \in T
      BY <3>1, InBroken
    <3> HIDE DEF S, T
    <3> QED BY <2>2, <2>3, <3>2
  <2>4. CASE p # place
    <3>1. f \in FoundIn(p, masked[p])
      BY <1>3, <2>1, <2>4
    <3>2. f \in T
      BY <2>1, <2>2, <3>1, InBroken
    <3> HIDE DEF S, T
    <3> QED BY <2>2, <2>4, <3>2
  <2> QED BY <2>3, <2>4
<1>8. ASSUME NEW f \in S, NEW g \in S, h[f] = h[g]
      PROVE  f = g
  <2>1. PICK p, n, k : n \in Nat /\ f = <<code, p, n, k>>
    BY <1>6
  <2>2. PICK q, m, l : m \in Nat /\ g = <<code, q, m, l>>
    BY <1>6
  <2>3. h[f] = IF p = place /\ code # "XX001" THEN <<code, p, Past(i, n), k>> ELSE f
    BY <2>1 DEF Back
  <2>4. h[g] = IF q = place /\ code # "XX001" THEN <<code, q, Past(i, m), l>> ELSE g
    BY <2>2 DEF Back
  <2> HIDE DEF S, h
  <2>5. CASE code = "XX001"
    BY <1>8, <2>3, <2>4, <2>5
  <2>6. CASE code # "XX001"
    <3>1. PICK a : a = (IF p = place THEN Past(i, n) ELSE n)
      OBVIOUS
    <3>2. PICK b : b = (IF q = place THEN Past(i, m) ELSE m)
      OBVIOUS
    <3>3. h[f] = <<code, p, a, k>> /\ h[g] = <<code, q, b, l>>
      BY <2>1, <2>2, <2>3, <2>4, <2>6, <3>1, <3>2
    <3>4. p = q /\ a = b /\ k = l
      <4>1. h[f][2] = p /\ h[f][3] = a /\ h[f][4] = k
        BY <3>3
      <4>2. h[g][2] = q /\ h[g][3] = b /\ h[g][4] = l
        BY <3>3
      <4> QED BY <1>8, <4>1, <4>2
    <3>5. n = m
      BY <1>1, <2>1, <2>2, <3>1, <3>2, <3>4, PastInjects
    <3> QED BY <2>1, <2>2, <3>4, <3>5
  <2> QED BY <2>5, <2>6
<1> HIDE DEF S, T
<1>9. h \in [S -> T]
  BY <1>7
<1> HIDE DEF h
<1>10. h \in Injection(S, T)
  BY <1>8, <1>9 DEF Injection, IsInjective
<1>11. Cardinality(S) <= Cardinality(T)
  BY <1>5, <1>10, FS_Injection
<1>12. S # {} => T # {}
  BY <1>9
<1> QED BY <1>4, <1>11, <1>12 DEF rest, S, T

-----------------------------------------------------------------------------
(* The counts of a scan *)

\* Files with lines of tokens, of which there are not infinitely many.
Sound(sources) == sources \in [DOMAIN sources -> Texts] /\ IsFiniteSet(DOMAIN sources)

LEMMA NoiseKeeps ==
    ASSUME NEW lines \in Texts
    PROVE  strip_noise(lines) \in Texts /\ Len(strip_noise(lines)) = Len(lines)
<1>1. PICK f \in [0..Len(lines) -> NoiseStates] :
          /\ f[0] = [masked |-> <<>>, block |-> FALSE]
          /\ \A n \in 1..Len(lines) : f[n] = NoiseStep(f[n - 1], lines[n])
          /\ strip_noise(lines) = f[Len(lines)].masked
  BY NoiseRun
<1>2. f[0].masked = <<>>
  BY <1>1
<1>3. Len(lines) \in 0..Len(lines)
  BY DEF Texts
<1>4. Len(f[Len(lines)].masked) = Len(lines)
  BY <1>1, <1>2, <1>3, NoiseFits
<1>5. f[Len(lines)] \in NoiseStates
  BY <1>3
<1> QED BY <1>1, <1>4, <1>5 DEF NoiseStates

LEMMA MaskedIsShort ==
    ASSUME NEW sources, Sound(sources)
    PROVE  Short(Masked(sources))
<1>1. Scanned(sources) \subseteq DOMAIN sources
  BY DEF Scanned
<1>2. IsFiniteSet(Scanned(sources))
  BY <1>1, FS_Subset DEF Sound
<1>3. ASSUME NEW place \in Scanned(sources)
      PROVE  /\ strip_noise(sources[place]) \in Texts
             /\ Len(strip_noise(sources[place])) <= FileLimit
  <2>1. sources[place] \in Texts /\ Len(sources[place]) <= FileLimit
    BY <1>1 DEF Sound, Scanned
  <2> QED BY <2>1, NoiseKeeps
<1>4. Masked(sources) = [place \in Scanned(sources) |-> strip_noise(sources[place])]
  BY DEF Masked
<1> QED BY <1>2, <1>3, <1>4 DEF Short

\* A rule is counted when it is broken, as often as it is.
LEMMA CountsAre ==
    ASSUME NEW masked, Short(masked), NEW code
    PROVE  /\ code \in DOMAIN summarise(analyse(masked)) <=> Broken(masked, code) # {}
           /\ code \in DOMAIN summarise(analyse(masked)) =>
                  /\ summarise(analyse(masked))[code] = Cardinality(Broken(masked, code))
                  /\ summarise(analyse(masked))[code] \in Nat
<1>1. DOMAIN summarise(analyse(masked)) = {f[1] : f \in analyse(masked)}
  BY DEF summarise
<1>2. code \in DOMAIN summarise(analyse(masked)) <=> Broken(masked, code) # {}
  BY <1>1 DEF Broken
<1>3. ASSUME code \in DOMAIN summarise(analyse(masked))
      PROVE  summarise(analyse(masked))[code] = Cardinality(Broken(masked, code))
  BY <1>1, <1>3 DEF summarise, Broken
<1> QED BY <1>2, <1>3, BrokenIsFinite

\* A line without marks that is taken out takes nothing but itself out of what is
\* looked at, so no rule is broken more often.
LEMMA FewerCounted ==
    ASSUME NEW sources, Sound(sources), NEW place \in Scanned(sources), NEW i \in DOMAIN sources[place],
           PlainLine(sources[place][i]), NEW code
    PROVE  LET rest == [sources EXCEPT ![place] = RemoveAt(@, i)]
           IN  code \in DOMAIN Counts(rest) =>
                   /\ code \in DOMAIN Counts(sources)
                   /\ Counts(rest)[code] <= Counts(sources)[code]
                   /\ Counts(rest)[code] \in Nat /\ Counts(sources)[code] \in Nat
<1> DEFINE rest == [sources EXCEPT ![place] = RemoveAt(@, i)]
           masked == Masked(sources)
           lines == sources[place]
<1>1. /\ sources \in [DOMAIN sources -> Texts] /\ place \in DOMAIN sources /\ lines \in Texts
      /\ i \in 1..Len(lines) /\ Len(lines) \in Nat /\ Len(lines) <= FileLimit /\ FileLimit \in Nat /\ ~place.exempt
  BY LimitsAssumption DEF LimitsAssumption, Sound, Scanned, Texts
<1>2. RemoveAt(lines, i) \in Texts /\ Len(RemoveAt(lines, i)) = Len(lines) - 1
  BY <1>1, RemoveAtFacts DEF Texts
<1>3. /\ DOMAIN rest = DOMAIN sources /\ rest \in [DOMAIN sources -> Texts]
      /\ rest[place] = RemoveAt(lines, i)
      /\ \A p \in DOMAIN sources : p # place => rest[p] = sources[p]
  BY <1>1, <1>2
<1>4. /\ strip_noise(lines) \in Texts /\ Len(strip_noise(lines)) = Len(lines)
      /\ PlainLine(strip_noise(lines)[i])
      /\ strip_noise(RemoveAt(lines, i)) = RemoveAt(strip_noise(lines), i)
  <2>1. PICK whole \in Texts : whole = lines
    BY <1>1
  <2>2. i \in 1..Len(whole) /\ PlainLine(whole[i])
    BY <1>1, <2>1
  <2>3. /\ strip_noise(whole) \in Texts /\ Len(strip_noise(whole)) = Len(whole)
        /\ PlainLine(strip_noise(whole)[i])
        /\ strip_noise(RemoveAt(whole, i)) = RemoveAt(strip_noise(whole), i)
    BY <2>2, NoiseOfRest
  <2> QED BY <2>1, <2>3
<1>5. /\ DOMAIN masked = Scanned(sources)
      /\ \A p \in Scanned(sources) : masked[p] = strip_noise(sources[p])
  BY DEF Masked
<1>6. Short(masked)
  BY MaskedIsShort
<1> HIDE DEF rest, lines
<1>7. Scanned(rest) = Scanned(sources)
  <2>1. ASSUME NEW p \in DOMAIN sources
        PROVE  Len(rest[p]) <= FileLimit <=> Len(sources[p]) <= FileLimit
    <3>1. CASE p = place
      BY <1>1, <1>2, <1>3, <3>1 DEF lines
    <3>2. CASE p # place
      BY <1>3, <3>2
    <3> QED BY <3>1, <3>2
  <2> QED BY <1>3, <2>1 DEF Scanned
<1>8. Masked(rest) = [masked EXCEPT ![place] = RemoveAt(@, i)]
  <2>1. masked = [p \in Scanned(sources) |-> strip_noise(sources[p])]
    BY DEF Masked
  <2>2. Masked(rest) = [p \in Scanned(sources) |-> strip_noise(rest[p])]
    BY <1>7 DEF Masked
  <2>3. ASSUME NEW p \in Scanned(sources)
        PROVE  strip_noise(rest[p]) = IF p = place THEN RemoveAt(masked[p], i) ELSE masked[p]
    <3>1. p \in DOMAIN sources
      BY DEF Scanned
    <3>2. CASE p = place
      BY <1>3, <1>4, <1>5, <3>2 DEF lines
    <3>3. CASE p # place
      BY <1>3, <1>5, <3>1, <3>3
    <3> QED BY <3>2, <3>3
  <2> HIDE DEF masked
  <2>4. [masked EXCEPT ![place] = RemoveAt(@, i)] =
        [p \in Scanned(sources) |-> IF p = place THEN RemoveAt(masked[p], i) ELSE masked[p]]
    BY <2>1
  <2> QED BY <2>2, <2>3, <2>4
<1>9. place \in DOMAIN masked /\ i \in 1..Len(masked[place]) /\ PlainLine(masked[place][i])
  BY <1>1, <1>4, <1>5 DEF lines
<1> HIDE DEF masked
<1>10. PICK after : after = [masked EXCEPT ![place] = RemoveAt(@, i)]
  OBVIOUS
<1>11. /\ Short(after)
       /\ Cardinality(Broken(after, code)) <= Cardinality(Broken(masked, code))
       /\ Broken(after, code) # {} => Broken(masked, code) # {}
  BY <1>6, <1>9, <1>10, FewerBroken
<1>12. Counts(rest) = summarise(analyse(after)) /\ Counts(sources) = summarise(analyse(masked))
  BY <1>8, <1>10 DEF Counts, masked
<1>13. ASSUME code \in DOMAIN Counts(rest)
       PROVE  /\ code \in DOMAIN Counts(sources)
              /\ Counts(rest)[code] <= Counts(sources)[code]
              /\ Counts(rest)[code] \in Nat /\ Counts(sources)[code] \in Nat
  <2>1. Broken(after, code) # {} /\ Counts(rest)[code] = Cardinality(Broken(after, code))
        /\ Counts(rest)[code] \in Nat
    BY <1>11, <1>12, <1>13, CountsAre
  <2>2. code \in DOMAIN Counts(sources) /\ Counts(sources)[code] = Cardinality(Broken(masked, code))
        /\ Counts(sources)[code] \in Nat
    BY <1>6, <1>11, <1>12, <2>1, CountsAre
  <2> QED BY <1>11, <2>1, <2>2
<1> QED BY <1>13 DEF rest

LEMMA CountsAreNumbers ==
    ASSUME NEW sources, Sound(sources)
    PROVE  Counts(sources) \in [DOMAIN Counts(sources) -> Nat]
<1>1. \A code \in DOMAIN Counts(sources) : Counts(sources)[code] \in Nat
  BY MaskedIsShort, CountsAre DEF Counts
<1>2. Counts(sources) = [code \in DOMAIN Counts(sources) |-> Counts(sources)[code]]
  BY DEF Counts, summarise
<1> QED BY <1>1, <1>2

-----------------------------------------------------------------------------
(* Scans *)

\* The state that developers and scans keep: sources that can be read, a budget of
\* numbers, and the exit code of a scan of the sources as they are.
SourcesSound == Sound(tree)
BudgetSound == budget \notin {Missing, Torn} => budget.counts \in [DOMAIN budget.counts -> Nat]
ExitIsOfTree == exit # None => exit = ExitCode(Counts(tree), failOn)
OptionSound == failOn \in {"never", "error", "warn"}
Scanning == SourcesSound /\ BudgetSound /\ ExitIsOfTree /\ OptionSound

LEMMA InsertAtFits ==
    ASSUME NEW S, NEW seq \in Seq(S), NEW i \in 1..(Len(seq) + 1), NEW x \in S
    PROVE  InsertAt(seq, i, x) \in Seq(S)
<1>1. SubSeq(seq, 1, i - 1) \in Seq(S)
  OBVIOUS
<1>2. SubSeq(seq, i, Len(seq)) \in Seq(S)
  OBVIOUS
<1>3. <<x>> \in Seq(S)
  OBVIOUS
<1> QED BY <1>1, <1>2, <1>3 DEF InsertAt

LEMMA ScanningInit == Init => Scanning
<1> SUFFICES ASSUME Init PROVE Scanning
  OBVIOUS
<1>1. PICK place \in Places, lines \in Sources : tree = [p \in {place} |-> lines]
  BY DEF Init
<1>2. lines \in Texts
  BY SourcesAssumption DEF SourcesAssumption, Texts, Code, Tokens
<1>3. DOMAIN tree = {place} /\ tree \in [{place} -> Texts]
  BY <1>1, <1>2
<1>4. IsFiniteSet({place})
  BY FS_Singleton
<1>5. SourcesSound
  BY <1>3, <1>4 DEF SourcesSound, Sound
<1>6. BudgetSound /\ ExitIsOfTree /\ OptionSound
  BY DEF Init, BudgetSound, ExitIsOfTree, OptionSound
<1> QED BY <1>5, <1>6 DEF Scanning

LEMMA ScanningStep == Scanning /\ [Next]_vars => Scanning'
<1> SUFFICES ASSUME Scanning, [Next]_vars PROVE Scanning'
  OBVIOUS
<1>1. /\ Sound(tree) /\ BudgetSound /\ ExitIsOfTree /\ failOn \in {"never", "error", "warn"}
      /\ tree \in [DOMAIN tree -> Texts] /\ IsFiniteSet(DOMAIN tree)
  BY DEF Scanning, SourcesSound, OptionSound, Sound
<1>2. ASSUME NEW option \in {"never", "error", "warn"}, Scan(option)
      PROVE  Scanning'
  <2>1. tree' = tree /\ budget' = budget /\ failOn' = option /\ exit' = ExitCode(Counts(tree), option)
    BY <1>2 DEF Scan
  <2>2. ExitIsOfTree'
    <3>1. ExitCode(Counts(tree), failOn)' = ExitCode(Counts(tree), option)
      BY <2>1 DEF ExitCode, Allowed
    <3> QED BY <2>1, <3>1 DEF ExitIsOfTree
  <2>3. SourcesSound'
    BY <1>1, <2>1 DEF SourcesSound
  <2>4. BudgetSound' /\ OptionSound'
    BY <1>1, <2>1 DEF BudgetSound, OptionSound
  <2> QED BY <2>2, <2>3, <2>4 DEF Scanning
<1>3. CASE WriteBudget
  <2>1. tree' = tree /\ budget' = Budget(Counts(tree)) /\ failOn' = failOn /\ exit' = None
    BY <1>3 DEF WriteBudget
  <2>2. Counts(tree) \in [DOMAIN Counts(tree) -> Nat]
    BY <1>1, CountsAreNumbers
  <2>3. BudgetSound'
    BY <2>1, <2>2 DEF BudgetSound, Budget
  <2>4. SourcesSound' /\ ExitIsOfTree' /\ OptionSound'
    BY <1>1, <2>1 DEF SourcesSound, ExitIsOfTree, OptionSound
  <2> QED BY <2>3, <2>4 DEF Scanning
<1>4. CASE KillWrite
  <2>1. tree' = tree /\ budget' = Torn /\ failOn' = failOn /\ exit' = None
    BY <1>4 DEF KillWrite
  <2> QED BY <1>1, <2>1 DEF Scanning, SourcesSound, BudgetSound, ExitIsOfTree, OptionSound
<1>5. ASSUME Edit, budget' = budget, SourcesSound'
      PROVE  Scanning'
  <2>1. failOn' = failOn /\ exit' = None
    BY <1>5 DEF Edit
  <2> QED BY <1>1, <1>5, <2>1 DEF Scanning, BudgetSound, ExitIsOfTree, OptionSound
<1>6. ASSUME NEW place \in DOMAIN tree, NEW i \in 1..(Len(tree[place]) + 1), NEW line \in Lines,
             InsertLine(place, i, line)
      PROVE  Scanning'
  <2>1. InsertAt(tree[place], i, line) \in Texts
    <3>1. tree[place] \in Seq(Code) /\ line \in Code
      BY <1>1, SourcesAssumption DEF SourcesAssumption, Texts, Code, Tokens
    <3> QED BY <3>1, InsertAtFits DEF Texts
  <2>2. tree' \in [DOMAIN tree -> Texts] /\ DOMAIN tree' = DOMAIN tree
    BY <1>1, <1>6, <2>1 DEF InsertLine
  <2>3. SourcesSound'
    BY <1>1, <2>2 DEF SourcesSound, Sound
  <2> QED BY <1>5, <1>6, <2>3 DEF InsertLine
<1>7. ASSUME NEW place \in DOMAIN tree, NEW i \in DOMAIN tree[place], DeleteLine(place, i)
      PROVE  Scanning'
  <2>1. RemoveAt(tree[place], i) \in Texts
    <3>1. tree[place] \in Seq(Code) /\ i \in 1..Len(tree[place])
      BY <1>1 DEF Texts
    <3> QED BY <3>1, RemoveAtFacts DEF Texts
  <2>2. tree' \in [DOMAIN tree -> Texts] /\ DOMAIN tree' = DOMAIN tree
    BY <1>1, <1>7, <2>1 DEF DeleteLine
  <2>3. SourcesSound'
    BY <1>1, <2>2 DEF SourcesSound, Sound
  <2> QED BY <1>5, <1>7, <2>3 DEF DeleteLine
<1>8. ASSUME NEW from \in DOMAIN tree, NEW to \in Places, MoveFile(from, to)
      PROVE  Scanning'
  <2> DEFINE D == (DOMAIN tree \ {from}) \cup {to}
  <2>1. tree' = [place \in D |-> IF place = to THEN tree[from] ELSE tree[place]]
    BY <1>8 DEF MoveFile
  <2>2. IsFiniteSet(DOMAIN tree \ {from})
    BY <1>1, FS_RemoveElement
  <2>3. IsFiniteSet(D)
    BY <2>2, FS_AddElement
  <2>4. \A place \in D : (IF place = to THEN tree[from] ELSE tree[place]) \in Texts
    BY <1>1
  <2> HIDE DEF D
  <2>5. tree' \in [D -> Texts] /\ DOMAIN tree' = D
    BY <2>1, <2>4
  <2>6. SourcesSound'
    BY <2>3, <2>5 DEF SourcesSound, Sound
  <2> QED BY <1>5, <1>8, <2>6 DEF MoveFile
<1>9. CASE LoseBudget
  <2>1. tree' = tree /\ budget' = Missing /\ failOn' = failOn /\ exit' = None
    BY <1>9 DEF LoseBudget, Edit
  <2> QED BY <1>1, <2>1 DEF Scanning, SourcesSound, BudgetSound, ExitIsOfTree, OptionSound
<1>10. CASE UNCHANGED vars
  <2>1. tree' = tree /\ budget' = budget /\ failOn' = failOn /\ exit' = exit
    BY <1>10 DEF vars
  <2>2. ExitIsOfTree'
    <3>1. ExitCode(Counts(tree), failOn)' = ExitCode(Counts(tree), failOn)
      BY <2>1 DEF ExitCode, Allowed
    <3> QED BY <1>1, <2>1, <3>1 DEF ExitIsOfTree
  <2>3. SourcesSound' /\ BudgetSound' /\ OptionSound'
    BY <1>1, <2>1 DEF SourcesSound, BudgetSound, OptionSound
  <2> QED BY <2>2, <2>3 DEF Scanning
<1> QED BY <1>2, <1>3, <1>4, <1>6, <1>7, <1>8, <1>9, <1>10 DEF Next, Develop

LEMMA ScanningHolds == Spec => []Scanning
<1> QED BY ScanningInit, ScanningStep, PTL DEF Spec

\* Counts that are not higher never fail a scan that passed.
LEMMA ExitCodeFalls ==
    ASSUME BudgetSound, NEW counts, NEW fewer, NEW option, ExitCode(counts, option) = 0,
           \A code \in DOMAIN fewer :
               /\ code \in DOMAIN counts /\ fewer[code] <= counts[code]
               /\ fewer[code] \in Nat /\ counts[code] \in Nat
    PROVE  ExitCode(fewer, option) = 0
<1>1. /\ budget # Torn
      /\ budget # Missing => \A code \in DOMAIN counts : ~(counts[code] > Allowed(code))
      /\ option = "error" => \A code \in DOMAIN counts : Severity(code) # "error"
      /\ option = "warn" => DOMAIN counts = {}
  BY DEF ExitCode
<1>2. ASSUME budget # Missing, NEW code \in DOMAIN fewer
      PROVE  ~(fewer[code] > Allowed(code))
  <2>1. Allowed(code) \in Nat
    BY <1>1, <1>2 DEF Allowed, BudgetSound
  <2> QED BY <1>1, <1>2, <2>1
<1>3. option = "error" => \A code \in DOMAIN fewer : Severity(code) # "error"
  BY <1>1
<1>4. option = "warn" => DOMAIN fewer = {}
  BY <1>1
<1> QED BY <1>1, <1>2, <1>3, <1>4 DEF ExitCode

\* Whatever the sources, the limits and the budget: a scan that passes still passes
\* when a line of code is taken out of a file that it reads.  The counts of every
\* rule can only fall, although what is left moves up, and although functions are
\* measured by their lines.
THEOREM FixesPass == Spec => []FixesNeverBlock
<1>1. Scanning => FixesNeverBlock
  <2> SUFFICES ASSUME Scanning, exit = 0, NEW place \in Scanned(tree), NEW i \in DOMAIN tree[place],
                      PlainLine(tree[place][i])
               PROVE  ExitCode(Counts([tree EXCEPT ![place] = RemoveAt(@, i)]), failOn) = 0
    BY DEF FixesNeverBlock
  <2> DEFINE rest == [tree EXCEPT ![place] = RemoveAt(@, i)]
  <2>1. Sound(tree) /\ BudgetSound
    BY DEF Scanning, SourcesSound
  <2>2. ExitCode(Counts(tree), failOn) = 0
    BY DEF Scanning, ExitIsOfTree, None
  <2>3. \A code : code \in DOMAIN Counts(rest) =>
            /\ code \in DOMAIN Counts(tree) /\ Counts(rest)[code] <= Counts(tree)[code]
            /\ Counts(rest)[code] \in Nat /\ Counts(tree)[code] \in Nat
    BY <2>1, FewerCounted
  <2> HIDE DEF rest
  <2>4. ExitCode(Counts(rest), failOn) = 0
    BY <2>1, <2>2, <2>3, ExitCodeFalls
  <2> QED BY <2>4 DEF rest
<1> QED BY <1>1, ScanningHolds, PTL

-----------------------------------------------------------------------------
(* What strip_noise leaves is what the language reads, where marks and quotes are *)
(* kept apart                                                                *)

Commented(line) == \E k \in 1..Len(line) : line[k] = Slashes

\* A token more at the end of a line, as RemoveLineComment sees it.
LEMMA CommentOfLonger ==
    ASSUME NEW line \in Code, NEW token \in Tokens
    PROVE  /\ Append(line, token) \in Code
           /\ Commented(Append(line, token)) <=> Commented(line) \/ token = Slashes
           /\ ~Commented(line) => RemoveLineComment(line) = line
           /\ Commented(line) => RemoveLineComment(Append(line, token)) = RemoveLineComment(line)
           /\ ~Commented(line) /\ token = Slashes => RemoveLineComment(Append(line, token)) = line
           /\ ~Commented(line) /\ token # Slashes =>
                  RemoveLineComment(Append(line, token)) = Append(line, token)
<1> DEFINE longer == Append(line, token)
           L == Len(line)
           marks == {i \in DOMAIN line : line[i] = Slashes}
           later == {i \in DOMAIN longer : longer[i] = Slashes}
<1>1. /\ L \in Nat /\ longer \in Code /\ DOMAIN line = 1..L /\ DOMAIN longer = 1..(L + 1) /\ Len(longer) = L + 1
      /\ longer[L + 1] = token /\ \A k \in 1..L : longer[k] = line[k]
  BY DEF Code
<1>2. RemoveLineComment(line) = IF marks = {} THEN line ELSE SubSeq(line, 1, Min(marks) - 1)
  BY DEF RemoveLineComment
<1>3. RemoveLineComment(longer) = IF later = {} THEN longer ELSE SubSeq(longer, 1, Min(later) - 1)
  BY DEF RemoveLineComment
<1>4. marks \subseteq 1..L /\ (Commented(line) <=> marks # {})
  BY <1>1 DEF Commented
<1> HIDE DEF longer
<1>5. later = marks \cup (IF token = Slashes THEN {L + 1} ELSE {})
  BY <1>1
<1>6. Commented(longer) <=> Commented(line) \/ token = Slashes
  <2>1. Commented(longer) <=> later # {}
    BY <1>1 DEF Commented
  <2> HIDE DEF marks, later
  <2> QED BY <1>4, <1>5, <2>1
<1> HIDE DEF marks, later
<1>7. ASSUME NEW k \in 0..L
      PROVE  SubSeq(longer, 1, k) = SubSeq(line, 1, k)
  <2>1. longer \in Seq(Tokens) /\ line \in Seq(Tokens)
    BY <1>1 DEF Code
  <2>2. SubSeq(longer, 1, k) \in Seq(Tokens) /\ Len(SubSeq(longer, 1, k)) = k
        /\ \A j \in 1..k : SubSeq(longer, 1, k)[j] = longer[j]
    BY <1>1, <2>1
  <2>3. SubSeq(line, 1, k) \in Seq(Tokens) /\ Len(SubSeq(line, 1, k)) = k
        /\ \A j \in 1..k : SubSeq(line, 1, k)[j] = line[j]
    BY <1>1, <2>1
  <2> QED BY <1>1, <2>2, <2>3, SeqEqual
<1>8. ASSUME Commented(line)
      PROVE  RemoveLineComment(longer) = RemoveLineComment(line)
  <2>1. marks \subseteq later /\ later \subseteq marks \cup {L + 1}
    BY <1>5
  <2>2. later \subseteq 1..(L + 1)
    BY <1>1, <1>4, <2>1
  <2>3. marks # {} /\ marks \subseteq 1..L
    BY <1>4, <1>8
  <2>4. marks # {} /\ later # {} /\ marks \subseteq Nat /\ later \subseteq Nat
    <3>1. 1..L \subseteq Nat /\ 1..(L + 1) \subseteq Nat
      OBVIOUS
    <3> QED BY <2>1, <2>2, <2>3, <3>1
  <2>5. PICK m \in 1..L : m = Min(marks) /\ m \in marks /\ \A k \in marks : m <= k
    <3>1. Min(marks) \in marks /\ \A k \in marks : Min(marks) <= k
      BY <2>4, MinIsLeast
    <3> QED BY <1>4, <3>1
  <2>6. PICK l \in 1..(L + 1) : l = Min(later) /\ l \in later /\ \A k \in later : l <= k
    <3>1. Min(later) \in later /\ \A k \in later : Min(later) <= k
      BY <2>4, MinIsLeast
    <3> QED BY <2>2, <3>1
  <2>7. l = m
    <3>1. l <= m
      BY <2>5, <2>6, <2>1
    <3>2. l \in marks
      BY <1>1, <2>5, <2>6, <2>1, <3>1
    <3> QED BY <2>5, <2>6, <3>1, <3>2
  <2>8. m - 1 \in 0..L
    BY <1>1, <2>5
  <2>9. SubSeq(longer, 1, m - 1) = SubSeq(line, 1, m - 1)
    BY <1>7, <2>8
  <2> QED BY <1>2, <1>3, <2>4, <2>5, <2>6, <2>7, <2>9
<1>9. ASSUME ~Commented(line), token = Slashes
      PROVE  RemoveLineComment(longer) = line
  <2>1. later = {L + 1} /\ later # {} /\ later \subseteq Nat
    BY <1>1, <1>4, <1>5, <1>9
  <2>2. Min(later) = L + 1
    BY <2>1, MinIsLeast
  <2>3. L \in 0..L /\ L + 1 - 1 = L
    BY <1>1
  <2>4. SubSeq(line, 1, L) = line
    BY SubSeqFull DEF Code
  <2>5. SubSeq(longer, 1, L) = SubSeq(line, 1, L)
    BY <1>7, <2>3
  <2>6. RemoveLineComment(longer) = SubSeq(longer, 1, Min(later) - 1)
    BY <1>3, <2>1
  <2>7. Min(later) - 1 = L
    BY <2>2, <2>3
  <2> QED BY <2>4, <2>5, <2>6, <2>7, Zenon
<1>10. ~Commented(line) /\ token # Slashes => RemoveLineComment(longer) = longer
  BY <1>3, <1>4, <1>5
<1>11. ~Commented(line) => RemoveLineComment(line) = line
  BY <1>2, <1>4
<1> QED BY <1>1, <1>6, <1>8, <1>9, <1>10, <1>11 DEF longer

\* And as RemoveStrings sees it.
LEMMA StringsOfLonger ==
    ASSUME NEW line \in Code, NEW token \in Tokens
    PROVE  Strings(Append(line, token)) = StringStep(Strings(line), token)
<1> DEFINE longer == Append(line, token)
           L == Len(line)
<1>1. /\ L \in Nat /\ longer \in Code /\ Len(longer) = L + 1
      /\ longer[L + 1] = token /\ \A k \in 1..L : longer[k] = line[k]
  BY DEF Code
<1>2. PICK f \in [0..L -> StringStates] :
          /\ f[0] = [code |-> <<>>, rest |-> <<>>, inside |-> FALSE]
          /\ \A n \in 1..L : f[n] = StringStep(f[n - 1], line[n])
          /\ Strings(line) = f[L]
  BY StringsRun
<1> HIDE DEF longer
<1>3. PICK g \in [0..Len(longer) -> StringStates] :
          /\ g[0] = [code |-> <<>>, rest |-> <<>>, inside |-> FALSE]
          /\ \A n \in 1..Len(longer) : g[n] = StringStep(g[n - 1], longer[n])
          /\ Strings(longer) = g[Len(longer)]
  BY <1>1, StringsRun
<1> DEFINE P == {n \in 0..L : f[n] = g[n]}
<1>4. 0 \in P
  <2>1. f[0] = g[0]
    BY <1>2, <1>3
  <2> QED BY <1>1, <2>1
<1>5. ASSUME NEW n \in 1..L, n - 1 \in P
      PROVE  n \in P
  <2>1. n \in 1..Len(longer) /\ n \in 0..L
    BY <1>1
  <2>2. f[n] = StringStep(f[n - 1], line[n]) /\ g[n] = StringStep(g[n - 1], line[n])
    BY <1>1, <1>2, <1>3, <2>1
  <2> QED BY <1>5, <2>1, <2>2
<1>6. f[L] = g[L]
  <2>1. \A n \in 0..L : n \in P
    <3> HIDE DEF P
    <3> QED BY <1>1, <1>4, <1>5, Rising
  <2> QED BY <1>1, <2>1
<1>7. g[L + 1] = StringStep(g[L], token)
  <2>1. L + 1 \in 1..Len(longer) /\ L + 1 - 1 = L
    BY <1>1
  <2> QED BY <1>1, <1>3, <2>1
<1> QED BY <1>1, <1>2, <1>3, <1>6, <1>7 DEF longer

\* As far as a line has been read, the two agree: on whether a block comment is open,
\* whether the rest of the line is a comment, and on the code outside the strings.
Agree(cut, read) ==
    LET seen == Strings(RemoveLineComment(cut.code))
    IN  /\ cut.block <=> read.in = "block"
        /\ read.depth = IF read.in = "block" THEN 1 ELSE 0
        /\ Commented(cut.code) <=> read.in = "line"
        /\ read.in # "string" => ~seen.inside /\ seen.code \o seen.rest = read.code
        /\ read.in = "string" => seen.inside /\ seen.code = read.code

LEMMA AgreeStep ==
    ASSUME NEW cut \in BlockStates, NEW read \in LexStates, NEW token \in Tokens,
           NEW cut2, cut2 = BlockStep(cut, token), NEW read2, read2 = LexStep(read, token),
           read.tame => Agree(cut, read), read2.tame
    PROVE  Agree(cut2, read2)
<1> DEFINE seen == Strings(RemoveLineComment(cut.code))
           seen2 == Strings(RemoveLineComment(cut2.code))
<1>1. /\ cut.code \in Code /\ cut.block \in BOOLEAN /\ read.code \in Code
      /\ read.in \in {"code", "block", "line", "string"} /\ read.tame \in BOOLEAN
      /\ read.depth \in Nat /\ read.nests \in BOOLEAN
  BY DEF BlockStates, LexStates
<1>2. /\ seen \in StringStates /\ seen.code \in Code /\ seen.rest \in Code /\ seen.inside \in BOOLEAN
  BY <1>1, CommentFits, StringsFit DEF StringStates
<1>3. read.tame
  BY <1>1 DEF LexStep, LexStates
<1>4. Agree(cut, read)
  BY <1>3
<1>5. /\ cut.block <=> read.in = "block"
      /\ read.depth = IF read.in = "block" THEN 1 ELSE 0
      /\ Commented(cut.code) <=> read.in = "line"
      /\ read.in # "string" => ~seen.inside /\ seen.code \o seen.rest = read.code
      /\ read.in = "string" => seen.inside /\ seen.code = read.code
  BY <1>4 DEF Agree
<1> DEFINE longer == Append(cut.code, token)
<1>6. /\ longer \in Code
      /\ Commented(longer) <=> Commented(cut.code) \/ token = Slashes
      /\ ~Commented(cut.code) => RemoveLineComment(cut.code) = cut.code
      /\ Commented(cut.code) => RemoveLineComment(longer) = RemoveLineComment(cut.code)
      /\ ~Commented(cut.code) /\ token = Slashes => RemoveLineComment(longer) = cut.code
      /\ ~Commented(cut.code) /\ token # Slashes => RemoveLineComment(longer) = longer
  BY <1>1, CommentOfLonger
<1>7. Strings(longer) = StringStep(Strings(cut.code), token)
  BY <1>1, StringsOfLonger
<1>8. /\ Agree(cut2, read2) <=>
            /\ cut2.block <=> read2.in = "block"
            /\ read2.depth = IF read2.in = "block" THEN 1 ELSE 0
            /\ Commented(cut2.code) <=> read2.in = "line"
            /\ read2.in # "string" => ~seen2.inside /\ seen2.code \o seen2.rest = read2.code
            /\ read2.in = "string" => seen2.inside /\ seen2.code = read2.code
  BY DEF Agree
<1> HIDE DEF seen, seen2, longer
<1>8a. read2.depth = IF read2.in = "block" THEN 1 ELSE 0
  <2>1. CASE read.in = "block" /\ token = Open
    <3>1. ~read.nests
      BY <1>1, <2>1 DEF LexStep, LexStates, Open, Close
    <3> QED BY <1>1, <1>5, <2>1, <3>1 DEF LexStep, LexStates, Open, Close
  <2>2. CASE read.in = "block" /\ token # Open
    BY <1>1, <1>5, <2>2 DEF LexStep, LexStates, Open, Close
  <2>3. CASE read.in = "code"
    BY <1>1, <1>5, <2>3 DEF LexStep, LexStates
  <2>4. CASE read.in \in {"string", "line"}
    BY <1>1, <1>5, <2>4 DEF LexStep, LexStates
  <2> QED BY <1>1, <2>1, <2>2, <2>3, <2>4
<1>9. CASE read.in = "block"
  <2>1. cut2.code = cut.code /\ (cut2.block <=> token # Close)
    BY <1>1, <1>5, <1>9 DEF BlockStep, BlockStates, longer
  <2>2. read2.code = read.code /\ read2.in = IF token = Close THEN "code" ELSE "block"
    BY <1>1, <1>5, <1>9 DEF LexStep, LexStates
  <2>3. seen2 = seen
    BY <2>1 DEF seen, seen2
  <2> QED BY <1>5, <1>8, <1>8a, <1>9, <2>1, <2>2, <2>3
<1>10. CASE read.in = "code" /\ token = Open
  <2>1. cut2.code = cut.code /\ cut2.block
    BY <1>1, <1>5, <1>10 DEF BlockStep, BlockStates, longer
  <2>2. read2.code = read.code /\ read2.in = "block"
    BY <1>1, <1>10 DEF LexStep, LexStates, Open, Slashes, ColonSlashes, Quote
  <2>3. seen2 = seen
    BY <2>1 DEF seen, seen2
  <2> QED BY <1>5, <1>8, <1>8a, <1>10, <2>1, <2>2, <2>3
<1>11. CASE ~cut.block /\ token # Open /\ read.in = "line"
  <2>1. cut2.code = longer /\ ~cut2.block
    BY <1>1, <1>11 DEF BlockStep, BlockStates, longer
  <2>2. read2.code = read.code /\ read2.in = "line"
    BY <1>1, <1>11 DEF LexStep, LexStates
  <2>3. seen2 = seen
    BY <1>5, <1>6, <1>11, <2>1 DEF seen, seen2
  <2> QED BY <1>5, <1>6, <1>8, <1>8a, <1>11, <2>1, <2>2, <2>3
<1>12. CASE ~cut.block /\ read.in = "code" /\ token = Slashes
  <2>1. cut2.code = longer /\ ~cut2.block
    BY <1>1, <1>12 DEF BlockStep, BlockStates, longer, Open, Slashes
  <2>2. read2.code = read.code /\ read2.in = "line"
    BY <1>1, <1>12 DEF LexStep, LexStates, Open, Slashes, ColonSlashes, Quote
  <2>3. seen2 = seen
    BY <1>5, <1>6, <1>12, <2>1 DEF seen, seen2
  <2> QED BY <1>5, <1>6, <1>8, <1>8a, <1>12, <2>1, <2>2, <2>3
<1>13. ASSUME ~cut.block, token \notin {Open, Slashes}, read.in \in {"code", "string"}
       PROVE  /\ cut2.code = longer /\ ~cut2.block /\ ~Commented(longer)
              /\ seen2 = StringStep(seen, token)
  <2>1. cut2.code = longer /\ ~cut2.block
    BY <1>1, <1>13 DEF BlockStep, BlockStates, longer
  <2>2. ~Commented(cut.code) /\ ~Commented(longer)
    BY <1>5, <1>6, <1>13
  <2>3. RemoveLineComment(cut.code) = cut.code /\ RemoveLineComment(longer) = longer
    BY <1>6, <1>13, <2>2
  <2> QED BY <1>7, <2>1, <2>2, <2>3 DEF seen, seen2
<1>14. CASE ~cut.block /\ read.in = "code" /\ token = Quote
  <2>1. /\ ~cut2.block /\ ~Commented(cut2.code) /\ seen2 = StringStep(seen, token)
    BY <1>13, <1>14 DEF Open, Slashes, Quote
  <2>2. read2.code = read.code /\ read2.in = "string"
    BY <1>1, <1>14 DEF LexStep, LexStates, Open, Slashes, ColonSlashes, Quote
  <2>3. seen2.inside /\ seen2.code = seen.code \o seen.rest
    BY <1>2, <1>5, <1>14, <2>1 DEF StringStep
  <2> QED BY <1>5, <1>8, <1>8a, <1>14, <2>1, <2>2, <2>3
<1>15. CASE ~cut.block /\ read.in = "code" /\ token \notin {Open, Slashes, ColonSlashes, Quote}
  <2>1. /\ ~cut2.block /\ ~Commented(cut2.code) /\ seen2 = StringStep(seen, token)
    BY <1>13, <1>15
  <2>2. read2.code = Append(read.code, token) /\ read2.in = "code"
    BY <1>1, <1>15 DEF LexStep, LexStates
  <2>3. ~seen2.inside /\ seen2.code = seen.code /\ seen2.rest = Append(seen.rest, token)
    BY <1>2, <1>5, <1>15, <2>1 DEF StringStep, StringStates
  <2>4. ASSUME NEW p \in Code, NEW q \in Code
        PROVE  p \o Append(q, token) = Append(p \o q, token)
    BY DEF Code
  <2>5. seen2.code \o seen2.rest = read2.code
    BY <1>2, <1>5, <1>15, <2>2, <2>3, <2>4
  <2> QED BY <1>8, <1>8a, <2>1, <2>2, <2>3, <2>5
<1>16. CASE ~cut.block /\ read.in = "string" /\ token = Quote
  <2>1. /\ ~cut2.block /\ ~Commented(cut2.code) /\ seen2 = StringStep(seen, token)
    BY <1>13, <1>16 DEF Open, Slashes, Quote
  <2>2. read2.code = read.code /\ read2.in = "code"
    BY <1>1, <1>16 DEF LexStep, LexStates, Open, Slashes, ColonSlashes, Quote
  <2>3. ~seen2.inside /\ seen2.code = seen.code /\ seen2.rest = <<>>
    BY <1>2, <1>5, <1>16, <2>1 DEF StringStep, StringStates
  <2>4. ASSUME NEW p \in Code
        PROVE  p \o <<>> = p
    BY DEF Code
  <2>5. seen2.code \o seen2.rest = read2.code
    BY <1>1, <1>2, <1>5, <1>16, <2>2, <2>3, <2>4
  <2> QED BY <1>8, <1>8a, <2>1, <2>2, <2>3, <2>5
<1>17. CASE ~cut.block /\ read.in = "string" /\ token \notin {Open, Slashes, Quote}
  <2>1. /\ ~cut2.block /\ ~Commented(cut2.code) /\ seen2 = StringStep(seen, token)
    BY <1>13, <1>17
  <2>2. read2.code = read.code /\ read2.in = "string"
    BY <1>1, <1>17 DEF LexStep, LexStates
  <2>3. seen2.inside /\ seen2.code = seen.code
    BY <1>2, <1>5, <1>17, <2>1 DEF StringStep, StringStates
  <2> QED BY <1>5, <1>8, <1>8a, <1>17, <2>1, <2>2, <2>3
<1>18. read.in \in {"string", "line"} => token # Open
  BY <1>1 DEF LexStep, LexStates, Open, Slashes, ColonSlashes, Quote, Close
<1>19. read.in = "string" => token # Slashes
  BY <1>1 DEF LexStep, LexStates, Open, Slashes, ColonSlashes, Quote, Close
<1>20. read.in = "code" => token # ColonSlashes
  BY <1>1 DEF LexStep, LexStates, Open, Slashes, ColonSlashes, Quote, Close
<1>21. cut.block <=> read.in = "block"
  BY <1>5
<1> QED
  BY <1>1, <1>9, <1>10, <1>11, <1>12, <1>14, <1>15, <1>16, <1>17, <1>18, <1>19, <1>20, <1>21

\* A line that keeps its marks and quotes apart, and does not end inside a string, is
\* masked to what the language reads.
LEMMA MaskIsRead ==
    ASSUME NEW line \in Code, NEW nests \in BOOLEAN, NEW depth \in {0, 1},
           NEW block \in BOOLEAN, block <=> depth = 1, Lexed(nests, depth, line).tame
    PROVE  /\ Mask(block, line) = Lexed(nests, depth, line).code
           /\ Lexed(nests, depth, line).depth = IF RemoveBlocks(block, line).block THEN 1 ELSE 0
<1> DEFINE L == Len(line)
<1>1. L \in Nat /\ depth \in Nat /\ \A n \in 1..L : line[n] \in Tokens
  BY DEF Code
<1>2. PICK f \in [0..L -> BlockStates] :
          /\ f[0] = [code |-> <<>>, block |-> block]
          /\ \A n \in 1..L : f[n] = BlockStep(f[n - 1], line[n])
          /\ RemoveBlocks(block, line) = f[L]
  BY BlocksRun
<1>3. PICK x \in [0..L -> LexStates] :
          /\ x[0] = FirstRead(nests, depth)
          /\ \A n \in 1..L : x[n] = LexStep(x[n - 1], line[n])
          /\ Lexed(nests, depth, line) = [x[L] EXCEPT !.tame = @ /\ x[L].in # "string"]
  BY <1>1, LexedRun
<1>4. \A n \in 0..L : f[n] \in BlockStates /\ x[n] \in LexStates
  BY <1>1
<1> DEFINE P == {n \in 0..L : x[n].tame => Agree(f[n], x[n])}
<1>5. 0 \in P
  <2>1. /\ f[0].code = <<>> /\ (f[0].block <=> block) /\ x[0].code = <<>>
        /\ x[0].in = (IF block THEN "block" ELSE "code") /\ x[0].depth = IF block THEN 1 ELSE 0
    BY <1>2, <1>3 DEF FirstRead
  <2>2. <<>> \in Code /\ ~Commented(<<>>) /\ PlainLine(<<>>)
    BY DEF Code, Commented, PlainLine, ToSet
  <2>3. RemoveLineComment(<<>>) = <<>>
    BY <2>2, PlainComment
  <2>4. Strings(<<>>) = [code |-> <<>>, rest |-> <<>>, inside |-> FALSE]
    <3>1. PICK g : /\ g[0] = [code |-> <<>>, rest |-> <<>>, inside |-> FALSE]
                   /\ Strings(<<>>) = g[Len(<<>>)]
      BY <2>2, StringsRun
    <3>2. Len(<<>>) = 0
      BY Zenon, EmptySeq
    <3> QED BY <3>1, <3>2
  <2>5. PICK seen : seen = Strings(RemoveLineComment(f[0].code))
    OBVIOUS
  <2>6. seen = [code |-> <<>>, rest |-> <<>>, inside |-> FALSE]
    BY <2>1, <2>3, <2>4, <2>5
  <2>7. ~seen.inside /\ seen.code \o seen.rest = <<>>
    BY <2>6
  <2>8. Agree(f[0], x[0])
    BY <2>1, <2>2, <2>5, <2>7 DEF Agree
  <2> QED BY <1>1, <2>8
<1>6. ASSUME NEW n \in 1..L, n - 1 \in P
      PROVE  n \in P
  <2>1. n \in 0..L /\ n - 1 \in 0..L
    BY <1>1
  <2>2. f[n] = BlockStep(f[n - 1], line[n]) /\ x[n] = LexStep(x[n - 1], line[n])
    BY <1>2, <1>3
  <2>3. x[n - 1].tame => Agree(f[n - 1], x[n - 1])
    BY <1>6
  <2>4. x[n].tame => Agree(f[n], x[n])
    BY <1>1, <1>4, <2>1, <2>2, <2>3, AgreeStep
  <2> QED BY <2>1, <2>4
<1>7. L \in P
  <2>1. \A n \in 0..L : n \in P
    <3> HIDE DEF P
    <3> QED BY <1>1, <1>5, <1>6, Rising
  <2> QED BY <1>1, <2>1
<1>8. x[L] \in LexStates /\ f[L] \in BlockStates
  BY <1>1, <1>4
<1>9. x[L].tame /\ x[L].in # "string" /\ Lexed(nests, depth, line).code = x[L].code /\ Lexed(nests, depth, line).depth = x[L].depth
  BY <1>3, <1>8 DEF LexStates
<1>10. Agree(f[L], x[L])
  BY <1>7, <1>9
<1>11. Mask(block, line) = x[L].code
  BY <1>2, <1>9, <1>10 DEF Agree, Mask, RemoveStrings
<1> QED BY <1>2, <1>9, <1>10, <1>11 DEF Agree

\* So is a file.
LEMMA NoiseIsRead ==
    ASSUME NEW lines \in Texts, NEW lang, Read(lang, lines).tame
    PROVE  strip_noise(lines) = Read(lang, lines).code
<1> DEFINE L == Len(lines)
<1>1. L \in Nat /\ \A n \in 1..L : lines[n] \in Code
  BY DEF Texts
<1>2. PICK f \in [0..L -> NoiseStates] :
          /\ f[0] = [masked |-> <<>>, block |-> FALSE]
          /\ \A n \in 1..L : f[n] = NoiseStep(f[n - 1], lines[n])
          /\ strip_noise(lines) = f[L].masked
  BY NoiseRun
<1>3. PICK r \in [0..L -> ReadStates] :
          /\ r[0] = [nests |-> lang \in Nesting, depth |-> 0, code |-> <<>>, tame |-> TRUE]
          /\ \A n \in 1..L : r[n] = ReadStep(r[n - 1], lines[n])
          /\ Read(lang, lines) = r[L]
  BY ReadRun
<1>4. \A n \in 0..L : f[n] \in NoiseStates /\ r[n] \in ReadStates
  BY <1>1
<1> DEFINE P == {n \in 0..L : r[n].tame => f[n].masked = r[n].code /\ r[n].depth = IF f[n].block THEN 1 ELSE 0}
<1>5. 0 \in P
  <2>1. f[0].masked = <<>> /\ f[0].block = FALSE
    BY <1>2
  <2>2. r[0].code = <<>> /\ r[0].depth = 0
    BY <1>3
  <2>3. f[0].masked = r[0].code /\ r[0].depth = IF f[0].block THEN 1 ELSE 0
    BY <2>1, <2>2
  <2> QED BY <1>1, <2>3
<1>6. ASSUME NEW n \in 1..L, n - 1 \in P, r[n].tame
      PROVE  f[n].masked = r[n].code /\ r[n].depth = IF f[n].block THEN 1 ELSE 0
  <2>1. n - 1 \in 0..L /\ lines[n] \in Code
    BY <1>1
  <2>2. f[n] = NoiseStep(f[n - 1], lines[n]) /\ r[n] = ReadStep(r[n - 1], lines[n])
    BY <1>2, <1>3
  <2> DEFINE read == Lexed(r[n - 1].nests, r[n - 1].depth, lines[n])
             block == f[n - 1].block
  <2>3. r[n - 1] \in ReadStates /\ f[n - 1] \in NoiseStates
    BY <1>4, <2>1
  <2>4. /\ r[n].code = Append(r[n - 1].code, read.code) /\ r[n].depth = read.depth
        /\ r[n].tame = (r[n - 1].tame /\ read.tame)
    <3>1. r[n] = [r[n - 1] EXCEPT !.code = Append(@, read.code), !.depth = read.depth, !.tame = @ /\ read.tame]
      BY <2>2 DEF ReadStep
    <3> HIDE DEF read
    <3> QED BY <2>3, <3>1 DEF ReadStates
  <2>5. r[n - 1].tame /\ read.tame
    <3> HIDE DEF read
    <3> QED BY <1>6, <2>4
  <2>6. f[n - 1].masked = r[n - 1].code /\ r[n - 1].depth = IF block THEN 1 ELSE 0
    BY <1>6, <2>5
  <2>7. r[n - 1].nests \in BOOLEAN /\ block \in BOOLEAN
    BY <2>3 DEF ReadStates, NoiseStates
  <2>8. r[n - 1].depth \in {0, 1} /\ (block <=> r[n - 1].depth = 1)
    BY <2>6, <2>7
  <2>9. /\ Mask(block, lines[n]) = read.code
        /\ read.depth = IF RemoveBlocks(block, lines[n]).block THEN 1 ELSE 0
    BY <2>1, <2>5, <2>7, <2>8, MaskIsRead
  <2> HIDE DEF read
  <2>10. f[n] = [masked |-> Append(f[n - 1].masked, Mask(block, lines[n])),
                 block |-> RemoveBlocks(block, lines[n]).block]
    BY <2>2, NoiseStepIs
  <2> QED BY <2>4, <2>6, <2>9, <2>10
<1>7. \A n \in 1..L : n - 1 \in P => n \in P
  <2> SUFFICES ASSUME NEW n \in 1..L, n - 1 \in P
               PROVE  n \in P
    OBVIOUS
  <2>1. n \in 0..L
    BY <1>1
  <2> QED BY <1>6, <2>1
<1>8. L \in P
  <2>1. \A n \in 0..L : n \in P
    <3> HIDE DEF P
    <3> QED BY <1>1, <1>5, <1>7, Rising
  <2> QED BY <1>1, <2>1
<1> QED BY <1>2, <1>3, <1>8

LEMMA SeverityFacts ==
    ASSUME NEW masked, Short(masked), NEW code \in DOMAIN summarise(analyse(masked))
    PROVE  Severity(code) \in {"warn", "error"}
<1>1. PICK f : f \in Broken(masked, code)
  BY CountsAre
<1>2. PICK place \in DOMAIN masked : f \in FoundIn(place, masked[place]) /\ f[1] = code
  BY <1>1, InBroken
<1>3. CASE code \in {"XX001", "XX002"}
  BY <1>3 DEF Severity
<1>4. CASE code \notin {"XX001", "XX002"}
  <2>1. f \notin god_file(place, masked[place])
    <3>1. \A g \in god_file(place, masked[place]) : g[1] = "XX001"
      BY DEF god_file
    <3> QED BY <1>2, <1>4, <3>1
  <2>2. f \notin long_fn(place, masked[place])
    <3>1. \A g \in long_fn(place, masked[place]) : g[1] = "XX002"
      BY DEF long_fn
    <3> QED BY <1>2, <1>4, <3>1
  <2>3. f \in Findings(place, masked[place])
    BY <1>2, <2>1, <2>2 DEF FoundIn
  <2>4. PICK rule, n, k : rule \in RULES /\ f = <<rule.code, place, n, k>>
    BY <2>3, InFindings
  <2>5. \E r \in RULES : r.code = code
    BY <1>2, <2>4
  <2>6. (CHOOSE r \in RULES : r.code = code) \in RULES
    BY <2>5, Zenon
  <2>7. Severity(code) = (CHOOSE r \in RULES : r.code = code).severity
    BY <1>4 DEF Severity
  <2> QED BY <2>6, <2>7, RuleFacts
<1> QED BY <1>3, <1>4

\* Whatever the sources, the limits and the budget: where comment marks and quotes are
\* kept apart, strings end on their line and comments hold no comments, a scan passes exactly when what the language reads is within the budget
\* and the severities that are let through; with a budget that was cut short, never.
THEOREM ScansAreRight == Spec => []ScanIsRight
<1>1. Scanning => ScanIsRight
  <2> SUFFICES ASSUME Scanning, exit # None
               PROVE  /\ Tame /\ budget # Torn => (exit = 0 <=> WithinBudget)
                      /\ budget = Torn => exit # 0
    BY DEF ScanIsRight
  <2>1. Sound(tree) /\ BudgetSound /\ exit = ExitCode(Counts(tree), failOn)
        /\ failOn \in {"never", "error", "warn"}
    BY DEF Scanning, SourcesSound, ExitIsOfTree, OptionSound
  <2>2. budget = Torn => exit # 0
    BY <2>1 DEF ExitCode
  <2>3. ASSUME Tame, budget # Torn
        PROVE  exit = 0 <=> WithinBudget
    <3> DEFINE coded == [place \in Scanned(tree) |-> CodeOf(place)]
    <3>1. \A place \in Scanned(tree) : strip_noise(tree[place]) = CodeOf(place)
      <4> SUFFICES ASSUME NEW place \in Scanned(tree)
                   PROVE  strip_noise(tree[place]) = CodeOf(place)
        OBVIOUS
      <4>1. place \in DOMAIN tree
        BY DEF Scanned
      <4>2. tree[place] \in Texts /\ Read(place.lang, tree[place]).tame
        BY <2>1, <2>3, <4>1 DEF Sound, Tame
      <4> QED BY <4>2, NoiseIsRead DEF CodeOf
    <3>2. Masked(tree) = coded
      BY <3>1 DEF Masked
    <3>3. Short(coded)
      BY <2>1, <3>2, MaskedIsShort
    <3> HIDE DEF coded
    <3>4. PICK counts : counts = summarise(analyse(coded))
      OBVIOUS
    <3>5. Counts(tree) = counts
      BY <3>2, <3>4 DEF Counts
    <3>6. \A code \in DOMAIN counts : counts[code] \in Nat /\ Severity(code) \in {"warn", "error"}
      BY <3>3, <3>4, CountsAre, SeverityFacts
    <3>7. WithinBudget <=> \A code \in DOMAIN counts :
              /\ budget = Missing \/ counts[code] <= Allowed(code)
              /\ failOn = "never" \/ (failOn = "error" /\ Severity(code) = "warn")
      BY <3>4 DEF WithinBudget, coded
    <3>8. exit = 0 <=> /\ budget # Missing => \A code \in DOMAIN counts : ~(counts[code] > Allowed(code))
                       /\ failOn = "error" => \A code \in DOMAIN counts : Severity(code) # "error"
                       /\ failOn = "warn" => DOMAIN counts = {}
      <4> DEFINE Over == budget # Missing /\ \E code \in DOMAIN counts : counts[code] > Allowed(code)
                 Bad == failOn = "error" /\ \E code \in DOMAIN counts : Severity(code) = "error"
                 Counted == failOn = "warn" /\ DOMAIN counts # {}
      <4>1. exit = IF Over \/ Bad \/ Counted THEN 1 ELSE 0
        BY <2>1, <2>3, <3>5 DEF ExitCode
      <4>2. exit = 0 <=> ~Over /\ ~Bad /\ ~Counted
        <5> HIDE DEF Over, Bad, Counted
        <5> QED BY <4>1
      <4> QED BY <4>2
    <3>9. ASSUME budget # Missing, NEW code
          PROVE  Allowed(code) \in Nat
      BY <2>1, <2>3, <3>9 DEF Allowed, BudgetSound
    <3>10. ASSUME budget # Missing, NEW code \in DOMAIN counts
           PROVE  counts[code] <= Allowed(code) <=> ~(counts[code] > Allowed(code))
      <4>1. Allowed(code) \in Nat /\ counts[code] \in Nat
        BY <3>6, <3>9, <3>10
      <4> QED BY <4>1
    <3> QED BY <2>1, <3>6, <3>7, <3>8, <3>10
  <2> QED BY <2>2, <2>3
<1> QED BY <1>1, ScanningHolds, PTL
====
