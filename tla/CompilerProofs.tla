--------------------------- MODULE CompilerProofs ---------------------------
(***************************************************************************)
(* Theorems about the compiler of Compiler.tla: whatever program it        *)
(* compiles, the machine of Vm.tla can run the code it makes.              *)
(***************************************************************************)
EXTENDS Compilation, FiniteSetTheorems, TLAPS

-----------------------------------------------------------------------------
(* Recursion: on the levels of a tree, and along a list.                   *)

NoTrees(p) == {}
NextTrees(p, h, T) == NExpression(T)
TreesBy == INSTANCE Recursion WITH Start <- NoTrees, Step <- NextTrees

NoCompiler(p) == <<>>
NextCompiler(p, h, compile) ==
  [e \in Trees[h] |-> [st \in State |-> CompileNode(compile, e, st)]]
CompilerBy == INSTANCE Recursion WITH Start <- NoCompiler, Step <- NextCompiler

NoFinder(p) == <<>>
NextFinder(p, h, found) ==
  [e \in Trees[h] |-> [c \in Found |-> Through(found, Parts(e), Including(e, c))]]
DefinedBy == INSTANCE Recursion WITH Start <- NoFinder, Step <- NextFinder

FirstState(p) == p[3]
NextState(p, k, st) == p[1][p[2][k]][st]
ThroughBy == INSTANCE Recursion WITH Start <- FirstState, Step <- NextState

LEMMA TreesAre ==
  /\ Trees[0] = {}
  /\ \A h \in Nat : Trees[h + 1] = NExpression(Trees[h])
<1>1. Trees = TreesBy!From(0)
  BY DEF Trees, TreesBy!From, NoTrees, NextTrees
<1>2. Trees = [h \in Nat |-> IF h = 0 THEN {} ELSE NExpression(Trees[h - 1])]
  BY <1>1, TreesBy!FromIs DEF NoTrees, NextTrees
<1>3. \A h \in Nat : h + 1 \in Nat /\ h + 1 # 0 /\ (h + 1) - 1 = h
  OBVIOUS
<1>4. QED
  BY <1>2, <1>3

LEMMA CompilerIs ==
  \A h \in Nat :
    ast_expr_compile[h + 1] =
      [e \in Trees[h + 1] |-> [st \in State |-> CompileNode(ast_expr_compile[h], e, st)]]
<1>1. ast_expr_compile = CompilerBy!From(0)
  BY DEF ast_expr_compile, CompilerBy!From, NoCompiler, NextCompiler
<1>2. ast_expr_compile =
        [h \in Nat |-> IF h = 0 THEN NoCompiler(0)
                       ELSE NextCompiler(0, h, ast_expr_compile[h - 1])]
  BY <1>1, CompilerBy!FromIs
<1>3. \A h \in Nat : h + 1 \in Nat /\ h + 1 # 0 /\ (h + 1) - 1 = h
  OBVIOUS
<1>4. \A h \in Nat : ast_expr_compile[h + 1] = NextCompiler(0, h + 1, ast_expr_compile[h])
  BY <1>2, <1>3
<1>5. QED
  BY <1>4 DEF NextCompiler

Passes(f, list, s, after) ==
  /\ after[0] = s
  /\ \A k \in Nat : after[k + 1] = f[list[k + 1]][after[k]]
  /\ Through(f, list, s) = after[Len(list)]

LEMMA ThroughIs ==
  ASSUME NEW f, NEW list, NEW s
  PROVE  \E after : Passes(f, list, s, after)
<1> DEFINE p == <<f, list, s>>
           after == ThroughBy!From(p)
<1>1. p[1] = f /\ p[2] = list /\ p[3] = s
  OBVIOUS
<1> HIDE DEF p
<1>2. Through(f, list, s) = after[Len(list)]
  BY <1>1 DEF Through, ThroughBy!From, FirstState, NextState
<1>3. after = [k \in Nat |-> IF k = 0 THEN FirstState(p) ELSE NextState(p, k, after[k - 1])]
  BY ThroughBy!FromIs
<1>4. FirstState(p) = s /\ \A k, st : NextState(p, k, st) = f[list[k]][st]
  BY <1>1 DEF FirstState, NextState
<1>5. \A k \in Nat : k + 1 \in Nat /\ k + 1 # 0 /\ (k + 1) - 1 = k
  OBVIOUS
<1> HIDE DEF after
<1>6. after[0] = s /\ \A k \in Nat : after[k + 1] = f[list[k + 1]][after[k]]
  BY <1>3, <1>4, <1>5
<1>7. QED
  BY <1>2, <1>6 DEF Passes

\* What holds before a list, and is kept by what is done with each of its
\* elements, holds after the list.  P is the set of states it holds in.
LEMMA ThroughKeeps ==
  ASSUME NEW f, NEW T, NEW list \in Seq(T), NEW P, NEW s \in P,
         \A e \in T, st \in P : f[e][st] \in P
  PROVE  Through(f, list, s) \in P
<1>1. PICK after : Passes(f, list, s, after)
  BY ThroughIs
<1> DEFINE Off == {k \in 0 .. Len(list) : after[k] \notin P}
<1>2. Off = {}
  <2> SUFFICES ASSUME Off # {}
               PROVE  FALSE
    OBVIOUS
  <2>1. PICK k \in Off : \A j \in Off : k <= j
    <3>1. Off \in SUBSET Nat
      OBVIOUS
    <3>2. QED
      BY <3>1, TreesBy!Least
  <2>2. k # 0
    BY <1>1, <2>1 DEF Passes
  <2>3. k - 1 \in Nat /\ (k - 1) + 1 = k /\ k \in 1 .. Len(list)
    BY <2>2
  <2>4. after[k - 1] \in P
    BY <2>1, <2>3
  <2>5. list[k] \in T
    BY <2>3
  <2>6. after[(k - 1) + 1] = f[list[(k - 1) + 1]][after[k - 1]]
    BY <1>1, <2>3 DEF Passes
  <2>7. f[list[k]][after[k - 1]] \in P
    BY <2>4, <2>5
  <2>8. QED
    BY <2>1, <2>3, <2>6, <2>7
<1>3. Len(list) \in 0 .. Len(list)
  OBVIOUS
<1>4. QED
  BY <1>1, <1>2, <1>3 DEF Passes

-----------------------------------------------------------------------------
(* Code that is still being put together.                                  *)

\* A conditional jump before the jump at position i, on the way it repeats, leads
\* to just behind it.
HasExit(code, i) ==
  \E j \in code[i].arg2 + 1 .. i - 1 :
    code[j].code = "CODE_JUMP_IF_FALSE" /\ j + code[j].arg2 = i

\* What has been emitted at position i, from 1: no CODE_RET; a jump back has the
\* conditional jump that leaves its loop; a conditional jump goes no further
\* than behind what there is.
Sound(code, i) ==
  /\ WellTyped(code[i])
  /\ code[i].code # "CODE_RET"
  /\ code[i].code = "CODE_JUMP" => HasExit(code, i)
  /\ code[i].code = "CODE_JUMP_IF_FALSE" => i + code[i].arg2 <= Len(code)

Partial(code) == \A i \in DOMAIN code : Sound(code, i)

Return == instr("CODE_RET", "", 0)
Untaken == instr("CODE_JUMP_IF_FALSE", "", 0)
Back(to) == instr("CODE_JUMP", "", to)

\* The code of a function.
Finished(code) ==
  \E body \in Seq(Bytecode) : Partial(body) /\ code = Append(body, Return)

\* new goes on as old did.
Kept(old, new) == Len(old) <= Len(new) /\ \A k \in 1 .. Len(old) : new[k] = old[k]

-----------------------------------------------------------------------------
LEMMA JumpsWellTyped ==
  ASSUME NEW c, c.code \in {"CODE_RET", "CODE_JUMP", "CODE_JUMP_IF_FALSE"}, c.arg2 \in Nat
  PROVE  WellTyped(c)
BY DEF WellTyped

LEMMA InstrIs ==
  ASSUME NEW code \in Derp_code_type, NEW arg1 \in Chars, NEW arg2 \in Int
  PROVE  /\ instr(code, arg1, arg2) \in Bytecode
         /\ instr(code, arg1, arg2).code = code
         /\ instr(code, arg1, arg2).arg1 = arg1
         /\ instr(code, arg1, arg2).arg2 = arg2
BY DEF instr, Bytecode

LEMMA JumpsAre ==
  /\ Return \in Bytecode /\ Return.code = "CODE_RET" /\ Return.arg2 = 0
  /\ Untaken \in Bytecode /\ Untaken.code = "CODE_JUMP_IF_FALSE" /\ Untaken.arg2 = 0
  /\ \A to \in Int :
       Back(to) \in Bytecode /\ Back(to).code = "CODE_JUMP" /\ Back(to).arg2 = to
<1>1. Return \in Bytecode /\ Return.code = "CODE_RET" /\ Return.arg2 = 0
  BY DEF Return, instr, Bytecode, Derp_code_type, Chars
<1>2. Untaken \in Bytecode /\ Untaken.code = "CODE_JUMP_IF_FALSE" /\ Untaken.arg2 = 0
  BY DEF Untaken, instr, Bytecode, Derp_code_type, Chars
<1>3. ASSUME NEW to \in Int
      PROVE  Back(to) \in Bytecode /\ Back(to).code = "CODE_JUMP" /\ Back(to).arg2 = to
  BY DEF Back, instr, Bytecode, Derp_code_type, Chars
<1>4. QED
  BY <1>1, <1>2, <1>3

LEMMA KeptTrans ==
  ASSUME NEW S, NEW a \in Seq(S), NEW b \in Seq(S), NEW c \in Seq(S), Kept(a, b), Kept(b, c)
  PROVE  Kept(a, c)
BY DEF Kept

LEMMA KeptAppend ==
  ASSUME NEW S, NEW a \in Seq(S), NEW x \in S
  PROVE  /\ Append(a, x) \in Seq(S)
         /\ Len(Append(a, x)) = Len(a) + 1
         /\ Append(a, x)[Len(a) + 1] = x
         /\ \A k \in 1 .. Len(a) : Append(a, x)[k] = a[k]
         /\ Kept(a, Append(a, x))
BY DEF Kept

-----------------------------------------------------------------------------
(* What the compiler emits keeps code sound.                               *)

Plain(c) ==
  /\ c \in Bytecode
  /\ WellTyped(c)
  /\ c.code \notin {"CODE_RET", "CODE_JUMP"}
  /\ c.code = "CODE_JUMP_IF_FALSE" => c.arg2 = 0

LEMMA EmitPlain ==
  ASSUME NEW code \in Seq(Bytecode), Partial(code), NEW c, Plain(c)
  PROVE  Partial(Append(code, c))
<1> DEFINE new == Append(code, c)
<1>1. /\ new \in Seq(Bytecode)
      /\ Len(new) = Len(code) + 1
      /\ new[Len(code) + 1] = c
      /\ \A k \in 1 .. Len(code) : new[k] = code[k]
  BY KeptAppend DEF Plain
<1> SUFFICES Partial(new)
  OBVIOUS
<1> HIDE DEF new
<1> SUFFICES ASSUME NEW i \in 1 .. Len(code) + 1
             PROVE  Sound(new, i)
  BY <1>1 DEF Partial
<1>2. CASE i = Len(code) + 1
  BY <1>1, <1>2 DEF Plain, Sound
<1>3. CASE i \in 1 .. Len(code)
  <2>1. Sound(code, i) /\ new[i] = code[i]
    BY <1>1, <1>3 DEF Partial
  <2>2. code[i].code = "CODE_JUMP" => code[i].arg2 \in Nat
    BY <2>1 DEF Sound, WellTyped
  <2>3. ASSUME code[i].code = "CODE_JUMP"
        PROVE  HasExit(new, i)
    <3>1. PICK j \in code[i].arg2 + 1 .. i - 1 :
            code[j].code = "CODE_JUMP_IF_FALSE" /\ j + code[j].arg2 = i
      BY <2>1, <2>3 DEF Sound, HasExit
    <3>2. j \in 1 .. Len(code)
      BY <1>3, <2>2, <2>3
    <3>3. QED
      BY <1>1, <2>1, <3>1, <3>2 DEF HasExit
  <2>4. code[i].code = "CODE_JUMP_IF_FALSE" => i + code[i].arg2 <= Len(new)
    <3>1. code[i] \in Bytecode
      BY <1>3
    <3>2. code[i].arg2 \in Int
      BY <3>1 DEF Bytecode
    <3>3. QED
      BY <1>1, <1>3, <2>1, <3>2 DEF Sound
  <2>5. QED
    BY <2>1, <2>3, <2>4 DEF Sound
<1>4. QED
  BY <1>2, <1>3

\* The output after the offset of the conditional jump at position n was filled
\* in.
Jumping(code, n) == [code EXCEPT ![n].arg2 = Len(code) - n]

LEMMA JumpingIs ==
  ASSUME NEW code \in Seq(Bytecode), NEW n \in DOMAIN code
  PROVE  /\ Jumping(code, n) \in Seq(Bytecode)
         /\ Len(Jumping(code, n)) = Len(code)
         /\ \A k \in DOMAIN code \ {n} : Jumping(code, n)[k] = code[k]
         /\ Jumping(code, n)[n] = [code[n] EXCEPT !.arg2 = Len(code) - n]
<1> DEFINE c == [code[n] EXCEPT !.arg2 = Len(code) - n]
<1>1. code[n] \in Bytecode /\ Len(code) - n \in Int
  OBVIOUS
<1>2. c \in Bytecode
  BY <1>1 DEF Bytecode
<1>3. Jumping(code, n) = [code EXCEPT ![n] = c]
  BY DEF Jumping
<1> HIDE DEF c
<1>4. QED
  BY <1>2, <1>3 DEF c

\* NIFSTRUCTURE: the offset of a jump not filled in yet may be filled in with
\* the distance to the end.
LEMMA EndIf ==
  ASSUME NEW code \in Seq(Bytecode), Partial(code),
         NEW n \in DOMAIN code, code[n] = Untaken
  PROVE  Partial(Jumping(code, n))
<1> DEFINE new == Jumping(code, n)
           end == Len(code)
<1>1. /\ new \in Seq(Bytecode) /\ Len(new) = end
      /\ \A k \in 1 .. end : k # n => new[k] = code[k]
      /\ new[n] = [Untaken EXCEPT !.arg2 = end - n]
  BY JumpingIs
<1> SUFFICES Partial(new)
  OBVIOUS
<1>2. n \in 1 .. end /\ end \in Nat
  OBVIOUS
<1> HIDE DEF new
<1>3. new[n].code = "CODE_JUMP_IF_FALSE" /\ new[n].arg2 = end - n
  BY <1>1, JumpsAre
<1> HIDE DEF end
<1> SUFFICES ASSUME NEW i \in 1 .. end
             PROVE  Sound(new, i)
  BY <1>1 DEF Partial
<1>4. CASE i = n
  <2>1. new[n].arg2 \in Nat /\ n + new[n].arg2 = Len(new)
    BY <1>1, <1>2, <1>3
  <2>2. WellTyped(new[n])
    BY <1>3, <2>1, JumpsWellTyped
  <2>3. QED
    BY <1>3, <1>4, <2>1, <2>2 DEF Sound
<1>5. CASE i # n
  <2>1. Sound(code, i) /\ new[i] = code[i]
    BY <1>1, <1>5 DEF Partial, end
  <2>2. code[i].code = "CODE_JUMP" => code[i].arg2 \in Nat
    BY <2>1 DEF Sound, WellTyped
  <2>3. ASSUME code[i].code = "CODE_JUMP"
        PROVE  HasExit(new, i)
    <3>1. PICK j \in code[i].arg2 + 1 .. i - 1 :
            code[j].code = "CODE_JUMP_IF_FALSE" /\ j + code[j].arg2 = i
      BY <2>1, <2>3 DEF Sound, HasExit
    <3>2. j \in 1 .. end /\ j < i
      BY <1>2, <2>2, <2>3
    <3>3. j # n
      BY <3>1, <3>2, JumpsAre
    <3>4. QED
      BY <1>1, <2>1, <3>1, <3>2, <3>3 DEF HasExit
  <2>4. QED
    BY <1>1, <2>1, <2>3 DEF Sound, end
<1>6. QED
  BY <1>4, <1>5

\* NWHILESTRUCTURE: so may that of a loop, once the jump back has been emitted.
LEMMA EndWhile ==
  ASSUME NEW code \in Seq(Bytecode), Partial(code),
         NEW n \in DOMAIN code, code[n] = Untaken, NEW start \in 0 .. n - 1
  PROVE  Partial(Jumping(Append(code, Back(start)), n))
<1> DEFINE longer == Append(code, Back(start))
           new == Jumping(longer, n)
           end == Len(code) + 1
<1>1. Back(start) \in Bytecode
  BY JumpsAre
<1>2. /\ longer \in Seq(Bytecode) /\ Len(longer) = end
      /\ longer[end] = Back(start)
      /\ \A k \in 1 .. Len(code) : longer[k] = code[k]
  BY <1>1, KeptAppend
<1>3. n \in DOMAIN longer /\ n # end /\ n \in 1 .. Len(code)
  BY <1>2
<1> SUFFICES Partial(new)
  OBVIOUS
<1> HIDE DEF longer
<1>4. /\ new \in Seq(Bytecode) /\ Len(new) = end
      /\ \A k \in 1 .. end : k # n => new[k] = longer[k]
      /\ new[n] = [Untaken EXCEPT !.arg2 = end - n]
  BY <1>2, <1>3, JumpingIs
<1> HIDE DEF new
<1>5. /\ new[n].code = "CODE_JUMP_IF_FALSE" /\ new[n].arg2 = end - n
      /\ new[end].code = "CODE_JUMP" /\ new[end].arg2 = start
  BY <1>2, <1>3, <1>4, JumpsAre
<1> SUFFICES ASSUME NEW i \in 1 .. end
             PROVE  Sound(new, i)
  BY <1>4 DEF Partial
<1>6. CASE i = n
  <2>1. new[n].arg2 \in Nat /\ n + new[n].arg2 = Len(new)
    BY <1>3, <1>4, <1>5
  <2>2. WellTyped(new[n])
    BY <1>5, <2>1, JumpsWellTyped
  <2>3. QED
    BY <1>5, <1>6, <2>1, <2>2 DEF Sound
<1>7. CASE i = end
  <2>1. n \in start + 1 .. end - 1 /\ n + new[n].arg2 = end
    BY <1>3, <1>5
  <2>2. HasExit(new, end)
    BY <1>5, <2>1 DEF HasExit
  <2>3. WellTyped(new[end])
    BY <1>5, JumpsWellTyped
  <2>4. QED
    BY <1>5, <1>7, <2>2, <2>3 DEF Sound
<1>8. CASE i # n /\ i # end
  <2>1. Sound(code, i) /\ new[i] = code[i] /\ i \in 1 .. Len(code)
    BY <1>2, <1>4, <1>8 DEF Partial
  <2>2. code[i].code = "CODE_JUMP" => code[i].arg2 \in Nat
    BY <2>1 DEF Sound, WellTyped
  <2>3. ASSUME code[i].code = "CODE_JUMP"
        PROVE  HasExit(new, i)
    <3>1. PICK j \in code[i].arg2 + 1 .. i - 1 :
            code[j].code = "CODE_JUMP_IF_FALSE" /\ j + code[j].arg2 = i
      BY <2>1, <2>3 DEF Sound, HasExit
    <3>2. j \in 1 .. Len(code) /\ j < i
      BY <2>1, <2>2, <2>3
    <3>3. j # n
      BY <3>1, <3>2, JumpsAre
    <3>4. new[j] = code[j]
      BY <1>2, <1>4, <3>2, <3>3
    <3>5. QED
      BY <2>1, <3>1, <3>4 DEF HasExit
  <2>4. code[i].code = "CODE_JUMP_IF_FALSE" => i + code[i].arg2 <= Len(new)
    <3>1. code[i] \in Bytecode
      BY <2>1
    <3>2. code[i].arg2 \in Int
      BY <3>1 DEF Bytecode
    <3>3. QED
      BY <1>4, <2>1, <3>2 DEF Sound
  <2>5. QED
    BY <2>1, <2>3, <2>4 DEF Sound
<1>9. QED
  BY <1>6, <1>7, <1>8

-----------------------------------------------------------------------------
(* What sound code promises.  `code` goes on as `part` did, which is sound; *)
(* there may be a CODE_RET behind it.                                      *)

LEMMA SoundLeads ==
  ASSUME NEW part \in Seq(Bytecode), Partial(part), NEW code, Kept(part, code),
         NEW i \in 0 .. Len(part) - 1
  PROVE  /\ WellTyped(code[i + 1])
         /\ code[i + 1].code # "CODE_RET"
         /\ Targets(code, i) \subseteq 0 .. Len(part)
         /\ code[i + 1].code = "CODE_JUMP" =>
              \E j \in code[i + 1].arg2 .. i - 1 :
                code[j + 1].code = "CODE_JUMP_IF_FALSE" /\ i + 1 \in Targets(code, j)
<1>1. i + 1 \in 1 .. Len(part) /\ Len(part) \in Nat /\ i \in Nat
  OBVIOUS
<1>2. \A k \in 1 .. Len(part) : code[k] = part[k]
  BY DEF Kept
<1> DEFINE c == code[i + 1]
<1>3. Sound(part, i + 1) /\ c = part[i + 1]
  BY <1>1, <1>2 DEF Partial
<1>4. c \in Bytecode
  BY <1>1, <1>3
<1>5. WellTyped(c) /\ c.code # "CODE_RET" /\ c.arg2 \in Int
  BY <1>3, <1>4 DEF Sound, Bytecode
<1>6. /\ c.code = "CODE_JUMP" => c.arg2 \in Nat
      /\ c.code = "CODE_JUMP_IF_FALSE" => c.arg2 \in Nat
  BY <1>5 DEF WellTyped
<1>7. ASSUME c.code = "CODE_JUMP"
      PROVE  \E j \in c.arg2 .. i - 1 :
               code[j + 1].code = "CODE_JUMP_IF_FALSE" /\ i + 1 \in Targets(code, j)
  <2>1. PICK j \in c.arg2 + 1 .. (i + 1) - 1 :
          part[j].code = "CODE_JUMP_IF_FALSE" /\ j + part[j].arg2 = i + 1
    BY <1>3, <1>7 DEF Sound, HasExit
  <2>2. j \in 1 .. Len(part) /\ j - 1 \in c.arg2 .. i - 1 /\ (j - 1) + 1 = j
    BY <1>1, <1>6, <1>7
  <2>3. code[j].code = "CODE_JUMP_IF_FALSE" /\ j + code[j].arg2 = i + 1
    BY <1>2, <2>1, <2>2
  <2>4. i + 1 \in Targets(code, j - 1)
    BY <2>2, <2>3 DEF Targets
  <2>5. QED
    BY <2>2, <2>3, <2>4
<1>8. c.code = "CODE_JUMP" => c.arg2 \in 0 .. Len(part)
  BY <1>1, <1>6, <1>7
<1>9. c.code = "CODE_JUMP_IF_FALSE" => i + 1 + c.arg2 \in 0 .. Len(part)
  BY <1>1, <1>3, <1>5, <1>6 DEF Sound
<1> HIDE DEF c
<1>10. Targets(code, i) \subseteq 0 .. Len(part)
  BY <1>1, <1>5, <1>8, <1>9 DEF Targets, c
<1>11. QED
  BY <1>5, <1>7, <1>10 DEF c

LEMMA GlobalCode ==
  ASSUME NEW code \in Seq(Bytecode), Partial(code)
  PROVE  /\ Closed(code, FALSE)
         /\ LeavesLoops(code)
         /\ \A i \in DOMAIN code : WellTyped(code[i])
<1>1. Kept(code, code)
  BY DEF Kept
<1>2. Closed(code, FALSE)
  <2>1. Len(code) - (IF FALSE THEN 1 ELSE 0) = Len(code)
    OBVIOUS
  <2>2. QED
    BY <1>1, <2>1, SoundLeads DEF Closed
<1>3. LeavesLoops(code)
  BY <1>1, SoundLeads DEF LeavesLoops
<1>4. QED
  BY <1>2, <1>3 DEF Partial, Sound

LEMMA FunctionCode ==
  ASSUME NEW code, Finished(code)
  PROVE  /\ code \in Seq(Bytecode)
         /\ Closed(code, TRUE)
         /\ LeavesLoops(code)
         /\ \A i \in DOMAIN code : WellTyped(code[i])
<1>1. PICK body \in Seq(Bytecode) : Partial(body) /\ code = Append(body, Return)
  BY DEF Finished
<1> DEFINE n == Len(body)
<1>2. /\ code \in Seq(Bytecode) /\ Len(code) = n + 1 /\ n \in Nat
      /\ code[n + 1] = Return /\ Kept(body, code)
  BY <1>1, KeptAppend, JumpsAre
<1>3. code[n + 1].code = "CODE_RET" /\ WellTyped(code[n + 1])
  BY <1>2, JumpsAre, JumpsWellTyped
<1>4. ASSUME NEW i \in 0 .. Len(code) - 1
      PROVE  /\ Targets(code, i) \subseteq 0 .. n
             /\ code[i + 1].code = "CODE_RET" <=> i = n
             /\ WellTyped(code[i + 1])
             /\ code[i + 1].code = "CODE_JUMP" =>
                  \E j \in code[i + 1].arg2 .. i - 1 :
                    code[j + 1].code = "CODE_JUMP_IF_FALSE" /\ i + 1 \in Targets(code, j)
  <2>1. CASE i = n
    BY <1>3, <2>1 DEF Targets
  <2>2. CASE i # n
    <3>1. i \in 0 .. n - 1
      BY <1>2, <2>2
    <3>2. QED
      BY <1>1, <1>2, <2>2, <3>1, SoundLeads
  <2>3. QED
    BY <2>1, <2>2
<1>5. code # <<>> /\ Len(code) - (IF TRUE THEN 1 ELSE 0) = n /\ Len(code) - 1 = n
  BY <1>2
<1>6. Closed(code, TRUE)
  BY <1>4, <1>5 DEF Closed
<1>7. LeavesLoops(code)
  BY <1>4 DEF LeavesLoops
<1>8. \A i \in DOMAIN code : i - 1 \in 0 .. Len(code) - 1 /\ (i - 1) + 1 = i
  BY <1>2
<1>9. \A i \in DOMAIN code : WellTyped(code[i])
  BY <1>4, <1>8
<1>10. QED
  BY <1>2, <1>6, <1>7, <1>9

-----------------------------------------------------------------------------
(* What compiling does to the state.                                       *)

\* What was added to list is finished.
NewFinished(list, longer) ==
  \A k \in Len(list) + 1 .. Len(longer) : Finished(longer[k].code)

\* Nothing the blob holds changes; unless the compiler died, it did not die
\* before, and what was added is finished.
BlobGrows(b, c) ==
  /\ c \in file_blob_t
  /\ Kept(b.fns, c.fns)
  /\ Kept(b.literals, c.literals)
  /\ ~c.crashed => /\ ~b.crashed
                   /\ NewFinished(b.fns, c.fns)
                   /\ NewFinished(b.literals, c.literals)

\* What was emitted stays as it is, and sound if it is.
Continues(st, after) ==
  /\ after \in State
  /\ Kept(st.out, after.out)
  /\ Partial(st.out) => Partial(after.out)
  /\ BlobGrows(st.blob, after.blob)

LEMMA StateParts ==
  ASSUME NEW st \in State
  PROVE  /\ st.out \in Seq(Bytecode)
         /\ st.blob \in file_blob_t
BY DEF State

LEMMA BlobParts ==
  ASSUME NEW b \in file_blob_t
  PROVE  /\ b.fns \in Seq(fn_blob_t)
         /\ b.literals \in Seq(literal_t)
         /\ b.crashed \in BOOLEAN
BY DEF file_blob_t

LEMMA KeptRefl ==
  ASSUME NEW S, NEW a \in Seq(S)
  PROVE  Kept(a, a)
BY DEF Kept

LEMMA BlobGrowsRefl ==
  ASSUME NEW b \in file_blob_t
  PROVE  BlobGrows(b, b)
<1>1. NewFinished(b.fns, b.fns) /\ NewFinished(b.literals, b.literals)
  BY BlobParts DEF NewFinished
<1>2. QED
  BY <1>1, BlobParts, KeptRefl DEF BlobGrows

LEMMA NewFinishedTrans ==
  ASSUME NEW S, NEW a \in Seq(S), NEW b \in Seq(S), NEW c \in Seq(S), Kept(b, c),
         NewFinished(a, b), NewFinished(b, c)
  PROVE  NewFinished(a, c)
<1> SUFFICES ASSUME NEW k \in Len(a) + 1 .. Len(c)
             PROVE  Finished(c[k].code)
  BY DEF NewFinished
<1>1. CASE k <= Len(b)
  <2>1. k \in 1 .. Len(b) /\ k \in Len(a) + 1 .. Len(b)
    BY <1>1
  <2>2. c[k] = b[k]
    BY <2>1 DEF Kept
  <2>3. QED
    BY <2>1, <2>2 DEF NewFinished
<1>2. CASE k > Len(b)
  <2>1. k \in Len(b) + 1 .. Len(c)
    BY <1>2
  <2>2. QED
    BY <2>1 DEF NewFinished
<1>3. QED
  BY <1>1, <1>2

LEMMA BlobGrowsTrans ==
  ASSUME NEW a \in file_blob_t, NEW b, NEW c, BlobGrows(a, b), BlobGrows(b, c)
  PROVE  BlobGrows(a, c)
<1>1. /\ a.fns \in Seq(fn_blob_t) /\ a.literals \in Seq(literal_t)
      /\ b.fns \in Seq(fn_blob_t) /\ b.literals \in Seq(literal_t)
      /\ c.fns \in Seq(fn_blob_t) /\ c.literals \in Seq(literal_t)
  BY BlobParts DEF BlobGrows
<1>2. Kept(a.fns, c.fns) /\ Kept(a.literals, c.literals)
  BY <1>1, KeptTrans DEF BlobGrows
<1>3. ASSUME ~c.crashed
      PROVE  /\ ~a.crashed
             /\ NewFinished(a.fns, c.fns)
             /\ NewFinished(a.literals, c.literals)
  <2>1. ~b.crashed /\ NewFinished(b.fns, c.fns) /\ NewFinished(b.literals, c.literals)
    BY <1>3 DEF BlobGrows
  <2>2. ~a.crashed /\ NewFinished(a.fns, b.fns) /\ NewFinished(a.literals, b.literals)
    BY <2>1 DEF BlobGrows
  <2>3. Kept(b.fns, c.fns) /\ Kept(b.literals, c.literals)
    BY DEF BlobGrows
  <2>4. QED
    BY <1>1, <2>1, <2>2, <2>3, NewFinishedTrans
<1>4. QED
  BY <1>2, <1>3 DEF BlobGrows

LEMMA ContinuesRefl ==
  ASSUME NEW st \in State
  PROVE  Continues(st, st)
BY StateParts, KeptRefl, BlobGrowsRefl DEF Continues

LEMMA ContinuesTrans ==
  ASSUME NEW a \in State, NEW b, NEW c, Continues(a, b), Continues(b, c)
  PROVE  Continues(a, c)
<1>1. a.out \in Seq(Bytecode) /\ b.out \in Seq(Bytecode) /\ c.out \in Seq(Bytecode)
  BY StateParts DEF Continues
<1>2. Kept(a.out, c.out)
  BY <1>1, KeptTrans DEF Continues
<1>3. BlobGrows(a.blob, c.blob)
  BY StateParts, BlobGrowsTrans DEF Continues
<1>4. QED
  BY <1>2, <1>3 DEF Continues

\* CODE: emitting an instruction that is no jump back and no return.
LEMMA CODEIs ==
  ASSUME NEW st \in State, NEW code \in Derp_code_type, NEW arg1 \in Chars, NEW arg2 \in Int
  PROVE  /\ CODE(st, code, arg1, arg2) \in State
         /\ CODE(st, code, arg1, arg2).out = Append(st.out, instr(code, arg1, arg2))
         /\ CODE(st, code, arg1, arg2).blob = st.blob
<1>1. instr(code, arg1, arg2) \in Bytecode
  BY InstrIs
<1>2. Append(st.out, instr(code, arg1, arg2)) \in Seq(Bytecode)
  BY <1>1, StateParts
<1>3. QED
  BY <1>2 DEF CODE, State

LEMMA CODEContinues ==
  ASSUME NEW st \in State, NEW code \in Derp_code_type, NEW arg1 \in Chars, NEW arg2 \in Int,
         Plain(instr(code, arg1, arg2))
  PROVE  Continues(st, CODE(st, code, arg1, arg2))
<1> DEFINE c == instr(code, arg1, arg2)
           after == CODE(st, code, arg1, arg2)
<1>1. after \in State /\ after.out = Append(st.out, c) /\ after.blob = st.blob
  BY CODEIs
<1>2. st.out \in Seq(Bytecode) /\ c \in Bytecode /\ BlobGrows(st.blob, st.blob)
  BY StateParts, InstrIs, BlobGrowsRefl
<1> HIDE DEF c, after
<1>3. Kept(st.out, after.out)
  BY <1>1, <1>2, KeptAppend
<1>4. Partial(st.out) => Partial(after.out)
  BY <1>1, <1>2, EmitPlain DEF c
<1>5. QED
  BY <1>1, <1>2, <1>3, <1>4 DEF Continues, after

-----------------------------------------------------------------------------
(* Compiling a list.                                                       *)

\* compile does for every node of T what compiling does.
Compiles(compile, T) == \A e \in T : \A st \in State : Continues(st, compile[e][st])

LEMMA ListContinues ==
  ASSUME NEW compile, NEW T, Compiles(compile, T), NEW list \in Seq(T), NEW st \in State
  PROVE  Continues(st, ast_list_compile(compile, list, st))
<1> DEFINE P == {after \in State : Continues(st, after)}
<1>1. st \in P
  BY ContinuesRefl
<1>2. \A e \in T, mid \in P : compile[e][mid] \in P
  <2> SUFFICES ASSUME NEW e \in T, NEW mid \in P
               PROVE  compile[e][mid] \in P
    OBVIOUS
  <2>1. Continues(mid, compile[e][mid])
    BY DEF Compiles
  <2>2. Continues(st, compile[e][mid])
    BY <2>1, ContinuesTrans
  <2>3. QED
    BY <2>2 DEF Continues
<1> HIDE DEF P
<1>3. Through(compile, list, st) \in P
  BY <1>1, <1>2, ThroughKeeps
<1>4. QED
  BY <1>3 DEF P, ast_list_compile

-----------------------------------------------------------------------------
(* Conditionals and loops.                                                 *)

LEMMA PatchJumpIs ==
  ASSUME NEW st \in State, NEW n \in DOMAIN st.out
  PROVE  /\ PatchJump(st, n) \in State
         /\ PatchJump(st, n).out = Jumping(st.out, n)
         /\ PatchJump(st, n).blob = st.blob
<1>1. PatchJump(st, n) = [st EXCEPT !.out = Jumping(st.out, n)]
  BY StateParts DEF PatchJump, Jumping
<1>2. Jumping(st.out, n) \in Seq(Bytecode)
  BY StateParts, JumpingIs
<1>3. QED
  BY <1>1, <1>2 DEF State

LEMMA KeptJumping ==
  ASSUME NEW old \in Seq(Bytecode), NEW code \in Seq(Bytecode), Kept(old, code),
         NEW n \in DOMAIN code, n > Len(old)
  PROVE  Kept(old, Jumping(code, n))
<1>1. /\ Len(Jumping(code, n)) = Len(code)
      /\ \A k \in DOMAIN code \ {n} : Jumping(code, n)[k] = code[k]
  BY JumpingIs
<1>2. \A k \in 1 .. Len(old) : k \in DOMAIN code \ {n} /\ code[k] = old[k]
  BY DEF Kept
<1>3. Len(old) <= Len(code)
  BY DEF Kept
<1>4. QED
  BY <1>1, <1>2, <1>3 DEF Kept

LEMMA TestContinues ==
  ASSUME NEW compile, NEW T, Compiles(compile, T), NEW cond \in T, NEW st \in State
  PROVE  LET test == CompileTest(compile, cond, st)
         IN  /\ Continues(st, test)
             /\ Len(test.out) > Len(st.out)
             /\ test.out[Len(test.out)] = Untaken
<1> DEFINE value == compile[cond][st]
           test == CompileTest(compile, cond, st)
<1>1. Continues(st, value)
  BY DEF Compiles
<1>2. value \in State
  BY <1>1 DEF Continues
<1> HIDE DEF value
<1>3. "CODE_JUMP_IF_FALSE" \in Derp_code_type /\ "" \in Chars /\ 0 \in Int
  BY DEF Derp_code_type, Chars
<1>4. Plain(Untaken)
  BY JumpsAre, JumpsWellTyped DEF Plain
<1>5. test = CODE(value, "CODE_JUMP_IF_FALSE", "", 0)
  BY DEF CompileTest, value
<1>6. Continues(value, test)
  BY <1>2, <1>3, <1>4, <1>5, CODEContinues DEF Untaken
<1>7. test.out = Append(value.out, Untaken)
  <2>1. CODE(value, "CODE_JUMP_IF_FALSE", "", 0).out =
          Append(value.out, instr("CODE_JUMP_IF_FALSE", "", 0))
    BY <1>2, <1>3, CODEIs
  <2>2. QED
    BY <1>5, <2>1 DEF Untaken
<1>8. Continues(st, test)
  BY <1>1, <1>6, ContinuesTrans
<1>9. value.out \in Seq(Bytecode) /\ st.out \in Seq(Bytecode) /\ Len(st.out) <= Len(value.out)
  BY <1>1, <1>2, StateParts DEF Continues, Kept
<1> HIDE DEF test
<1>10. Len(test.out) = Len(value.out) + 1 /\ test.out[Len(value.out) + 1] = Untaken
  BY <1>7, <1>9, KeptAppend, JumpsAre
<1>11. QED
  BY <1>8, <1>9, <1>10 DEF test

LEMMA IfContinues ==
  ASSUME NEW compile, NEW T, Compiles(compile, T),
         NEW cond \in T, NEW block \in Seq(T), NEW st \in State
  PROVE  Continues(st, CompileIf(compile, cond, block, st))
<1> DEFINE test == CompileTest(compile, cond, st)
           inner == ast_list_compile(compile, block, test)
           n == Len(test.out)
           after == PatchJump(inner, n)
<1>1. Continues(st, test) /\ n > Len(st.out) /\ test.out[n] = Untaken
  BY TestContinues
<1>2. test \in State
  BY <1>1 DEF Continues
<1> HIDE DEF test
<1>3. Continues(test, inner)
  BY <1>2, ListContinues
<1>4. inner \in State
  BY <1>3 DEF Continues
<1> HIDE DEF inner
<1>5. Continues(st, inner)
  BY <1>1, <1>3, ContinuesTrans
<1>6. st.out \in Seq(Bytecode) /\ test.out \in Seq(Bytecode) /\ inner.out \in Seq(Bytecode)
  BY <1>2, <1>4, StateParts
<1>7. n \in DOMAIN inner.out /\ inner.out[n] = Untaken
  BY <1>1, <1>3, <1>6 DEF Continues, Kept
<1>8. after \in State /\ after.out = Jumping(inner.out, n) /\ after.blob = inner.blob
  BY <1>4, <1>7, PatchJumpIs
<1>9. CompileIf(compile, cond, block, st) = after
  BY DEF CompileIf, test, inner
<1> HIDE DEF n, after
<1>10. Kept(st.out, after.out)
  BY <1>1, <1>5, <1>6, <1>7, <1>8, KeptJumping DEF Continues
<1>11. Partial(inner.out) => Partial(after.out)
  BY <1>6, <1>7, <1>8, EndIf
<1>12. QED
  BY <1>5, <1>8, <1>9, <1>10, <1>11 DEF Continues

LEMMA WhileContinues ==
  ASSUME NEW compile, NEW T, Compiles(compile, T),
         NEW cond \in T, NEW block \in Seq(T), NEW st \in State
  PROVE  Continues(st, CompileWhile(compile, cond, block, st))
<1> DEFINE test == CompileTest(compile, cond, st)
           inner == ast_list_compile(compile, block, test)
           start == Len(st.out)
           body == CODE(inner, "CODE_JUMP", "", start)
           n == Len(test.out)
           after == PatchJump(body, n)
<1>1. Continues(st, test) /\ n > start /\ test.out[n] = Untaken
  BY TestContinues
<1>2. test \in State
  BY <1>1 DEF Continues
<1> HIDE DEF test
<1>3. Continues(test, inner)
  BY <1>2, ListContinues
<1>4. inner \in State
  BY <1>3 DEF Continues
<1> HIDE DEF inner
<1>5. Continues(st, inner)
  BY <1>1, <1>3, ContinuesTrans
<1>6. st.out \in Seq(Bytecode) /\ test.out \in Seq(Bytecode) /\ inner.out \in Seq(Bytecode)
  BY <1>2, <1>4, StateParts
<1>7. n \in DOMAIN inner.out /\ inner.out[n] = Untaken
  BY <1>1, <1>3, <1>6 DEF Continues, Kept
<1>8. start \in Nat /\ start \in Int /\ start \in 0 .. n - 1
  BY <1>1, <1>6
<1>9. "CODE_JUMP" \in Derp_code_type /\ "" \in Chars
  BY DEF Derp_code_type, Chars
<1>10. body \in State /\ body.out = Append(inner.out, Back(start)) /\ body.blob = inner.blob
  BY <1>4, <1>8, <1>9, CODEIs DEF Back
<1>11. CompileWhile(compile, cond, block, st) = after
  BY DEF CompileWhile, test, inner
<1> HIDE DEF body, start
<1>12. Back(start) \in Bytecode
  BY <1>8, JumpsAre
<1>13. /\ body.out \in Seq(Bytecode)
       /\ n \in DOMAIN body.out
       /\ Kept(inner.out, body.out)
  BY <1>6, <1>7, <1>10, <1>12, KeptAppend
<1>14. Kept(st.out, body.out)
  BY <1>5, <1>6, <1>13, KeptTrans DEF Continues
<1>15. after \in State /\ after.out = Jumping(body.out, n) /\ after.blob = body.blob
  BY <1>10, <1>13, PatchJumpIs
<1> HIDE DEF n, after
<1>16. Kept(st.out, after.out)
  BY <1>1, <1>6, <1>13, <1>14, <1>15, KeptJumping DEF start
<1>17. Partial(inner.out) => Partial(after.out)
  BY <1>6, <1>7, <1>8, <1>10, <1>15, EndWhile
<1>18. QED
  BY <1>5, <1>10, <1>11, <1>15, <1>16, <1>17 DEF Continues

-----------------------------------------------------------------------------
(* Functions.                                                              *)

LEMMA AssignParamsSound ==
  ASSUME NEW params \in Seq(Name)
  PROVE  AssignParams(params) \in Seq(Bytecode) /\ Partial(AssignParams(params))
<1>1. ASSUME NEW x \in Name
      PROVE  Plain(instr("CODE_ASSIGN", x, 0))
  <2>1. "CODE_ASSIGN" \in Derp_code_type /\ x \in Chars /\ 0 \in Int
    <3>1. x \in STRING
      BY NameAssumption
    <3>2. x \in Chars
      BY <3>1 DEF Chars
    <3>3. "CODE_ASSIGN" \in Derp_code_type
      BY DEF Derp_code_type
    <3>4. QED
      BY <3>2, <3>3
  <2>2. instr("CODE_ASSIGN", x, 0) \in Bytecode
    BY <2>1, InstrIs
  <2>3. WellTyped(instr("CODE_ASSIGN", x, 0))
    BY DEF WellTyped, instr
  <2>4. QED
    BY <2>2, <2>3 DEF Plain, instr
<1> DEFINE code == AssignParams(params)
<1>2. /\ code \in Seq(Bytecode)
      /\ DOMAIN code = DOMAIN params
      /\ \A k \in DOMAIN params : Plain(code[k])
  <2>1. code = [k \in 1 .. Len(params) |-> instr("CODE_ASSIGN", params[k], 0)]
    BY DEF AssignParams
  <2>2. \A k \in 1 .. Len(params) : Plain(instr("CODE_ASSIGN", params[k], 0))
    BY <1>1
  <2> HIDE DEF code
  <2>3. QED
    BY <2>1, <2>2 DEF Plain
<1>3. \A k \in DOMAIN params : code[k].code = "CODE_ASSIGN"
  BY DEF AssignParams, instr
<1> HIDE DEF code
<1>4. Partial(code)
  BY <1>2, <1>3 DEF Partial, Sound, Plain
<1>5. QED
  BY <1>2, <1>4 DEF code

LEMMA BodyFinished ==
  ASSUME NEW compile, NEW T, Compiles(compile, T),
         NEW params \in Seq(Name), NEW block \in Seq(T), NEW blob \in file_blob_t
  PROVE  LET body == CompileBody(compile, params, block, blob)
         IN  Finished(body.out) /\ BlobGrows(blob, body.blob)
<1> DEFINE start == [out |-> AssignParams(params), blob |-> blob]
           inner == ast_list_compile(compile, block, start)
           body == CompileBody(compile, params, block, blob)
<1>1. start \in State /\ start.out = AssignParams(params) /\ start.blob = blob
  BY AssignParamsSound DEF State
<1> HIDE DEF start
<1>2. Continues(start, inner)
  BY <1>1, ListContinues
<1>3. inner \in State
  BY <1>2 DEF Continues
<1> HIDE DEF inner
<1>4. body = CODE(inner, "CODE_RET", "", 0)
  BY DEF CompileBody, inner, start
<1>5. "CODE_RET" \in Derp_code_type /\ "" \in Chars /\ 0 \in Int
  BY DEF Derp_code_type, Chars
<1>6. /\ CODE(inner, "CODE_RET", "", 0).out = Append(inner.out, instr("CODE_RET", "", 0))
      /\ CODE(inner, "CODE_RET", "", 0).blob = inner.blob
  BY <1>3, <1>5, CODEIs
<1>7. body.out = Append(inner.out, Return) /\ body.blob = inner.blob
  BY <1>4, <1>6 DEF Return
<1> HIDE DEF body
<1>8. inner.out \in Seq(Bytecode) /\ Partial(inner.out)
  BY <1>1, <1>2, <1>3, StateParts, AssignParamsSound DEF Continues
<1>9. QED
  BY <1>1, <1>2, <1>7, <1>8 DEF Finished, Continues, body

\* A definition is added to a list, what is nested in it follows, and then it is
\* filled in.
Refilled(r, n, code) == [r EXCEPT ![n].code = code]
Refillable(S, code) ==
  \A x \in S : [x EXCEPT !.code = code] \in S /\ [x EXCEPT !.code = code].code = code

LEMMA FillIn ==
  ASSUME NEW S, NEW a \in Seq(S), NEW f \in S, NEW c, c = Append(a, f),
         NEW r \in Seq(S), Kept(c, r), NEW code, Finished(code),
         Refillable(S, code)
  PROVE  /\ Kept(a, Refilled(r, Len(c), code))
         /\ NewFinished(c, r) => NewFinished(a, Refilled(r, Len(c), code))
<1> DEFINE n == Len(c)
           filled == Refilled(r, n, code)
           g == [r[n] EXCEPT !.code = code]
<1>1. c \in Seq(S) /\ n = Len(a) + 1 /\ Kept(a, c)
  BY KeptAppend
<1>2. n \in 1 .. Len(r) /\ Len(r) \in Nat /\ n \in Nat
  BY <1>1 DEF Kept
<1>3. g \in S /\ g.code = code
  BY <1>2 DEF Refillable
<1>4. filled = [r EXCEPT ![n] = g]
  BY DEF Refilled
<1> HIDE DEF g, n, filled
<1>5. /\ filled \in Seq(S) /\ Len(filled) = Len(r) /\ filled[n] = g
      /\ \A k \in 1 .. Len(r) : k # n => filled[k] = r[k]
  BY <1>2, <1>3, <1>4
<1>6. Kept(a, r)
  BY <1>1, KeptTrans
<1>7. Kept(a, filled)
  BY <1>1, <1>5, <1>6 DEF Kept
<1>8. ASSUME NewFinished(c, r)
      PROVE  NewFinished(a, filled)
  <2> SUFFICES ASSUME NEW k \in Len(a) + 1 .. Len(r)
               PROVE  Finished(filled[k].code)
    BY <1>5 DEF NewFinished
  <2>1. CASE k = n
    BY <1>3, <1>5, <2>1
  <2>2. CASE k # n
    <3>1. k \in n + 1 .. Len(r)
      BY <1>1, <1>2, <2>2
    <3>2. k \in 1 .. Len(r)
      BY <1>2, <3>1
    <3>3. Finished(r[k].code)
      BY <1>8, <3>1 DEF NewFinished, n
    <3>4. QED
      BY <1>5, <2>2, <3>2, <3>3
  <2>3. QED
    BY <2>1, <2>2
<1>9. QED
  BY <1>7, <1>8 DEF n, filled

LEMMA AddFnIs ==
  ASSUME NEW b \in file_blob_t, NEW name \in Chars, NEW argc \in Nat, ~b.crashed
  PROVE  LET c == file_blob_add_fn(b, name, argc)
             f == [name |-> name, argc |-> argc, code |-> <<>>]
         IN  /\ c \in file_blob_t
             /\ c.literals = b.literals
             /\ f \in fn_blob_t
             /\ c.crashed => c.fns = b.fns
             /\ ~c.crashed => c.fns = Append(b.fns, f)
<1> DEFINE f == [name |-> name, argc |-> argc, code |-> <<>>]
<1>1. <<>> \in Seq(Bytecode)
  OBVIOUS
<1>2. f \in fn_blob_t
  BY <1>1 DEF fn_blob_t
<1> HIDE DEF f
<1>3. Append(b.fns, f) \in Seq(fn_blob_t)
  BY <1>2, BlobParts
<1>4. QED
  BY <1>2, <1>3 DEF file_blob_add_fn, file_blob_t, f

LEMMA AddLiteralIs ==
  ASSUME NEW b \in file_blob_t, NEW argc \in Nat, ~b.crashed
  PROVE  LET c == file_blob_add_literal(b, argc)
             l == [argc |-> argc, code |-> <<>>]
         IN  /\ c \in file_blob_t
             /\ c.fns = b.fns
             /\ l \in literal_t
             /\ c.crashed => c.literals = b.literals
             /\ ~c.crashed => c.literals = Append(b.literals, l)
<1> DEFINE l == [argc |-> argc, code |-> <<>>]
<1>1. <<>> \in Seq(Bytecode)
  OBVIOUS
<1>2. l \in literal_t
  BY <1>1 DEF literal_t
<1> HIDE DEF l
<1>3. Append(b.literals, l) \in Seq(literal_t)
  BY <1>2, BlobParts
<1>4. QED
  BY <1>2, <1>3 DEF file_blob_add_literal, file_blob_t, l

\* The blob once a function, and what is nested in it, is compiled.
FilledFn(r, n, code) == [r EXCEPT !.fns[n].code = code]
FilledLiteral(r, n, code) == [r EXCEPT !.literals[n].code = code]

LEMMA FilledFnIs ==
  ASSUME NEW r \in file_blob_t, NEW n \in DOMAIN r.fns, NEW code \in Seq(Bytecode)
  PROVE  /\ FilledFn(r, n, code) \in file_blob_t
         /\ FilledFn(r, n, code).fns = Refilled(r.fns, n, code)
         /\ FilledFn(r, n, code).literals = r.literals
         /\ FilledFn(r, n, code).crashed = r.crashed
<1> DEFINE fns == Refilled(r.fns, n, code)
<1>1. r.fns \in Seq(fn_blob_t)
  BY BlobParts
<1>2. r.fns[n] \in fn_blob_t
  BY <1>1
<1>3. [r.fns[n] EXCEPT !.code = code] \in fn_blob_t
  BY <1>2 DEF fn_blob_t
<1>4. fns = [r.fns EXCEPT ![n] = [r.fns[n] EXCEPT !.code = code]]
  BY DEF Refilled
<1>5. fns \in Seq(fn_blob_t)
  BY <1>1, <1>3, <1>4
<1>6. FilledFn(r, n, code) = [r EXCEPT !.fns = fns]
  BY DEF FilledFn, Refilled
<1> HIDE DEF fns
<1>7. QED
  BY <1>5, <1>6 DEF file_blob_t, fns

LEMMA FilledLiteralIs ==
  ASSUME NEW r \in file_blob_t, NEW n \in DOMAIN r.literals, NEW code \in Seq(Bytecode)
  PROVE  /\ FilledLiteral(r, n, code) \in file_blob_t
         /\ FilledLiteral(r, n, code).literals = Refilled(r.literals, n, code)
         /\ FilledLiteral(r, n, code).fns = r.fns
         /\ FilledLiteral(r, n, code).crashed = r.crashed
<1> DEFINE literals == Refilled(r.literals, n, code)
<1>1. r.literals \in Seq(literal_t)
  BY BlobParts
<1>2. r.literals[n] \in literal_t
  BY <1>1
<1>3. [r.literals[n] EXCEPT !.code = code] \in literal_t
  BY <1>2 DEF literal_t
<1>4. literals = [r.literals EXCEPT ![n] = [r.literals[n] EXCEPT !.code = code]]
  BY DEF Refilled
<1>5. literals \in Seq(literal_t)
  BY <1>1, <1>3, <1>4
<1>6. FilledLiteral(r, n, code) = [r EXCEPT !.literals = literals]
  BY DEF FilledLiteral, Refilled
<1> HIDE DEF literals
<1>7. QED
  BY <1>5, <1>6 DEF file_blob_t, literals

\* The state with another blob.
LEMMA SameOutput ==
  ASSUME NEW st \in State, NEW b, BlobGrows(st.blob, b)
  PROVE  /\ [st EXCEPT !.blob = b] \in State
         /\ [st EXCEPT !.blob = b].blob = b
         /\ Continues(st, [st EXCEPT !.blob = b])
<1> DEFINE after == [st EXCEPT !.blob = b]
<1>1. b \in file_blob_t
  BY DEF BlobGrows
<1>2. after \in State /\ after.out = st.out /\ after.blob = b
  BY <1>1 DEF State
<1>3. Kept(st.out, st.out)
  BY StateParts, KeptRefl
<1> HIDE DEF after
<1>4. Continues(st, after)
  BY <1>2, <1>3 DEF Continues
<1>5. QED
  BY <1>2, <1>4 DEF after

LEMMA FuncDefContinues ==
  ASSUME NEW compile, NEW T, Compiles(compile, T),
         NEW e, e.name \in Chars, e.params \in Seq(Name), e.block \in Seq(T),
         NEW st \in State, ~st.blob.crashed
  PROVE  Continues(st, CompileFuncDef(compile, e, st))
<1> DEFINE b == st.blob
           argc == Len(e.params)
           f == [name |-> e.name, argc |-> argc, code |-> <<>>]
           c == file_blob_add_fn(b, e.name, argc)
           body == CompileBody(compile, e.params, e.block, c)
           n == Len(c.fns)
           filled == FilledFn(body.blob, n, body.out)
<1>1. b \in file_blob_t /\ argc \in Nat
  BY StateParts
<1>2. /\ c \in file_blob_t /\ f \in fn_blob_t /\ c.literals = b.literals
      /\ c.crashed => c.fns = b.fns
      /\ ~c.crashed => c.fns = Append(b.fns, f)
  BY <1>1, AddFnIs
<1>3. CompileFuncDef(compile, e, st) = [st EXCEPT !.blob = IF c.crashed THEN c ELSE filled]
  BY DEF CompileFuncDef, FilledFn
<1> HIDE DEF c
<1>4. Finished(body.out) /\ BlobGrows(c, body.blob)
  BY <1>2, BodyFinished
<1> HIDE DEF body, f, argc
<1>5. CASE c.crashed
  <2>1. Kept(b.fns, c.fns) /\ Kept(b.literals, c.literals)
    BY <1>1, <1>2, <1>5, BlobParts, KeptRefl
  <2>2. BlobGrows(b, c)
    BY <1>2, <1>5, <2>1 DEF BlobGrows
  <2>3. QED
    BY <1>3, <1>5, <2>2, SameOutput
<1>6. CASE ~c.crashed
  <2>1. /\ body.blob \in file_blob_t
        /\ body.out \in Seq(Bytecode)
        /\ b.fns \in Seq(fn_blob_t) /\ c.fns = Append(b.fns, f)
        /\ body.blob.fns \in Seq(fn_blob_t) /\ Kept(c.fns, body.blob.fns)
    BY <1>1, <1>2, <1>4, <1>6, BlobParts, FunctionCode DEF BlobGrows
  <2>2. n = Len(b.fns) + 1 /\ n \in DOMAIN body.blob.fns
    BY <1>2, <2>1, KeptAppend DEF Kept
  <2>3. /\ filled \in file_blob_t
        /\ filled.fns = Refilled(body.blob.fns, n, body.out)
        /\ filled.literals = body.blob.literals
        /\ filled.crashed = body.blob.crashed
    BY <2>1, <2>2, FilledFnIs
  <2>4. Refillable(fn_blob_t, body.out)
    BY <2>1 DEF fn_blob_t, Refillable
  <2> HIDE DEF filled
  <2>5. /\ Kept(b.fns, filled.fns)
        /\ NewFinished(c.fns, body.blob.fns) => NewFinished(b.fns, filled.fns)
    <3>1. f \in fn_blob_t /\ Finished(body.out) /\ n = Len(c.fns)
      BY <1>2, <1>4
    <3> HIDE DEF n, b
    <3>2. ASSUME NEW list, list = c.fns, NEW r, r = body.blob.fns, NEW code, code = body.out
          PROVE  /\ Kept(b.fns, Refilled(r, n, code))
                 /\ NewFinished(list, r) => NewFinished(b.fns, Refilled(r, n, code))
      <4>1. /\ b.fns \in Seq(fn_blob_t) /\ list = Append(b.fns, f)
            /\ r \in Seq(fn_blob_t) /\ Kept(list, r)
        BY <2>1, <3>2
      <4>2. Finished(code) /\ Refillable(fn_blob_t, code) /\ f \in fn_blob_t /\ n = Len(list)
        BY <2>4, <3>1, <3>2
      <4>3. QED
        BY <4>1, <4>2, FillIn
    <3>3. QED
      BY <2>3, <3>2
  <2>6. BlobGrows(b, filled)
    BY <1>2, <1>4, <1>6, <2>3, <2>5 DEF BlobGrows
  <2>7. QED
    BY <1>3, <1>6, <2>6, SameOutput
<1>7. QED
  BY <1>5, <1>6

LEMMA AnonFuncDefContinues ==
  ASSUME NEW compile, NEW T, Compiles(compile, T),
         NEW e, e.params \in Seq(Name), e.block \in Seq(T),
         NEW st \in State, ~st.blob.crashed
  PROVE  Continues(st, CompileAnonFuncDef(compile, e, st))
<1> DEFINE b == st.blob
           argc == Len(e.params)
           l == [argc |-> argc, code |-> <<>>]
           c == file_blob_add_literal(b, argc)
           body == CompileBody(compile, <<>>, e.block, c)
           n == Len(c.literals)
           filled == FilledLiteral(body.blob, n, body.out)
           after == [st EXCEPT !.blob = filled]
<1>1. b \in file_blob_t /\ argc \in Nat /\ <<>> \in Seq(Name)
  BY StateParts
<1>2. /\ c \in file_blob_t /\ l \in literal_t /\ c.fns = b.fns
      /\ c.crashed => c.literals = b.literals
      /\ ~c.crashed => c.literals = Append(b.literals, l)
  BY <1>1, AddLiteralIs
<1>3. CompileAnonFuncDef(compile, e, st) =
        IF c.crashed THEN [st EXCEPT !.blob = c] ELSE CODE(after, "CODE_PUSH_FN", "", n)
  BY DEF CompileAnonFuncDef, FilledLiteral
<1> HIDE DEF c
<1>4. Finished(body.out) /\ BlobGrows(c, body.blob)
  BY <1>1, <1>2, BodyFinished
<1> HIDE DEF body, l, argc
<1>5. CASE c.crashed
  <2>1. Kept(b.fns, c.fns) /\ Kept(b.literals, c.literals)
    BY <1>1, <1>2, <1>5, BlobParts, KeptRefl
  <2>2. BlobGrows(b, c)
    BY <1>2, <1>5, <2>1 DEF BlobGrows
  <2>3. QED
    BY <1>3, <1>5, <2>2, SameOutput
<1>6. CASE ~c.crashed
  <2>1. /\ body.blob \in file_blob_t
        /\ body.out \in Seq(Bytecode)
        /\ b.literals \in Seq(literal_t) /\ c.literals = Append(b.literals, l)
        /\ body.blob.literals \in Seq(literal_t) /\ Kept(c.literals, body.blob.literals)
    BY <1>1, <1>2, <1>4, <1>6, BlobParts, FunctionCode DEF BlobGrows
  <2>2. n = Len(b.literals) + 1 /\ n \in DOMAIN body.blob.literals /\ n \in Nat
    BY <1>2, <2>1, KeptAppend DEF Kept
  <2>3. /\ filled \in file_blob_t
        /\ filled.literals = Refilled(body.blob.literals, n, body.out)
        /\ filled.fns = body.blob.fns
        /\ filled.crashed = body.blob.crashed
    BY <2>1, <2>2, FilledLiteralIs
  <2>4. Refillable(literal_t, body.out)
    BY <2>1 DEF literal_t, Refillable
  <2> HIDE DEF filled
  <2>5. /\ Kept(b.literals, filled.literals)
        /\ NewFinished(c.literals, body.blob.literals) => NewFinished(b.literals, filled.literals)
    <3>1. l \in literal_t /\ Finished(body.out) /\ n = Len(c.literals)
      BY <1>2, <1>4
    <3> HIDE DEF n, b
    <3>2. ASSUME NEW list, list = c.literals, NEW r, r = body.blob.literals, NEW code, code = body.out
          PROVE  /\ Kept(b.literals, Refilled(r, n, code))
                 /\ NewFinished(list, r) => NewFinished(b.literals, Refilled(r, n, code))
      <4>1. /\ b.literals \in Seq(literal_t) /\ list = Append(b.literals, l)
            /\ r \in Seq(literal_t) /\ Kept(list, r)
        BY <2>1, <3>2
      <4>2. Finished(code) /\ Refillable(literal_t, code) /\ l \in literal_t /\ n = Len(list)
        BY <2>4, <3>1, <3>2
      <4>3. QED
        BY <4>1, <4>2, FillIn
    <3>3. QED
      BY <2>3, <3>2
  <2>6. BlobGrows(b, filled)
    BY <1>2, <1>4, <1>6, <2>3, <2>5 DEF BlobGrows
  <2>7. Continues(st, after) /\ after \in State
    BY <2>6, SameOutput
  <2> HIDE DEF after
  <2>8. "CODE_PUSH_FN" \in Derp_code_type /\ "" \in Chars /\ n \in Int
    BY <2>2 DEF Derp_code_type, Chars
  <2>9. Plain(instr("CODE_PUSH_FN", "", n))
    BY <2>2, <2>8 DEF Plain, instr, WellTyped, Bytecode
  <2>10. Continues(after, CODE(after, "CODE_PUSH_FN", "", n))
    BY <2>7, <2>8, <2>9, CODEContinues
  <2>11. QED
    BY <1>3, <1>6, <2>7, <2>10, ContinuesTrans
<1>7. QED
  BY <1>5, <1>6

-----------------------------------------------------------------------------
(* Every node.                                                             *)

\* What the nodes of each type are made of.
LEMMA NodeParts ==
  ASSUME NEW T, NEW e \in NExpression(T)
  PROVE  /\ e.t = "NASSIGNMENT" => e.name \in Name /\ e.val \in T
         /\ e.t = "NINTEGER" => e.integer \in Int
         /\ e.t = "NDOUBLE" => e.tdouble \in STRING
         /\ e.t = "NSTRING" => e.string \in Text
         /\ e.t = "NARRAY" => e.array \in Seq(T)
         /\ e.t = "NCALL" => e.name \in Identifier /\ e.args \in Seq(T)
         /\ e.t = "NBINARYOP" => e.left \in T /\ e.op \in DOMAIN OpCode /\ e.right \in T
         /\ e.t = "NLOOKUP" => e.name \in Name
         /\ e.t \in {"NIFSTRUCTURE", "NWHILESTRUCTURE"} => e.expr \in T /\ e.block \in Seq(T)
         /\ e.t = "NFUNCDEF" =>
              e.name \in Identifier /\ e.params \in Seq(Name) /\ e.block \in Seq(T)
         /\ e.t = "NANONFUNCDEF" => e.params \in Seq(Name) /\ e.block \in Seq(T)
         /\ e.t \in {"NASSIGNMENT", "NINTEGER", "NDOUBLE", "NSTRING", "NBOOL", "NARRAY",
                     "NCALL", "NBINARYOP", "NLOOKUP", "NIFSTRUCTURE", "NWHILESTRUCTURE",
                     "NFUNCDEF", "NANONFUNCDEF"}
BY DEF NExpression

LEMMA StringsAre ==
  /\ "" \in Chars
  /\ \A x \in Name : x \in Chars
  /\ \A x \in STRING : x \in Chars
  /\ \A x \in Text : x \in Chars /\ Len(x) \in Nat
  /\ \A x \in Identifier : x \in Chars /\ x # ""
BY NameAssumption DEF Chars, Text, Identifier

\* Emitting an instruction that is no jump.
LEMMA Emits ==
  ASSUME NEW st \in State, NEW mid, Continues(st, mid),
         NEW code \in Derp_code_type,
         code \notin {"CODE_RET", "CODE_JUMP", "CODE_JUMP_IF_FALSE"},
         NEW arg1 \in Chars, NEW arg2 \in Int, WellTyped(instr(code, arg1, arg2))
  PROVE  Continues(st, CODE(mid, code, arg1, arg2))
<1>1. mid \in State
  BY DEF Continues
<1>2. Plain(instr(code, arg1, arg2))
  BY InstrIs DEF Plain
<1>3. Continues(mid, CODE(mid, code, arg1, arg2))
  BY <1>1, <1>2, CODEContinues
<1>4. QED
  BY <1>3, ContinuesTrans

LEMMA OperatorsAre ==
  ASSUME NEW op \in DOMAIN OpCode
  PROVE  /\ OpCode[op] \in Derp_code_type
         /\ OpCode[op] \notin {"CODE_RET", "CODE_JUMP", "CODE_JUMP_IF_FALSE"}
         /\ WellTyped(instr(OpCode[op], "", 0))
<1> DEFINE code == OpCode[op]
<1>1. code \in {"CODE_ADD", "CODE_SUB", "CODE_MUL", "CODE_DIV", "CODE_CMP_EQ", "CODE_CMP_NEQ",
                "CODE_CMP_LT", "CODE_CMP_LT_EQ", "CODE_CMP_GT", "CODE_CMP_GT_EQ"}
  BY DEF OpCode
<1> HIDE DEF code
<1>2. code \in Derp_code_type /\ code \notin {"CODE_RET", "CODE_JUMP", "CODE_JUMP_IF_FALSE"}
  BY <1>1 DEF Derp_code_type
<1>3. WellTyped(instr(code, "", 0))
  BY <1>1 DEF WellTyped, instr
<1>4. QED
  BY <1>2, <1>3 DEF code

LEMMA NodeContinues ==
  ASSUME NEW compile, NEW T, Compiles(compile, T), NEW e \in NExpression(T), NEW st \in State
  PROVE  Continues(st, CompileNode(compile, e, st))
<1> DEFINE after == CompileNode(compile, e, st)
<1> SUFFICES Continues(st, after)
  OBVIOUS
<1>1. Continues(st, st)
  BY ContinuesRefl
<1>2. CASE st.blob.crashed
  <2>1. after = st
    BY <1>2 DEF CompileNode
  <2>2. QED
    BY <1>1, <2>1
<1>3. CASE ~st.blob.crashed /\ e.t = "NASSIGNMENT"
  <2>1. after = CODE(compile[e.val][st], "CODE_ASSIGN", e.name, 0)
    BY <1>3 DEF CompileNode
  <2>2. e.name \in Chars /\ e.name \in Name /\ Continues(st, compile[e.val][st])
    BY <1>3, NodeParts, StringsAre DEF Compiles
  <2>3. "CODE_ASSIGN" \in Derp_code_type /\ WellTyped(instr("CODE_ASSIGN", e.name, 0))
    BY <2>2 DEF Derp_code_type, WellTyped, instr
  <2>4. Continues(st, CODE(compile[e.val][st], "CODE_ASSIGN", e.name, 0))
    BY <2>2, <2>3, Emits
  <2>5. QED
    BY <2>1, <2>4
<1>4. CASE ~st.blob.crashed /\ e.t = "NINTEGER"
  <2>1. after = CODE(st, "CODE_PUSH_INT", "", e.integer)
    BY <1>4 DEF CompileNode
  <2>2. e.integer \in Int
    BY <1>4, NodeParts
  <2>3. "CODE_PUSH_INT" \in Derp_code_type /\ WellTyped(instr("CODE_PUSH_INT", "", e.integer))
    BY <2>2 DEF Derp_code_type, WellTyped, instr
  <2>4. Continues(st, CODE(st, "CODE_PUSH_INT", "", e.integer))
    BY <1>1, <2>2, <2>3, Emits, StringsAre
  <2>5. QED
    BY <2>1, <2>4
<1>5. CASE ~st.blob.crashed /\ e.t = "NDOUBLE"
  <2>1. after = CODE(st, "CODE_PUSH_FLOAT", e.tdouble, 0)
    BY <1>5 DEF CompileNode
  <2>2. e.tdouble \in Chars
    BY <1>5, NodeParts, StringsAre
  <2>3. "CODE_PUSH_FLOAT" \in Derp_code_type /\ WellTyped(instr("CODE_PUSH_FLOAT", e.tdouble, 0))
    BY <2>2 DEF Derp_code_type, WellTyped, instr
  <2>4. Continues(st, CODE(st, "CODE_PUSH_FLOAT", e.tdouble, 0))
    BY <1>1, <2>2, <2>3, Emits
  <2>5. QED
    BY <2>1, <2>4
<1>6. CASE ~st.blob.crashed /\ e.t = "NSTRING"
  <2>1. after = CODE(st, "CODE_PUSH_STR", e.string, 0)
    BY <1>6 DEF CompileNode
  <2>2. e.string \in Chars /\ Len(e.string) \in Nat
    BY <1>6, NodeParts, StringsAre
  <2>3. "CODE_PUSH_STR" \in Derp_code_type /\ WellTyped(instr("CODE_PUSH_STR", e.string, 0))
    BY <2>2 DEF Derp_code_type, WellTyped, instr
  <2>4. Continues(st, CODE(st, "CODE_PUSH_STR", e.string, 0))
    BY <1>1, <2>2, <2>3, Emits
  <2>5. QED
    BY <2>1, <2>4
<1>7. CASE ~st.blob.crashed /\ e.t = "NBOOL"
  <2> DEFINE b == IF e.tbool THEN 1 ELSE 0
  <2>1. after = CODE(st, "CODE_PUSH_BOOL", "", b)
    BY <1>7 DEF CompileNode
  <2>2. b \in Nat /\ b \in Int
    OBVIOUS
  <2> HIDE DEF b
  <2>3. "CODE_PUSH_BOOL" \in Derp_code_type /\ WellTyped(instr("CODE_PUSH_BOOL", "", b))
    BY <2>2 DEF Derp_code_type, WellTyped, instr
  <2>4. Continues(st, CODE(st, "CODE_PUSH_BOOL", "", b))
    BY <1>1, <2>2, <2>3, Emits, StringsAre
  <2>5. QED
    BY <2>1, <2>4
<1>8. CASE ~st.blob.crashed /\ e.t = "NARRAY"
  <2> DEFINE n == Len(e.array)
             mid == ast_list_compile(compile, e.array, st)
  <2>1. after = CODE(mid, "CODE_PUSH_ARRAY", "", n)
    BY <1>8 DEF CompileNode
  <2>2. n \in Nat /\ n \in Int /\ Continues(st, mid)
    BY <1>8, NodeParts, ListContinues
  <2> HIDE DEF n, mid
  <2>3. "CODE_PUSH_ARRAY" \in Derp_code_type /\ WellTyped(instr("CODE_PUSH_ARRAY", "", n))
    BY <2>2 DEF Derp_code_type, WellTyped, instr
  <2>4. Continues(st, CODE(mid, "CODE_PUSH_ARRAY", "", n))
    BY <2>2, <2>3, Emits, StringsAre
  <2>5. QED
    BY <2>1, <2>4
<1>9. CASE ~st.blob.crashed /\ e.t = "NCALL"
  <2> DEFINE n == Len(e.args)
             mid == ast_list_compile(compile, e.args, st)
  <2>1. after = CODE(mid, "CODE_CALL", e.name, n)
    BY <1>9 DEF CompileNode
  <2>2. n \in Nat /\ n \in Int /\ Continues(st, mid)
    BY <1>9, NodeParts, ListContinues
  <2>3. e.name \in Chars /\ e.name # ""
    BY <1>9, NodeParts, StringsAre
  <2> HIDE DEF n, mid
  <2>4. "CODE_CALL" \in Derp_code_type /\ WellTyped(instr("CODE_CALL", e.name, n))
    BY <2>2, <2>3 DEF Derp_code_type, WellTyped, instr
  <2>5. Continues(st, CODE(mid, "CODE_CALL", e.name, n))
    BY <2>2, <2>3, <2>4, Emits
  <2>6. QED
    BY <2>1, <2>5
<1>10. CASE ~st.blob.crashed /\ e.t = "NBINARYOP"
  <2> DEFINE left == compile[e.left][st]
             mid == compile[e.right][left]
  <2>1. after = CODE(mid, OpCode[e.op], "", 0)
    BY <1>10 DEF CompileNode
  <2>2. e.left \in T /\ e.right \in T /\ e.op \in DOMAIN OpCode
    BY <1>10, NodeParts
  <2>3. Continues(st, left)
    BY <2>2 DEF Compiles
  <2> HIDE DEF left
  <2>4. Continues(left, mid)
    BY <2>2, <2>3 DEF Compiles, Continues
  <2> HIDE DEF mid
  <2>5. Continues(st, mid)
    BY <2>3, <2>4, ContinuesTrans
  <2> DEFINE code == OpCode[e.op]
  <2>6. Continues(st, CODE(mid, code, "", 0))
    <3>1. /\ code \in Derp_code_type
          /\ code \notin {"CODE_RET", "CODE_JUMP", "CODE_JUMP_IF_FALSE"}
          /\ WellTyped(instr(code, "", 0))
      BY <2>2, OperatorsAre
    <3> HIDE DEF code
    <3>2. "" \in Chars
      BY StringsAre
    <3>3. 0 \in Int
      OBVIOUS
    <3>4. QED
      BY <2>5, <3>1, <3>2, <3>3, Emits
  <2>7. QED
    BY <2>1, <2>6
<1>11. CASE ~st.blob.crashed /\ e.t = "NLOOKUP"
  <2>1. after = CODE(st, "CODE_PUSH_LOOKUP", e.name, 0)
    BY <1>11 DEF CompileNode
  <2>2. e.name \in Chars /\ e.name \in Name
    BY <1>11, NodeParts, StringsAre
  <2>3. "CODE_PUSH_LOOKUP" \in Derp_code_type /\ WellTyped(instr("CODE_PUSH_LOOKUP", e.name, 0))
    BY <2>2 DEF Derp_code_type, WellTyped, instr
  <2>4. Continues(st, CODE(st, "CODE_PUSH_LOOKUP", e.name, 0))
    BY <1>1, <2>2, <2>3, Emits
  <2>5. QED
    BY <2>1, <2>4
<1>12. CASE ~st.blob.crashed /\ e.t = "NIFSTRUCTURE"
  <2>1. after = CompileIf(compile, e.expr, e.block, st)
    BY <1>12 DEF CompileNode
  <2>2. e.expr \in T /\ e.block \in Seq(T)
    BY <1>12, NodeParts
  <2>3. QED
    BY <2>1, <2>2, IfContinues
<1>13. CASE ~st.blob.crashed /\ e.t = "NWHILESTRUCTURE"
  <2>1. after = CompileWhile(compile, e.expr, e.block, st)
    BY <1>13 DEF CompileNode
  <2>2. e.expr \in T /\ e.block \in Seq(T)
    BY <1>13, NodeParts
  <2>3. QED
    BY <2>1, <2>2, WhileContinues
<1>14. CASE ~st.blob.crashed /\ e.t = "NFUNCDEF"
  <2>1. after = CompileFuncDef(compile, e, st)
    BY <1>14 DEF CompileNode
  <2>2. e.name \in Chars /\ e.params \in Seq(Name) /\ e.block \in Seq(T)
    BY <1>14, NodeParts, StringsAre
  <2>3. QED
    BY <1>14, <2>1, <2>2, FuncDefContinues
<1>15. CASE ~st.blob.crashed /\ e.t = "NANONFUNCDEF"
  <2>1. after = CompileAnonFuncDef(compile, e, st)
    BY <1>15 DEF CompileNode
  <2>2. e.params \in Seq(Name) /\ e.block \in Seq(T)
    BY <1>15, NodeParts
  <2>3. QED
    BY <1>15, <2>1, <2>2, AnonFuncDefContinues
<1>16. QED
  BY <1>2, <1>3, <1>4, <1>5, <1>6, <1>7, <1>8, <1>9, <1>10, <1>11, <1>12, <1>13, <1>14, <1>15,
     NodeParts

\* By induction on the levels of the trees.
LEMMA EveryTreeCompiles ==
  \A h \in Nat : Compiles(ast_expr_compile[h], Trees[h])
<1> DEFINE Bad == {h \in Nat : ~Compiles(ast_expr_compile[h], Trees[h])}
<1> SUFFICES ASSUME Bad # {}
             PROVE  FALSE
  OBVIOUS
<1>1. PICK h \in Bad : \A k \in Bad : h <= k
  <2>1. Bad \in SUBSET Nat
    OBVIOUS
  <2>2. QED
    BY <2>1, TreesBy!Least
<1>2. h # 0
  <2>1. Compiles(ast_expr_compile[0], Trees[0])
    BY TreesAre DEF Compiles
  <2>2. QED
    BY <1>1, <2>1
<1>3. h - 1 \in Nat /\ (h - 1) + 1 = h /\ h \in Nat
  BY <1>2
<1> DEFINE g == h - 1
<1>4. Compiles(ast_expr_compile[g], Trees[g])
  BY <1>1, <1>3
<1>5. g \in Nat /\ g + 1 = h
  BY <1>3
<1> HIDE DEF g
<1>6. ast_expr_compile[h] =
        [e \in Trees[h] |-> [st \in State |-> CompileNode(ast_expr_compile[g], e, st)]]
  BY <1>5, CompilerIs
<1>7. Trees[h] = NExpression(Trees[g])
  BY <1>5, TreesAre
<1>8. \A e \in Trees[h], st \in State : ast_expr_compile[h][e][st] =
                                        CompileNode(ast_expr_compile[g], e, st)
  BY <1>6
<1>9. Compiles(ast_expr_compile[h], Trees[h])
  BY <1>4, <1>7, <1>8, NodeContinues DEF Compiles
<1>10. QED
  BY <1>1, <1>9

-----------------------------------------------------------------------------
(* A whole program.                                                        *)

\* The global code is the first function, and has no CODE_RET.
Whole(blob) ==
  /\ blob \in file_blob_t
  /\ blob.fns # <<>>
  /\ blob.fns[1].name = ""
  /\ Partial(blob.fns[1].code)
  /\ \A f \in DOMAIN blob.fns \ {1} : Finished(blob.fns[f].code)
  /\ \A l \in DOMAIN blob.literals : Finished(blob.literals[l].code)

LEMMA FirstOf ==
  ASSUME NEW S, NEW s \in Seq(S), s # <<>>
  PROVE  1 \in DOMAIN s /\ s[1] \in S
<1>1. Len(s) # 0
  OBVIOUS
<1>2. 1 \in 1 .. Len(s)
  BY <1>1
<1>3. QED
  BY <1>2

LEMMA GlobalIs ==
  ASSUME NEW blob, Whole(blob)
  PROVE  /\ blob.fns \in Seq(fn_blob_t)
         /\ 1 \in DOMAIN blob.fns
         /\ blob.fns[1].code \in Seq(Bytecode)
<1>1. blob.fns \in Seq(fn_blob_t) /\ blob.fns # <<>>
  BY BlobParts DEF Whole
<1>2. 1 \in DOMAIN blob.fns /\ blob.fns[1] \in fn_blob_t
  BY <1>1, FirstOf
<1>3. QED
  BY <1>1, <1>2 DEF fn_blob_t

LEMMA FirstBlob ==
  LET blob == file_blob_add_fn(EmptyBlob, "", 0)
  IN  /\ blob \in file_blob_t
      /\ ~blob.crashed
      /\ Len(blob.fns) = 1 /\ blob.fns[1].name = ""
      /\ Len(blob.literals) = 0
<1> DEFINE f == [name |-> "", argc |-> 0, code |-> <<>>]
           fns == Append(<<>>, f)
           b == file_blob_add_fn(EmptyBlob, "", 0)
<1>1. <<>> \in Seq(Bytecode) /\ 0 \in Nat
  OBVIOUS
<1>2. "" \in Chars
  BY StringsAre
<1>3. f \in fn_blob_t /\ f.name = ""
  BY <1>1, <1>2 DEF fn_blob_t
<1>4. EmptyBlob.fns = <<>> /\ EmptyBlob.literals = <<>> /\ ~EmptyBlob.crashed
  BY DEF EmptyBlob
<1>5. ~(Len(EmptyBlob.fns) >= FnLimit)
  BY <1>4, BlobAssumption
<1>6. b = [EmptyBlob EXCEPT !.fns = fns]
  BY <1>4, <1>5 DEF file_blob_add_fn
<1> HIDE DEF f
<1> DEFINE none == <<>>
<1>7. none \in Seq(fn_blob_t) /\ Len(none) = 0
  OBVIOUS
<1>8. fns \in Seq(fn_blob_t) /\ Len(fns) = 1 /\ fns[1] = f
  <2> HIDE DEF none
  <2>1. fns = Append(none, f)
    BY DEF none
  <2> HIDE DEF fns
  <2>2. none \in Seq(fn_blob_t) /\ f \in fn_blob_t
    BY <1>3, <1>7
  <2>3. /\ Append(none, f) \in Seq(fn_blob_t)
        /\ Len(Append(none, f)) = Len(none) + 1
        /\ Append(none, f)[Len(none) + 1] = f
    BY <2>2, KeptAppend
  <2>4. QED
    BY <1>7, <2>1, <2>3
<1> HIDE DEF fns, b
<1>9. b = [fns |-> fns, literals |-> <<>>, crashed |-> FALSE]
  BY <1>6 DEF EmptyBlob
<1>10. <<>> \in Seq(literal_t) /\ FALSE \in BOOLEAN
  OBVIOUS
<1>11. b \in file_blob_t /\ ~b.crashed /\ b.fns = fns /\ b.literals = <<>>
  BY <1>8, <1>9, <1>10 DEF file_blob_t
<1>12. QED
  BY <1>3, <1>7, <1>8, <1>11 DEF b

LEMMA CompiledIsWhole ==
  ASSUME NEW root \in Program, ~ast_compile(root).crashed
  PROVE  Whole(ast_compile(root))
<1> DEFINE blob == file_blob_add_fn(EmptyBlob, "", 0)
           compile == ast_expr_compile[Deepest]
           start == [out |-> <<>>, blob |-> blob]
           global == ast_list_compile(compile, root, start)
           after == FilledFn(global.blob, 1, global.out)
<1>1. /\ blob \in file_blob_t /\ ~blob.crashed
      /\ Len(blob.fns) = 1 /\ blob.fns[1].name = "" /\ Len(blob.literals) = 0
  BY FirstBlob
<1>2. ast_compile(root) = after
  BY DEF ast_compile, FilledFn
<1> HIDE DEF blob
<1>3. start \in State /\ start.out = <<>> /\ start.blob = blob
  <2>1. <<>> \in Seq(Bytecode)
    OBVIOUS
  <2>2. QED
    BY <1>1, <2>1 DEF State
<1>4. Compiles(compile, Trees[Deepest]) /\ root \in Seq(Trees[Deepest])
  BY EveryTreeCompiles, TreeAssumption DEF Program, Node
<1> HIDE DEF compile, start
<1>5. Continues(start, global)
  BY <1>3, <1>4, ListContinues
<1>6. Partial(start.out)
  BY <1>3 DEF Partial
<1> HIDE DEF global
<1>7. global.out \in Seq(Bytecode) /\ Partial(global.out) /\ BlobGrows(blob, global.blob)
  BY <1>3, <1>5, <1>6, StateParts DEF Continues
<1> DEFINE r == global.blob
<1> HIDE DEF r
<1>8. /\ r \in file_blob_t /\ r.fns \in Seq(fn_blob_t) /\ r.literals \in Seq(literal_t)
      /\ 1 \in DOMAIN r.fns /\ r.fns[1].name = "" /\ r.fns[1] \in fn_blob_t
  <2>1. r \in file_blob_t /\ Kept(blob.fns, r.fns)
    BY <1>7 DEF BlobGrows, r
  <2>2. r.fns \in Seq(fn_blob_t) /\ r.literals \in Seq(literal_t)
    BY <2>1, BlobParts
  <2>3. Len(blob.fns) = 1
    BY <1>1
  <2>4. 1 <= Len(r.fns) /\ \A k \in 1 .. 1 : r.fns[k] = blob.fns[k]
    BY <2>1, <2>3 DEF Kept
  <2>5. 1 \in DOMAIN r.fns /\ r.fns[1] \in fn_blob_t
    BY <2>2, <2>4
  <2>6. r.fns[1] = blob.fns[1]
    BY <2>4
  <2>7. r.fns[1].name = ""
    BY <1>1, <2>6
  <2>8. QED
    BY <2>1, <2>2, <2>5, <2>7
<1>9. /\ after \in file_blob_t
      /\ after.fns = Refilled(r.fns, 1, global.out)
      /\ after.literals = r.literals
      /\ after.crashed = r.crashed
  BY <1>7, <1>8, FilledFnIs DEF r
<1> HIDE DEF after
<1>10. NewFinished(blob.fns, r.fns) /\ NewFinished(blob.literals, r.literals)
  BY <1>2, <1>7, <1>9 DEF BlobGrows, r
<1>11. \A k \in DOMAIN r.fns \ {1} : Finished(r.fns[k].code)
  <2>1. \A k \in DOMAIN r.fns \ {1} : k \in Len(blob.fns) + 1 .. Len(r.fns)
    <3>1. Len(blob.fns) = 1 /\ r.fns \in Seq(fn_blob_t)
      BY <1>1, <1>8
    <3>2. DOMAIN r.fns = 1 .. Len(r.fns) /\ Len(r.fns) \in Nat
      BY <3>1
    <3>3. QED
      BY <3>1, <3>2
  <2>2. QED
    BY <1>10, <2>1 DEF NewFinished
<1>12. \A l \in DOMAIN r.literals : Finished(r.literals[l].code)
  <2>1. \A l \in DOMAIN r.literals : l \in Len(blob.literals) + 1 .. Len(r.literals)
    <3>1. Len(blob.literals) = 0 /\ r.literals \in Seq(literal_t)
      BY <1>1, <1>8
    <3>2. DOMAIN r.literals = 1 .. Len(r.literals) /\ Len(r.literals) \in Nat
      BY <3>1
    <3>3. QED
      BY <3>1, <3>2
  <2>2. QED
    BY <1>10, <2>1 DEF NewFinished
<1>13. /\ DOMAIN after.fns = DOMAIN r.fns
       /\ after.fns[1].name = "" /\ after.fns[1].code = global.out
       /\ \A k \in DOMAIN r.fns \ {1} : after.fns[k] = r.fns[k]
  BY <1>8, <1>9 DEF Refilled, fn_blob_t
<1>14. 1 \in DOMAIN after.fns
  BY <1>8, <1>13
<1>15. after.fns # <<>>
  BY <1>14
<1>16. Whole(after)
  BY <1>7, <1>9, <1>11, <1>12, <1>13, <1>15 DEF Whole
<1>17. QED
  BY <1>2, <1>16

-----------------------------------------------------------------------------
\* ast_compile: in the code of every program the compiler survives, control
\* leaves a function only by the CODE_RET at its end, and the global code only
\* by running to its end, however the conditionals and loops of the source are
\* nested and whatever functions are defined in them.
THEOREM ControlStays == program \in Program => ControlStaysInside
<1> SUFFICES ASSUME program \in Program, ~ast_compile(program).crashed
             PROVE  StaysInside(ast_compile(program))
  BY DEF ControlStaysInside
<1> DEFINE blob == ast_compile(program)
<1>1. Whole(blob)
  BY CompiledIsWhole
<1> HIDE DEF blob
<1>2. blob.fns[1].code \in Seq(Bytecode)
  BY <1>1, GlobalIs
<1>3. Closed(blob.fns[1].code, FALSE)
  BY <1>1, <1>2, GlobalCode DEF Whole
<1>4. \A f \in DOMAIN blob.fns : Closed(blob.fns[f].code, f # 1)
  <2> SUFFICES ASSUME NEW f \in DOMAIN blob.fns
               PROVE  Closed(blob.fns[f].code, f # 1)
    OBVIOUS
  <2>1. CASE f = 1
    <3>1. (f # 1) = FALSE
      BY <2>1
    <3>2. QED
      BY <1>3, <2>1, <3>1
  <2>2. CASE f # 1
    <3>1. (f # 1) = TRUE
      BY <2>2
    <3>2. Closed(blob.fns[f].code, TRUE)
      BY <1>1, <2>2, FunctionCode DEF Whole
    <3>3. QED
      BY <3>1, <3>2
  <2>3. QED
    BY <2>1, <2>2
<1>5. \A l \in DOMAIN blob.literals : Closed(blob.literals[l].code, TRUE)
  BY <1>1, FunctionCode DEF Whole
<1>6. QED
  BY <1>4, <1>5 DEF StaysInside, blob

\* NWHILESTRUCTURE: in the code of every program the compiler survives, each
\* jump back has on its way the conditional jump that leaves the loop.
THEOREM EveryLoopHasAnExit == program \in Program => LoopsHaveAnExit
<1> SUFFICES ASSUME program \in Program, ~ast_compile(program).crashed
             PROVE  LeavesAllLoops(ast_compile(program))
  BY DEF LoopsHaveAnExit
<1> DEFINE blob == ast_compile(program)
<1>1. Whole(blob)
  BY CompiledIsWhole
<1> HIDE DEF blob
<1>2. blob.fns[1].code \in Seq(Bytecode)
  BY <1>1, GlobalIs
<1>3. LeavesLoops(blob.fns[1].code)
  BY <1>1, <1>2, GlobalCode DEF Whole
<1>4. \A f \in DOMAIN blob.fns : LeavesLoops(blob.fns[f].code)
  BY <1>1, <1>3, FunctionCode DEF Whole
<1>5. \A l \in DOMAIN blob.literals : LeavesLoops(blob.literals[l].code)
  BY <1>1, FunctionCode DEF Whole
<1>6. QED
  BY <1>4, <1>5 DEF LeavesAllLoops, blob

\* ast_compile and derp_vm_run: what the machine relies on when it runs code
\* (VmAssumption of Vm.tla) is true of the code of every program the compiler
\* survives: control stays inside, and the arguments of every instruction are
\* of the kind the machine takes them for.
THEOREM CompiledIsRunnable ==
  ASSUME NEW root \in Program, ~ast_compile(root).crashed
  PROVE  Runnable(ast_compile(root).fns)
<1> DEFINE blob == ast_compile(root)
<1>1. Whole(blob)
  BY CompiledIsWhole
<1> HIDE DEF blob
<1> DEFINE code(f) == blob.fns[f].code
<1>2. blob.fns \in Seq(fn_blob_t)
  BY <1>1, GlobalIs
<1>3. code(1) \in Seq(Bytecode)
  BY <1>1, GlobalIs
<1>4. ASSUME NEW f \in DOMAIN blob.fns
      PROVE  Closed(code(f), f # 1) /\ \A i \in DOMAIN code(f) : WellTyped(code(f)[i])
  <2>1. CASE f = 1
    <3>1. (f # 1) = FALSE
      BY <2>1
    <3>2. Closed(code(1), FALSE) /\ \A i \in DOMAIN code(1) : WellTyped(code(1)[i])
      BY <1>1, <1>3, GlobalCode DEF Whole
    <3>3. QED
      BY <2>1, <3>1, <3>2
  <2>2. CASE f # 1
    <3>1. (f # 1) = TRUE
      BY <2>2
    <3>2. Closed(code(f), TRUE) /\ \A i \in DOMAIN code(f) : WellTyped(code(f)[i])
      BY <1>1, <2>2, FunctionCode DEF Whole
    <3>3. QED
      BY <3>1, <3>2
  <2>3. QED
    BY <2>1, <2>2
<1>5. QED
  BY <1>1, <1>2, <1>4 DEF Whole, Runnable, blob

-----------------------------------------------------------------------------
(* Finding the definitions of a program.                                   *)

LEMMA DefinedIs ==
  \A h \in Nat :
    Defined[h + 1] =
      [e \in Trees[h + 1] |-> [c \in Found |-> Through(Defined[h], Parts(e), Including(e, c))]]
<1>1. Defined = DefinedBy!From(0)
  BY DEF Defined, DefinedBy!From, NoFinder, NextFinder
<1>2. Defined =
        [h \in Nat |-> IF h = 0 THEN NoFinder(0) ELSE NextFinder(0, h, Defined[h - 1])]
  BY <1>1, DefinedBy!FromIs
<1>3. \A h \in Nat : h + 1 \in Nat /\ h + 1 # 0 /\ (h + 1) - 1 = h
  OBVIOUS
<1>4. \A h \in Nat : Defined[h + 1] = NextFinder(0, h + 1, Defined[h])
  BY <1>2, <1>3
<1>5. QED
  BY <1>4 DEF NextFinder

LEMMA ThroughFew ==
  ASSUME NEW f, NEW list, NEW s
  PROVE  /\ list = <<>> => Through(f, list, s) = s
         /\ \A a : list = <<a>> => Through(f, list, s) = f[a][s]
         /\ \A a, b : list = <<a, b>> => Through(f, list, s) = f[b][f[a][s]]
<1>1. PICK after : Passes(f, list, s, after)
  BY ThroughIs
<1>2. /\ after[0] = s
      /\ \A k \in Nat : after[k + 1] = f[list[k + 1]][after[k]]
      /\ Through(f, list, s) = after[Len(list)]
  BY <1>1 DEF Passes
<1>3. 0 \in Nat /\ 1 \in Nat /\ 0 + 1 = 1 /\ 1 + 1 = 2
  OBVIOUS
<1>4. after[1] = f[list[1]][after[0]] /\ after[2] = f[list[2]][after[1]]
  BY <1>2, <1>3
<1>5. list = <<>> => Len(list) = 0
  OBVIOUS
<1>6. ASSUME NEW a, list = <<a>>
      PROVE  Len(list) = 1 /\ list[1] = a
  BY <1>6
<1>7. ASSUME NEW a, NEW b, list = <<a, b>>
      PROVE  Len(list) = 2 /\ list[1] = a /\ list[2] = b
  BY <1>7
<1>8. QED
  BY <1>2, <1>4, <1>5, <1>6, <1>7

\* What a head and a list are passed through, they are passed through one after
\* the other.
Headed(whole, a, list) == whole = <<a>> \o list

LEMMA ThroughHead ==
  ASSUME NEW T, NEW a \in T, NEW list \in Seq(T), NEW whole, Headed(whole, a, list)
  PROVE  \A f, s : Through(f, whole, s) = Through(f, list, f[a][s])
<1> TAKE f, s
<1> DEFINE n == Len(list)
<1>1. /\ Len(whole) = n + 1 /\ n \in Nat
      /\ whole[1] = a
      /\ \A k \in 1 .. n : whole[k + 1] = list[k]
  BY DEF Headed
<1>2. PICK all : Passes(f, whole, s, all)
  BY ThroughIs
<1>3. PICK rest : Passes(f, list, f[a][s], rest)
  BY ThroughIs
<1> DEFINE Off == {k \in 0 .. n : all[k + 1] # rest[k]}
<1>4. Off = {}
  <2> SUFFICES ASSUME Off # {}
               PROVE  FALSE
    OBVIOUS
  <2>1. PICK k \in Off : \A j \in Off : k <= j
    <3>1. Off \in SUBSET Nat
      OBVIOUS
    <3>2. QED
      BY <3>1, TreesBy!Least
  <2>2. CASE k = 0
    <3>1. all[0 + 1] = f[whole[0 + 1]][all[0]] /\ all[0] = s /\ rest[0] = f[a][s]
      BY <1>2, <1>3 DEF Passes
    <3>2. QED
      BY <1>1, <2>1, <2>2, <3>1
  <2>3. CASE k # 0
    <3>1. k \in 1 .. n /\ k \in Nat /\ k - 1 \in Nat /\ (k - 1) + 1 = k /\ k - 1 \in 0 .. n
      BY <2>1, <2>3
    <3>2. all[(k - 1) + 1] = rest[k - 1]
      BY <2>1, <3>1
    <3>3. all[k + 1] = f[whole[k + 1]][all[k]]
      BY <1>2, <3>1 DEF Passes
    <3>4. rest[(k - 1) + 1] = f[list[(k - 1) + 1]][rest[k - 1]]
      BY <1>3, <3>1 DEF Passes
    <3>5. all[k + 1] = rest[k]
      BY <1>1, <3>1, <3>2, <3>3, <3>4
    <3>6. QED
      BY <2>1, <3>5
  <2>4. QED
    BY <2>2, <2>3
<1>5. all[n + 1] = rest[n]
  BY <1>1, <1>4
<1>6. QED
  BY <1>1, <1>2, <1>3, <1>5 DEF Passes

\* Two passes through the same list: what relates their states before relates
\* them after it.  P is the set of related pairs.
LEMMA ThroughBoth ==
  ASSUME NEW f, NEW g, NEW T, NEW list \in Seq(T), NEW P, NEW s, NEW c, <<s, c>> \in P,
         \A e \in T : \A x, y : <<x, y>> \in P => <<f[e][x], g[e][y]>> \in P
  PROVE  <<Through(f, list, s), Through(g, list, c)>> \in P
<1>1. PICK x : Passes(f, list, s, x)
  BY ThroughIs
<1>2. PICK y : Passes(g, list, c, y)
  BY ThroughIs
<1> DEFINE Off == {k \in 0 .. Len(list) : <<x[k], y[k]>> \notin P}
<1>3. Off = {}
  <2> SUFFICES ASSUME Off # {}
               PROVE  FALSE
    OBVIOUS
  <2>1. PICK k \in Off : \A j \in Off : k <= j
    <3>1. Off \in SUBSET Nat
      OBVIOUS
    <3>2. QED
      BY <3>1, TreesBy!Least
  <2>2. k # 0
    BY <1>1, <1>2, <2>1 DEF Passes
  <2>3. k - 1 \in Nat /\ (k - 1) + 1 = k /\ k \in 1 .. Len(list)
    BY <2>2
  <2>4. <<x[k - 1], y[k - 1]>> \in P
    BY <2>1, <2>3
  <2>5. list[k] \in T
    BY <2>3
  <2>6. x[k] = f[list[k]][x[k - 1]] /\ y[k] = g[list[k]][y[k - 1]]
    <3>1. /\ x[(k - 1) + 1] = f[list[(k - 1) + 1]][x[k - 1]]
          /\ y[(k - 1) + 1] = g[list[(k - 1) + 1]][y[k - 1]]
      BY <1>1, <1>2, <2>3 DEF Passes
    <3>2. QED
      BY <2>3, <3>1
  <2>7. <<f[list[k]][x[k - 1]], g[list[k]][y[k - 1]]>> \in P
    BY <2>4, <2>5
  <2>8. QED
    BY <2>1, <2>6, <2>7
<1>4. Len(list) \in 0 .. Len(list)
  OBVIOUS
<1>5. QED
  BY <1>1, <1>2, <1>3, <1>4 DEF Passes

\* The nodes of a level are nodes of every deeper one.
LEMMA TreesGrow ==
  \A h \in Nat : Trees[h] \subseteq Trees[h + 1]
<1> DEFINE Bad == {h \in Nat : ~(Trees[h] \subseteq Trees[h + 1])}
<1> SUFFICES ASSUME Bad # {}
             PROVE  FALSE
  OBVIOUS
<1>1. PICK h \in Bad : \A k \in Bad : h <= k
  <2>1. Bad \in SUBSET Nat
    OBVIOUS
  <2> HIDE DEF Bad
  <2>2. QED
    BY <2>1, TreesBy!Least
<1>2. h # 0
  BY <1>1, TreesAre
<1>3. h - 1 \in Nat /\ (h - 1) + 1 = h /\ h \in Nat
  BY <1>1, <1>2
<1>4. Trees[h - 1] \subseteq Trees[h]
  BY <1>1, <1>3
<1>5. Trees[h] = NExpression(Trees[h - 1]) /\ Trees[h + 1] = NExpression(Trees[h])
  BY <1>3, TreesAre
<1>6. \A T, U : T \subseteq U => NExpression(T) \subseteq NExpression(U)
  <2> SUFFICES ASSUME NEW T, NEW U, T \subseteq U
               PROVE  NExpression(T) \subseteq NExpression(U)
    OBVIOUS
  <2>1. Seq(T) \subseteq Seq(U)
    OBVIOUS
  <2>2. QED
    BY <2>1 DEF NExpression
<1>7. Trees[h] \subseteq Trees[h + 1]
  BY <1>4, <1>5, <1>6
<1>8. QED
  BY <1>1, <1>7

LEMMA NodesAre ==
  /\ \A h \in 0 .. Deepest : Trees[h] \subseteq Node
  /\ \E T : Node \subseteq NExpression(T) /\ T \subseteq Node
<1> DEFINE Bad == {k \in Nat : k <= Deepest /\ ~(Trees[Deepest - k] \subseteq Node)}
<1>1. Deepest \in Nat
  BY TreeAssumption
<1>2. Bad = {}
  <2> SUFFICES ASSUME Bad # {}
               PROVE  FALSE
    OBVIOUS
  <2>1. PICK k \in Bad : \A j \in Bad : k <= j
    <3>1. Bad \in SUBSET Nat
      OBVIOUS
    <3> HIDE DEF Bad
    <3>2. QED
      BY <3>1, TreesBy!Least
  <2>2. k # 0
    BY <1>1, <2>1 DEF Node
  <2> DEFINE h == Deepest - k
  <2>3. h \in Nat /\ k - 1 \in Nat /\ k - 1 <= Deepest /\ Deepest - (k - 1) = h + 1
    BY <1>1, <2>1, <2>2
  <2>4. Trees[h + 1] \subseteq Node
    <3>1. k - 1 \notin Bad
      BY <1>1, <2>1, <2>3
    <3>2. QED
      BY <2>3, <3>1
  <2>5. Trees[h] \subseteq Trees[h + 1]
    BY <2>3, TreesGrow
  <2>6. QED
    BY <2>1, <2>4, <2>5
<1>3. ASSUME NEW h \in 0 .. Deepest
      PROVE  Trees[h] \subseteq Node
  <2>1. Deepest - h \in Nat /\ Deepest - h <= Deepest /\ Deepest - (Deepest - h) = h
    BY <1>1
  <2>2. QED
    BY <1>2, <2>1
<1>4. \E T : Node \subseteq NExpression(T) /\ T \subseteq Node
  <2>1. CASE Deepest = 0
    BY <2>1, TreesAre DEF Node
  <2>2. CASE Deepest # 0
    <3>1. Deepest - 1 \in Nat /\ Deepest - 1 \in 0 .. Deepest /\ (Deepest - 1) + 1 = Deepest
      BY <1>1, <2>2
    <3>2. Node = NExpression(Trees[Deepest - 1]) /\ Trees[Deepest - 1] \subseteq Node
      BY <1>3, <3>1, TreesAre DEF Node
    <3>3. QED
      BY <3>2
  <2>3. QED
    BY <2>1, <2>2
<1>5. QED
  BY <1>3, <1>4

-----------------------------------------------------------------------------
\* What was found stays, and is only added to.
Grown(c, d) == d \in Found /\ Kept(c.fns, d.fns) /\ c.literals <= d.literals
Finds(found, T) == T \subseteq Node /\ \A e \in T : \A c \in Found : Grown(c, found[e][c])

LEMMA FoundParts ==
  ASSUME NEW c \in Found
  PROVE  c.fns \in Seq(Node) /\ Len(c.fns) \in Nat /\ c.literals \in Nat
BY DEF Found

LEMMA GrownRefl ==
  ASSUME NEW c \in Found
  PROVE  Grown(c, c)
BY FoundParts, KeptRefl DEF Grown

LEMMA GrownTrans ==
  ASSUME NEW a \in Found, NEW b, NEW c, Grown(a, b), Grown(b, c)
  PROVE  Grown(a, c)
<1>1. b \in Found /\ c \in Found
  BY DEF Grown
<1>2. /\ a.fns \in Seq(Node) /\ b.fns \in Seq(Node) /\ c.fns \in Seq(Node)
      /\ a.literals \in Nat /\ b.literals \in Nat /\ c.literals \in Nat
  BY <1>1, FoundParts
<1>3. Kept(a.fns, b.fns) /\ Kept(b.fns, c.fns)
  BY DEF Grown
<1>4. Kept(a.fns, c.fns)
  BY <1>2, <1>3, KeptTrans
<1>5. a.literals <= c.literals
  BY <1>2 DEF Grown
<1>6. QED
  BY <1>1, <1>4, <1>5 DEF Grown

LEMMA IncludingIs ==
  ASSUME NEW e \in Node, NEW c \in Found
  PROVE  /\ Grown(c, Including(e, c))
         /\ e.t = "NFUNCDEF" =>
              Including(e, c).fns = Append(c.fns, e) /\ Including(e, c).literals = c.literals
         /\ e.t = "NANONFUNCDEF" =>
              Including(e, c).fns = c.fns /\ Including(e, c).literals = c.literals + 1
         /\ e.t \notin {"NFUNCDEF", "NANONFUNCDEF"} => Including(e, c) = c
<1> DEFINE fns == IF e.t = "NFUNCDEF" THEN Append(c.fns, e) ELSE c.fns
           n == IF e.t = "NANONFUNCDEF" THEN 1 ELSE 0
<1>1. c.fns \in Seq(Node) /\ c.literals \in Nat
  BY FoundParts
<1>2. fns \in Seq(Node) /\ Kept(c.fns, fns)
  BY <1>1, KeptAppend, KeptRefl
<1>3. Including(e, c) = [fns |-> fns, literals |-> c.literals + n]
  BY DEF Including
<1>4. /\ n \in Nat
      /\ e.t = "NFUNCDEF" => fns = Append(c.fns, e) /\ n = 0
      /\ e.t = "NANONFUNCDEF" => fns = c.fns /\ n = 1
      /\ e.t \notin {"NFUNCDEF", "NANONFUNCDEF"} => fns = c.fns /\ n = 0
  OBVIOUS
<1> HIDE DEF fns, n
<1>5. Grown(c, Including(e, c))
  BY <1>1, <1>2, <1>3, <1>4 DEF Grown, Found
<1>6. /\ Including(e, c).fns = fns
      /\ Including(e, c).literals = c.literals + n
  BY <1>3
<1>7. fns = c.fns /\ n = 0 => Including(e, c) = c
  <2> SUFFICES ASSUME fns = c.fns, n = 0
               PROVE  Including(e, c) = c
    OBVIOUS
  <2>1. Including(e, c) = [fns |-> c.fns, literals |-> c.literals]
    BY <1>1, <1>3
  <2>2. QED
    BY <2>1 DEF Found
<1>8. QED
  BY <1>1, <1>4, <1>5, <1>6, <1>7

LEMMA PartsAre ==
  ASSUME NEW T, NEW e \in NExpression(T)
  PROVE  /\ Parts(e) \in Seq(T)
         /\ e.t \in {"NINTEGER", "NDOUBLE", "NSTRING", "NBOOL", "NLOOKUP"} => Parts(e) = <<>>
         /\ e.t = "NASSIGNMENT" => Parts(e) = <<e.val>>
         /\ e.t = "NARRAY" => Parts(e) = e.array
         /\ e.t = "NCALL" => Parts(e) = e.args
         /\ e.t = "NBINARYOP" => Parts(e) = <<e.left, e.right>>
         /\ e.t \in {"NIFSTRUCTURE", "NWHILESTRUCTURE"} => Parts(e) = <<e.expr>> \o e.block
         /\ e.t \in {"NFUNCDEF", "NANONFUNCDEF"} => Parts(e) = e.block
<1>1. /\ e.t \in {"NINTEGER", "NDOUBLE", "NSTRING", "NBOOL", "NLOOKUP"} => Parts(e) = <<>>
      /\ e.t = "NASSIGNMENT" => Parts(e) = <<e.val>>
      /\ e.t = "NARRAY" => Parts(e) = e.array
      /\ e.t = "NCALL" => Parts(e) = e.args
      /\ e.t = "NBINARYOP" => Parts(e) = <<e.left, e.right>>
      /\ e.t \in {"NIFSTRUCTURE", "NWHILESTRUCTURE"} => Parts(e) = <<e.expr>> \o e.block
      /\ e.t \in {"NFUNCDEF", "NANONFUNCDEF"} => Parts(e) = e.block
  BY DEF Parts
<1>2. Parts(e) \in Seq(T)
  <2>1. CASE e.t \in {"NINTEGER", "NDOUBLE", "NSTRING", "NBOOL", "NLOOKUP"}
    <3>1. Parts(e) = <<>>
      BY <1>1, <2>1
    <3>2. <<>> \in Seq(T)
      OBVIOUS
    <3>3. QED
      BY <3>1, <3>2
  <2>2. CASE e.t = "NASSIGNMENT"
    <3>1. e.val \in T /\ Parts(e) = <<e.val>>
      BY <1>1, <2>2, NodeParts
    <3>2. <<e.val>> \in Seq(T)
      BY <3>1
    <3>3. QED
      BY <3>1, <3>2
  <2>3. CASE e.t = "NBINARYOP"
    <3>1. e.left \in T /\ e.right \in T /\ Parts(e) = <<e.left, e.right>>
      BY <1>1, <2>3, NodeParts
    <3>2. <<e.left, e.right>> \in Seq(T)
      BY <3>1
    <3>3. QED
      BY <3>1, <3>2
  <2>4. CASE e.t \in {"NIFSTRUCTURE", "NWHILESTRUCTURE"}
    <3>1. e.expr \in T /\ e.block \in Seq(T) /\ Parts(e) = <<e.expr>> \o e.block
      BY <1>1, <2>4, NodeParts
    <3>2. <<e.expr>> \o e.block \in Seq(T)
      BY <3>1
    <3>3. QED
      BY <3>1, <3>2
  <2>5. CASE e.t \in {"NARRAY", "NCALL", "NFUNCDEF", "NANONFUNCDEF"}
    BY <1>1, <2>5, NodeParts
  <2>6. QED
    BY <2>1, <2>2, <2>3, <2>4, <2>5, NodeParts
<1>3. QED
  BY <1>1, <1>2

LEMMA ListGrows ==
  ASSUME NEW found, NEW T, Finds(found, T), NEW list \in Seq(T), NEW c \in Found
  PROVE  Grown(c, Through(found, list, c))
<1> DEFINE P == {d \in Found : Grown(c, d)}
<1>1. c \in P
  BY GrownRefl
<1>2. \A e \in T, d \in P : found[e][d] \in P
  <2> SUFFICES ASSUME NEW e \in T, NEW d \in P
               PROVE  found[e][d] \in P
    OBVIOUS
  <2>1. Grown(d, found[e][d])
    BY DEF Finds
  <2>2. Grown(c, found[e][d])
    BY <2>1, GrownTrans
  <2>3. QED
    BY <2>2 DEF Grown
<1> HIDE DEF P
<1>3. Through(found, list, c) \in P
  BY <1>1, <1>2, ThroughKeeps
<1>4. QED
  BY <1>3 DEF P

LEMMA NodeGrows ==
  ASSUME NEW found, NEW T, Finds(found, T), NEW e \in NExpression(T), e \in Node,
         NEW c \in Found
  PROVE  Grown(c, Through(found, Parts(e), Including(e, c)))
<1>1. Grown(c, Including(e, c))
  BY IncludingIs
<1>2. Including(e, c) \in Found /\ Parts(e) \in Seq(T)
  BY <1>1, PartsAre DEF Grown
<1>3. Grown(Including(e, c), Through(found, Parts(e), Including(e, c)))
  BY <1>2, ListGrows
<1>4. QED
  BY <1>1, <1>3, GrownTrans

-----------------------------------------------------------------------------
(* What was found so far says how full the blob is, or why the compiler    *)
(* died; and of which body the code of a function is.                      *)

Tracks(b, c) ==
  IF b.crashed
  THEN Len(c.fns) >= FnLimit \/ c.literals > LiteralLimit
  ELSE /\ Len(b.fns) = Len(c.fns) + 1 /\ Len(c.fns) < FnLimit
       /\ Len(b.literals) = c.literals /\ c.literals <= LiteralLimit

BodyOf(params, block, code) ==
  \E h \in Nat, st \in State :
    /\ block \in Seq(Trees[h])
    /\ st.out = AssignParams(params)
    /\ ~Through(ast_expr_compile[h], block, st).blob.crashed
    /\ code = Append(Through(ast_expr_compile[h], block, st).out, Return)

MadeFrom(f, e) == e.t = "NFUNCDEF" /\ f.name = e.name /\ BodyOf(e.params, e.block, f.code)

\* The functions added are made from the definitions found since c.
Matches(c, b, d) ==
  ~b.crashed => \A k \in Len(c.fns) + 1 .. Len(d.fns) : MadeFrom(b.fns[k + 1], d.fns[k])

\* From the blob a, with c found, to b and d.
Proceeds(a, c, b, d) == BlobGrows(a, b) /\ Grown(c, d) /\ Tracks(b, d) /\ Matches(c, b, d)

Tracking(compile, found, T) ==
  \A e \in T : \A st \in State, c \in Found :
    Tracks(st.blob, c) => Proceeds(st.blob, c, compile[e][st].blob, found[e][c])

LEMMA ProceedsRefl ==
  ASSUME NEW b \in file_blob_t, NEW c \in Found, Tracks(b, c)
  PROVE  Proceeds(b, c, b, c)
<1>1. Matches(c, b, c)
  BY FoundParts DEF Matches
<1>2. QED
  BY <1>1, BlobGrowsRefl, GrownRefl DEF Proceeds

LEMMA ProceedsTrans ==
  ASSUME NEW a \in file_blob_t, NEW c \in Found, NEW b, NEW d, NEW b2, NEW d2,
         Proceeds(a, c, b, d), Proceeds(b, d, b2, d2)
  PROVE  Proceeds(a, c, b2, d2)
<1>1. /\ BlobGrows(a, b) /\ BlobGrows(b, b2) /\ Grown(c, d) /\ Grown(d, d2)
      /\ Tracks(b, d) /\ Tracks(b2, d2) /\ Matches(c, b, d) /\ Matches(d, b2, d2)
  BY DEF Proceeds
<1>2. BlobGrows(a, b2)
  BY <1>1, BlobGrowsTrans
<1>3. Grown(c, d2)
  BY <1>1, GrownTrans
<1>4. ASSUME ~b2.crashed, NEW k \in Len(c.fns) + 1 .. Len(d2.fns)
      PROVE  MadeFrom(b2.fns[k + 1], d2.fns[k])
  <2>1. ~b.crashed /\ Kept(b.fns, b2.fns) /\ Kept(d.fns, d2.fns) /\ d \in Found /\ d2 \in Found
    BY <1>1, <1>4 DEF BlobGrows, Grown
  <2>2. Len(b.fns) = Len(d.fns) + 1
    BY <1>1, <2>1 DEF Tracks
  <2>3. Len(c.fns) \in Nat /\ Len(d.fns) \in Nat /\ Len(d2.fns) \in Nat
    BY <2>1, FoundParts
  <2>4. CASE k <= Len(d.fns)
    <3>1. k \in Len(c.fns) + 1 .. Len(d.fns) /\ k \in 1 .. Len(d.fns)
      BY <2>3, <2>4
    <3>2. MadeFrom(b.fns[k + 1], d.fns[k])
      BY <1>1, <2>1, <3>1 DEF Matches
    <3>3. k + 1 \in 1 .. Len(b.fns)
      BY <2>2, <2>3, <3>1
    <3>4. b2.fns[k + 1] = b.fns[k + 1] /\ d2.fns[k] = d.fns[k]
      BY <2>1, <3>1, <3>3 DEF Kept
    <3>5. QED
      BY <3>2, <3>4
  <2>5. CASE k > Len(d.fns)
    <3>1. k \in Len(d.fns) + 1 .. Len(d2.fns)
      BY <2>3, <2>5
    <3>2. QED
      BY <1>1, <1>4, <3>1 DEF Matches
  <2>6. QED
    BY <2>3, <2>4, <2>5
<1>5. Matches(c, b2, d2)
  BY <1>4 DEF Matches
<1>6. QED
  BY <1>1, <1>2, <1>3, <1>5 DEF Proceeds

\* The compiler died, and finding goes on.
LEMMA CrashedProceeds ==
  ASSUME NEW a, NEW c, NEW b, b.crashed, NEW d \in Found, Tracks(b, d), BlobGrows(a, b),
         NEW total, Grown(c, total), Grown(d, total)
  PROVE  Proceeds(a, c, b, total)
<1>1. total \in Found /\ Kept(d.fns, total.fns) /\ d.literals <= total.literals
  BY DEF Grown
<1>2. /\ Len(d.fns) \in Nat /\ d.literals \in Nat /\ Len(d.fns) <= Len(total.fns)
      /\ Len(total.fns) \in Nat /\ total.literals \in Nat
  BY <1>1, FoundParts DEF Kept
<1>3. Tracks(b, total)
  BY <1>1, <1>2, BlobAssumption DEF Tracks
<1>4. Matches(c, b, total)
  BY DEF Matches
<1>5. QED
  BY <1>3, <1>4 DEF Proceeds

LEMMA SameBlob ==
  ASSUME NEW st \in State
  PROVE  /\ \A code, arg1, arg2 : CODE(st, code, arg1, arg2).blob = st.blob
         /\ \A n : PatchJump(st, n).blob = st.blob
BY DEF CODE, PatchJump, State

LEMMA ListTracks ==
  ASSUME NEW compile, NEW found, NEW T,
         Compiles(compile, T), Finds(found, T), Tracking(compile, found, T),
         NEW list \in Seq(T), NEW st \in State, NEW c \in Found, Tracks(st.blob, c)
  PROVE  Proceeds(st.blob, c, ast_list_compile(compile, list, st).blob, Through(found, list, c))
<1> DEFINE Related(x, y) == x \in State /\ y \in Found /\ Proceeds(st.blob, c, x.blob, y)
           P == {p \in State \X Found : Related(p[1], p[2])}
<1>1. \A x, y : <<x, y>> \in P <=> Related(x, y)
  OBVIOUS
<1>2. Related(st, c)
  BY StateParts, ProceedsRefl
<1>3. ASSUME NEW e \in T, NEW x, NEW y, Related(x, y)
      PROVE  Related(compile[e][x], found[e][y])
  <2>1. x \in State /\ y \in Found /\ st.blob \in file_blob_t
    BY <1>3, StateParts
  <2>2. compile[e][x] \in State
    BY <2>1 DEF Compiles, Continues
  <2>3. Tracks(x.blob, y)
    BY <1>3 DEF Proceeds
  <2>4. Proceeds(x.blob, y, compile[e][x].blob, found[e][y])
    BY <2>1, <2>3 DEF Tracking
  <2>5. found[e][y] \in Found
    BY <2>4 DEF Proceeds, Grown
  <2>6. Proceeds(st.blob, c, compile[e][x].blob, found[e][y])
    BY <1>3, <2>1, <2>4, ProceedsTrans
  <2>7. QED
    BY <2>2, <2>5, <2>6
<1> HIDE DEF Related, P
<1>4. <<Through(compile, list, st), Through(found, list, c)>> \in P
  BY <1>1, <1>2, <1>3, ThroughBoth
<1>5. Related(Through(compile, list, st), Through(found, list, c))
  BY <1>1, <1>4
<1>6. QED
  BY <1>5 DEF Related, ast_list_compile

\* file_blob_add_fn and file_blob_add_literal.
LEMMA AddFnTracks ==
  ASSUME NEW b \in file_blob_t, ~b.crashed, NEW name, NEW argc,
         NEW c \in Found, Tracks(b, c),
         NEW d \in Found, Len(d.fns) = Len(c.fns) + 1, d.literals = c.literals
  PROVE  Tracks(file_blob_add_fn(b, name, argc), d)
<1> DEFINE f == [name |-> name, argc |-> argc, code |-> <<>>]
           new == file_blob_add_fn(b, name, argc)
           n == Len(b.fns)
           m == Len(b.literals)
<1>1. /\ n = Len(c.fns) + 1 /\ Len(c.fns) < FnLimit /\ m = c.literals /\ c.literals <= LiteralLimit
      /\ Len(c.fns) \in Nat /\ c.literals \in Nat /\ n \in Nat /\ m \in Nat
      /\ FnLimit \in Nat /\ LiteralLimit \in Nat
  BY FoundParts, BlobParts, BlobAssumption DEF Tracks
<1>2. new = IF n >= FnLimit THEN [b EXCEPT !.crashed = TRUE]
            ELSE [b EXCEPT !.fns = Append(b.fns, f)]
  BY DEF file_blob_add_fn
<1> HIDE DEF f, new
<1>3. CASE n >= FnLimit
  <2>1. new.crashed
    BY <1>2, <1>3 DEF file_blob_t
  <2>2. QED
    BY <1>1, <1>3, <2>1 DEF Tracks, new
<1>4. CASE ~(n >= FnLimit)
  <2>1. new.fns = Append(b.fns, f) /\ new.literals = b.literals /\ ~new.crashed
    BY <1>2, <1>4 DEF file_blob_t
  <2>2. Len(Append(b.fns, f)) = n + 1
    BY BlobParts
  <2>3. Len(new.fns) = Len(d.fns) + 1 /\ Len(d.fns) < FnLimit
    BY <1>1, <1>4, <2>1, <2>2
  <2>4. Len(new.literals) = d.literals /\ d.literals <= LiteralLimit
    BY <1>1, <2>1
  <2>5. QED
    BY <2>1, <2>3, <2>4 DEF Tracks, new
<1>5. QED
  BY <1>3, <1>4

LEMMA AddLiteralTracks ==
  ASSUME NEW b \in file_blob_t, ~b.crashed, NEW argc,
         NEW c \in Found, Tracks(b, c),
         NEW d \in Found, Len(d.fns) = Len(c.fns), d.literals = c.literals + 1
  PROVE  Tracks(file_blob_add_literal(b, argc), d)
<1> DEFINE l == [argc |-> argc, code |-> <<>>]
           new == file_blob_add_literal(b, argc)
           n == Len(b.fns)
           m == Len(b.literals)
<1>1. /\ n = Len(c.fns) + 1 /\ Len(c.fns) < FnLimit /\ m = c.literals /\ c.literals <= LiteralLimit
      /\ Len(c.fns) \in Nat /\ c.literals \in Nat /\ n \in Nat /\ m \in Nat
      /\ FnLimit \in Nat /\ LiteralLimit \in Nat
  BY FoundParts, BlobParts, BlobAssumption DEF Tracks
<1>2. new = IF m >= LiteralLimit THEN [b EXCEPT !.crashed = TRUE]
            ELSE [b EXCEPT !.literals = Append(b.literals, l)]
  BY DEF file_blob_add_literal
<1> HIDE DEF l, new
<1>3. CASE m >= LiteralLimit
  <2>1. new.crashed
    BY <1>2, <1>3 DEF file_blob_t
  <2>2. QED
    BY <1>1, <1>3, <2>1 DEF Tracks, new
<1>4. CASE ~(m >= LiteralLimit)
  <2>1. new.literals = Append(b.literals, l) /\ new.fns = b.fns /\ ~new.crashed
    BY <1>2, <1>4 DEF file_blob_t
  <2>2. Len(Append(b.literals, l)) = m + 1
    BY BlobParts
  <2>3. Len(new.literals) = d.literals /\ d.literals <= LiteralLimit
    BY <1>1, <1>4, <2>1, <2>2
  <2>4. Len(new.fns) = Len(d.fns) + 1 /\ Len(d.fns) < FnLimit
    BY <1>1, <2>1
  <2>5. QED
    BY <2>1, <2>3, <2>4 DEF Tracks, new
<1>5. QED
  BY <1>3, <1>4

\* Filling in the code of a definition leaves the lengths alone.
LEMMA FilledTracks ==
  ASSUME NEW r \in file_blob_t, NEW code \in Seq(Bytecode), NEW c, Tracks(r, c)
  PROVE  /\ \A n \in DOMAIN r.fns : Tracks(FilledFn(r, n, code), c)
         /\ \A n \in DOMAIN r.literals : Tracks(FilledLiteral(r, n, code), c)
<1>1. ASSUME NEW n \in DOMAIN r.fns
      PROVE  Tracks(FilledFn(r, n, code), c)
  <2> DEFINE new == FilledFn(r, n, code)
  <2>1. /\ new.fns = Refilled(r.fns, n, code)
        /\ new.literals = r.literals
        /\ new.crashed = r.crashed
        /\ new.fns \in Seq(fn_blob_t)
    BY FilledFnIs, BlobParts
  <2> HIDE DEF new
  <2>2. r.fns \in Seq(fn_blob_t)
    BY BlobParts
  <2>3. DOMAIN new.fns = DOMAIN r.fns
    BY <2>1 DEF Refilled
  <2>4. Len(new.fns) = Len(r.fns)
    BY <2>1, <2>2, <2>3
  <2>5. QED
    BY <2>1, <2>4 DEF Tracks, new
<1>2. ASSUME NEW n \in DOMAIN r.literals
      PROVE  Tracks(FilledLiteral(r, n, code), c)
  <2> DEFINE new == FilledLiteral(r, n, code)
  <2>1. /\ new.literals = Refilled(r.literals, n, code)
        /\ new.fns = r.fns
        /\ new.crashed = r.crashed
        /\ new.literals \in Seq(literal_t)
    BY FilledLiteralIs, BlobParts
  <2> HIDE DEF new
  <2>2. r.literals \in Seq(literal_t)
    BY BlobParts
  <2>3. DOMAIN new.literals = DOMAIN r.literals
    BY <2>1 DEF Refilled
  <2>4. Len(new.literals) = Len(r.literals)
    BY <2>1, <2>2, <2>3
  <2>5. QED
    BY <2>1, <2>4 DEF Tracks, new
<1>3. QED
  BY <1>1, <1>2

LEMMA BodyTracks ==
  ASSUME NEW compile, NEW found, NEW T,
         Compiles(compile, T), Finds(found, T), Tracking(compile, found, T),
         NEW h \in Nat, compile = ast_expr_compile[h], T = Trees[h],
         NEW params \in Seq(Name), NEW block \in Seq(T), NEW blob \in file_blob_t,
         NEW c \in Found, Tracks(blob, c)
  PROVE  LET body == CompileBody(compile, params, block, blob)
         IN  /\ Proceeds(blob, c, body.blob, Through(found, block, c))
             /\ ~body.blob.crashed => BodyOf(params, block, body.out)
<1> DEFINE start == [out |-> AssignParams(params), blob |-> blob]
           inner == ast_list_compile(compile, block, start)
           body == CompileBody(compile, params, block, blob)
<1>1. start \in State /\ start.out = AssignParams(params) /\ start.blob = blob
  BY AssignParamsSound DEF State
<1> HIDE DEF start
<1>2. inner \in State
  BY <1>1, ListContinues DEF Continues
<1>3. Proceeds(blob, c, inner.blob, Through(found, block, c))
  BY <1>1, ListTracks
<1>4. body = CODE(inner, "CODE_RET", "", 0)
  BY DEF CompileBody, start
<1>5. inner = Through(ast_expr_compile[h], block, start)
  BY DEF ast_list_compile
<1> HIDE DEF inner, body
<1>6. body.blob = inner.blob /\ body.out = Append(inner.out, Return)
  BY <1>2, <1>4 DEF CODE, State, Return
<1>7. ASSUME ~body.blob.crashed
      PROVE  BodyOf(params, block, body.out)
  BY <1>1, <1>5, <1>6, <1>7 DEF BodyOf
<1>8. QED
  BY <1>3, <1>6, <1>7 DEF body

LEMMA RefilledIs ==
  ASSUME NEW S, NEW r \in Seq(S), NEW n \in DOMAIN r, NEW code, Refillable(S, code)
  PROVE  /\ Refilled(r, n, code) \in Seq(S)
         /\ Len(Refilled(r, n, code)) = Len(r)
         /\ Refilled(r, n, code)[n] = [r[n] EXCEPT !.code = code]
         /\ \A k \in DOMAIN r : k # n => Refilled(r, n, code)[k] = r[k]
<1> DEFINE g == [r[n] EXCEPT !.code = code]
<1>1. r[n] \in S
  OBVIOUS
<1>2. g \in S
  BY <1>1 DEF Refillable
<1>3. Refilled(r, n, code) = [r EXCEPT ![n] = g]
  BY DEF Refilled
<1> HIDE DEF g
<1>4. QED
  BY <1>2, <1>3 DEF g

\* A definition is made from the function filled in, the first of those added.
LEMMA FuncDefTracks ==
  ASSUME NEW compile, NEW found, NEW T,
         Compiles(compile, T), Finds(found, T), Tracking(compile, found, T),
         NEW h \in Nat, compile = ast_expr_compile[h], T = Trees[h],
         NEW e, e.t = "NFUNCDEF", e.name \in Chars, e.params \in Seq(Name), e.block \in Seq(T),
         NEW st \in State, ~st.blob.crashed, NEW c \in Found, Tracks(st.blob, c),
         NEW d \in Found, Grown(c, d), e \in Node, d.fns = Append(c.fns, e),
         d.literals = c.literals
  PROVE  Proceeds(st.blob, c, CompileFuncDef(compile, e, st).blob, Through(found, e.block, d))
<1> DEFINE b == st.blob
           argc == Len(e.params)
           f == [name |-> e.name, argc |-> argc, code |-> <<>>]
           new == file_blob_add_fn(b, e.name, argc)
           body == CompileBody(compile, e.params, e.block, new)
           n == Len(new.fns)
           total == Through(found, e.block, d)
           last == CompileFuncDef(compile, e, st)
<1>1. b \in file_blob_t /\ argc \in Nat
  BY StateParts
<1>2. new \in file_blob_t /\ (~new.crashed => new.fns = Append(b.fns, f) /\ f \in fn_blob_t)
  BY <1>1, AddFnIs
<1>3. Len(d.fns) = Len(c.fns) + 1 /\ d.fns[Len(d.fns)] = e /\ Len(c.fns) \in Nat
  BY FoundParts, KeptAppend
<1>4. Tracks(new, d)
  BY <1>1, <1>3, AddFnTracks
<1>5. Continues(st, last)
  BY FuncDefContinues
<1>6. BlobGrows(b, last.blob)
  BY <1>5 DEF Continues
<1>7. last = [st EXCEPT !.blob = IF new.crashed THEN new ELSE FilledFn(body.blob, n, body.out)]
  BY DEF CompileFuncDef, FilledFn
<1>8. last.blob = IF new.crashed THEN new ELSE FilledFn(body.blob, n, body.out)
  BY <1>7 DEF State
<1> HIDE DEF new, last
<1>9. Proceeds(new, d, body.blob, total) /\ (~body.blob.crashed => BodyOf(e.params, e.block, body.out))
  BY <1>2, <1>4, BodyTracks
<1>10. Finished(body.out)
  BY <1>2, BodyFinished
<1>11. Grown(d, total) /\ Grown(c, total)
  BY ListGrows, GrownTrans
<1> HIDE DEF body, total
<1> SUFFICES Proceeds(b, c, last.blob, total)
  BY DEF last, total
<1>12. CASE new.crashed
  <2>1. last.blob = new
    BY <1>8, <1>12
  <2>2. Tracks(new, d) /\ BlobGrows(b, new)
    BY <1>4, <1>6, <2>1
  <2> HIDE DEF b
  <2>3. QED
    BY <1>11, <1>12, <2>1, <2>2, CrashedProceeds
<1>13. CASE ~new.crashed
  <2>1. /\ BlobGrows(new, body.blob) /\ Tracks(body.blob, total) /\ Matches(d, body.blob, total)
        /\ Kept(d.fns, total.fns) /\ total \in Found
    BY <1>9, <1>11 DEF Proceeds, Grown
  <2>2. /\ body.blob \in file_blob_t /\ body.out \in Seq(Bytecode)
        /\ b.fns \in Seq(fn_blob_t) /\ new.fns \in Seq(fn_blob_t)
        /\ body.blob.fns \in Seq(fn_blob_t) /\ Kept(new.fns, body.blob.fns)
    BY <1>1, <1>2, <1>10, <2>1, BlobParts, FunctionCode DEF BlobGrows
  <2>3. n = Len(d.fns) + 1
    BY <1>4, <1>13 DEF Tracks
  <2>4. f \in fn_blob_t /\ new.fns = Append(b.fns, f)
    BY <1>2, <1>13
  <2>5. n \in DOMAIN body.blob.fns /\ new.fns[n] = f /\ n \in 1 .. Len(new.fns)
    <3> HIDE DEF b, f
    <3>1. QED
      BY <2>2, <2>4, KeptAppend DEF Kept
  <2>6. body.blob.fns[n] = f
    BY <2>2, <2>5 DEF Kept
  <2>7. Refillable(fn_blob_t, body.out)
    BY <2>2 DEF fn_blob_t, Refillable
  <2> DEFINE filled == FilledFn(body.blob, n, body.out)
  <2>8. /\ filled.fns = Refilled(body.blob.fns, n, body.out)
        /\ filled.literals = body.blob.literals
        /\ filled.crashed = body.blob.crashed
    BY <2>2, <2>5, FilledFnIs
  <2>9. last.blob = filled
    BY <1>8, <1>13
  <2> HIDE DEF filled, n
  <2>10. /\ Len(filled.fns) = Len(body.blob.fns)
         /\ filled.fns[n] = [f EXCEPT !.code = body.out]
         /\ \A k \in DOMAIN body.blob.fns : k # n => filled.fns[k] = body.blob.fns[k]
    BY <2>2, <2>5, <2>6, <2>7, <2>8, RefilledIs
  <2>11. Tracks(filled, total)
    BY <2>1, <2>8, <2>10 DEF Tracks
  <2>12. ASSUME ~filled.crashed, NEW k \in Len(c.fns) + 1 .. Len(total.fns)
         PROVE  MadeFrom(filled.fns[k + 1], total.fns[k])
    <3>1. Len(body.blob.fns) = Len(total.fns) + 1 /\ ~body.blob.crashed
      BY <2>1, <2>8, <2>12 DEF Tracks
    <3>2. Len(d.fns) \in Nat /\ Len(total.fns) \in Nat /\ Len(d.fns) <= Len(total.fns)
      BY <2>1, FoundParts DEF Kept
    <3>3. CASE k = Len(d.fns)
      <4>1. total.fns[k] = e
        <5>1. k \in 1 .. Len(d.fns)
          BY <1>3, <3>3
        <5>2. QED
          BY <1>3, <2>1, <3>3, <5>1 DEF Kept
      <4>2. filled.fns[k + 1] = [f EXCEPT !.code = body.out]
        BY <2>3, <2>10, <3>3
      <4>3. filled.fns[k + 1].name = e.name /\ filled.fns[k + 1].code = body.out
        BY <4>2
      <4>4. BodyOf(e.params, e.block, body.out)
        BY <1>9, <3>1
      <4>5. QED
        BY <4>1, <4>3, <4>4 DEF MadeFrom
    <3>4. CASE k # Len(d.fns)
      <4>1. k \in Len(d.fns) + 1 .. Len(total.fns) /\ k + 1 # n
        BY <1>3, <2>3, <3>2, <3>4
      <4>2. MadeFrom(body.blob.fns[k + 1], total.fns[k])
        BY <2>1, <3>1, <4>1 DEF Matches
      <4>3. k + 1 \in DOMAIN body.blob.fns
        BY <2>2, <3>1, <3>2, <4>1
      <4>4. QED
        BY <2>10, <4>1, <4>2, <4>3
    <3>5. QED
      BY <3>3, <3>4
  <2>13. Matches(c, filled, total)
    BY <2>12 DEF Matches
  <2>14. QED
    BY <1>6, <1>11, <2>9, <2>11, <2>13 DEF Proceeds
<1>14. QED
  BY <1>12, <1>13

LEMMA AnonFuncDefTracks ==
  ASSUME NEW compile, NEW found, NEW T,
         Compiles(compile, T), Finds(found, T), Tracking(compile, found, T),
         NEW h \in Nat, compile = ast_expr_compile[h], T = Trees[h],
         NEW e, e.params \in Seq(Name), e.block \in Seq(T),
         NEW st \in State, ~st.blob.crashed, NEW c \in Found, Tracks(st.blob, c),
         NEW d \in Found, Grown(c, d), d.fns = c.fns, d.literals = c.literals + 1
  PROVE  Proceeds(st.blob, c, CompileAnonFuncDef(compile, e, st).blob, Through(found, e.block, d))
<1> DEFINE b == st.blob
           argc == Len(e.params)
           l == [argc |-> argc, code |-> <<>>]
           new == file_blob_add_literal(b, argc)
           body == CompileBody(compile, <<>>, e.block, new)
           n == Len(new.literals)
           filled == FilledLiteral(body.blob, n, body.out)
           total == Through(found, e.block, d)
           last == CompileAnonFuncDef(compile, e, st)
<1>1. b \in file_blob_t /\ argc \in Nat /\ <<>> \in Seq(Name)
  BY StateParts
<1>2. /\ new \in file_blob_t
      /\ ~new.crashed => new.literals = Append(b.literals, l) /\ l \in literal_t
  BY <1>1, AddLiteralIs
<1>3. Tracks(new, d)
  BY <1>1, AddLiteralTracks
<1>4. last = IF new.crashed THEN [st EXCEPT !.blob = new]
             ELSE CODE([st EXCEPT !.blob = filled], "CODE_PUSH_FN", "", n)
  BY DEF CompileAnonFuncDef, FilledLiteral
<1>5. Continues(st, last)
  BY AnonFuncDefContinues
<1>6. BlobGrows(b, last.blob)
  BY <1>5 DEF Continues
<1> HIDE DEF new, last
<1>7. Proceeds(new, d, body.blob, total)
  BY <1>1, <1>2, <1>3, BodyTracks
<1>8. Finished(body.out)
  BY <1>1, <1>2, BodyFinished
<1>9. Grown(d, total) /\ Grown(c, total)
  BY ListGrows, GrownTrans
<1> HIDE DEF body, total, l
<1> SUFFICES Proceeds(b, c, last.blob, total)
  BY DEF last, total
<1>10. CASE new.crashed
  <2>1. last.blob = new
    BY <1>4, <1>10 DEF State
  <2>2. Tracks(new, d) /\ BlobGrows(b, new)
    BY <1>3, <1>6, <2>1
  <2> HIDE DEF b
  <2>3. QED
    BY <1>9, <1>10, <2>1, <2>2, CrashedProceeds
<1>11. CASE ~new.crashed
  <2>1. /\ BlobGrows(new, body.blob) /\ Tracks(body.blob, total) /\ Matches(d, body.blob, total)
    BY <1>7 DEF Proceeds
  <2>2. /\ body.blob \in file_blob_t /\ body.out \in Seq(Bytecode)
        /\ b.literals \in Seq(literal_t) /\ new.literals \in Seq(literal_t)
        /\ body.blob.literals \in Seq(literal_t) /\ Kept(new.literals, body.blob.literals)
    BY <1>1, <1>2, <1>8, <2>1, BlobParts, FunctionCode DEF BlobGrows
  <2>3. n \in DOMAIN body.blob.literals
    BY <1>2, <1>11, <2>2, KeptAppend DEF Kept
  <2>4. /\ filled \in file_blob_t
        /\ filled.literals = Refilled(body.blob.literals, n, body.out)
        /\ filled.fns = body.blob.fns
        /\ filled.crashed = body.blob.crashed
    BY <2>2, <2>3, FilledLiteralIs
  <2>5. Len(Refilled(body.blob.literals, n, body.out)) = Len(body.blob.literals)
    <3> DEFINE r == body.blob.literals
    <3>1. Refillable(literal_t, body.out)
      BY <2>2 DEF literal_t, Refillable
    <3>2. r \in Seq(literal_t) /\ n \in DOMAIN r
      BY <2>2, <2>3
    <3> HIDE DEF n, r, filled
    <3>3. /\ Len(Refilled(r, n, body.out)) = Len(r)
          /\ Refilled(r, n, body.out)[n] = [r[n] EXCEPT !.code = body.out]
      BY <3>1, <3>2, RefilledIs
    <3>4. QED
      BY <3>3 DEF r
  <2> HIDE DEF filled
  <2>6. Tracks(filled, total) /\ Matches(c, filled, total)
    <3>1. Len(filled.literals) = Len(body.blob.literals)
      BY <2>4, <2>5
    <3>2. Tracks(filled, total)
      BY <2>1, <2>4, <3>1 DEF Tracks
    <3>3. Matches(c, filled, total)
      BY <2>1, <2>4 DEF Matches
    <3>4. QED
      BY <3>2, <3>3
  <2>7. [st EXCEPT !.blob = filled] \in State /\ [st EXCEPT !.blob = filled].blob = filled
    BY <2>4 DEF State
  <2>8. CODE([st EXCEPT !.blob = filled], "CODE_PUSH_FN", "", n).blob = filled
    BY <2>7 DEF CODE, State
  <2>9. last.blob = filled
    BY <1>4, <1>11, <2>8
  <2>10. QED
    BY <1>6, <1>9, <2>6, <2>9 DEF Proceeds
<1>12. QED
  BY <1>10, <1>11

LEMMA NodeTracks ==
  ASSUME NEW compile, NEW found, NEW T,
         Compiles(compile, T), Finds(found, T), Tracking(compile, found, T),
         NEW h \in Nat, compile = ast_expr_compile[h], T = Trees[h],
         NEW e \in NExpression(T), e \in Node,
         NEW st \in State, NEW c \in Found, Tracks(st.blob, c)
  PROVE  Proceeds(st.blob, c, CompileNode(compile, e, st).blob,
              Through(found, Parts(e), Including(e, c)))
<1> DEFINE after == CompileNode(compile, e, st)
           d == Including(e, c)
           total == Through(found, Parts(e), d)
<1> SUFFICES Proceeds(st.blob, c, after.blob, total)
  OBVIOUS
<1>1. Grown(c, total)
  BY NodeGrows
<1>2. d \in Found /\ Grown(c, d)
  BY IncludingIs DEF Grown
<1>3. e.t \notin {"NFUNCDEF", "NANONFUNCDEF"} => d = c
  BY IncludingIs
<1>4. CASE st.blob.crashed
  <2>1. after = st
    BY <1>4 DEF CompileNode
  <2>2. BlobGrows(st.blob, st.blob)
    BY StateParts, BlobGrowsRefl
  <2>3. Grown(c, c)
    BY GrownRefl
  <2> HIDE DEF total
  <2>4. Proceeds(st.blob, c, st.blob, total)
    BY <1>1, <1>4, <2>2, <2>3, CrashedProceeds
  <2>5. QED
    BY <2>1, <2>4
<1>5. CASE ~st.blob.crashed /\ e.t \in {"NINTEGER", "NDOUBLE", "NSTRING", "NBOOL", "NLOOKUP"}
  <2>1. PICK code, arg1, arg2 : after = CODE(st, code, arg1, arg2)
    BY <1>5 DEF CompileNode
  <2>2. after.blob = st.blob
    BY <2>1, SameBlob
  <2>3. Parts(e) = <<>> /\ d = c
    BY <1>3, <1>5, PartsAre
  <2>4. total = c
    BY <2>3, ThroughFew
  <2>5. QED
    BY <2>2, <2>4, StateParts, ProceedsRefl
<1>6. CASE ~st.blob.crashed /\ e.t = "NASSIGNMENT"
  <2> DEFINE mid == compile[e.val][st]
  <2>1. after = CODE(mid, "CODE_ASSIGN", e.name, 0)
    BY <1>6 DEF CompileNode
  <2>2. e.val \in T /\ Parts(e) = <<e.val>> /\ d = c
    BY <1>3, <1>6, NodeParts, PartsAre
  <2>3. mid \in State /\ Proceeds(st.blob, c, mid.blob, found[e.val][c])
    BY <2>2 DEF Compiles, Continues, Tracking
  <2> HIDE DEF mid
  <2>4. after.blob = mid.blob
    BY <2>1, <2>3 DEF CODE, State
  <2>5. total = found[e.val][c]
    BY <2>2, ThroughFew
  <2>6. QED
    BY <2>3, <2>4, <2>5
<1>7. CASE ~st.blob.crashed /\ e.t \in {"NARRAY", "NCALL"}
  <2>1. PICK list, code, arg1, arg2 :
          /\ after = CODE(ast_list_compile(compile, list, st), code, arg1, arg2)
          /\ list \in Seq(T) /\ Parts(e) = list
    <3>1. CASE e.t = "NARRAY"
      <4>1. after = CODE(ast_list_compile(compile, e.array, st), "CODE_PUSH_ARRAY", "", Len(e.array))
        BY <1>7, <3>1 DEF CompileNode
      <4>2. e.array \in Seq(T) /\ Parts(e) = e.array
        BY <3>1, NodeParts, PartsAre
      <4>3. QED
        BY <4>1, <4>2
    <3>2. CASE e.t = "NCALL"
      <4>1. after = CODE(ast_list_compile(compile, e.args, st), "CODE_CALL", e.name, Len(e.args))
        BY <1>7, <3>2 DEF CompileNode
      <4>2. e.args \in Seq(T) /\ Parts(e) = e.args
        BY <3>2, NodeParts, PartsAre
      <4>3. QED
        BY <4>1, <4>2
    <3>3. QED
      BY <1>7, <3>1, <3>2
  <2> DEFINE mid == ast_list_compile(compile, list, st)
  <2>2. mid \in State
    BY <2>1, ListContinues DEF Continues
  <2>3. Proceeds(st.blob, c, mid.blob, Through(found, list, c))
    BY <2>1, ListTracks
  <2> HIDE DEF mid
  <2>4. after.blob = mid.blob
    BY <2>1, <2>2, SameBlob DEF mid
  <2>5. total = Through(found, list, c)
    BY <1>3, <1>7, <2>1
  <2>6. QED
    BY <2>3, <2>4, <2>5
<1>8. CASE ~st.blob.crashed /\ e.t = "NBINARYOP"
  <2> DEFINE left == compile[e.left][st]
             mid == compile[e.right][left]
             first == found[e.left][c]
  <2>1. after = CODE(mid, OpCode[e.op], "", 0)
    BY <1>8 DEF CompileNode
  <2>2. e.left \in T /\ e.right \in T /\ Parts(e) = <<e.left, e.right>> /\ d = c
    BY <1>3, <1>8, NodeParts, PartsAre
  <2>3. left \in State /\ Proceeds(st.blob, c, left.blob, first)
    BY <2>2 DEF Compiles, Continues, Tracking
  <2> HIDE DEF left, first
  <2>4. first \in Found /\ Tracks(left.blob, first)
    BY <2>3 DEF Proceeds, Grown
  <2>5. mid \in State /\ Proceeds(left.blob, first, mid.blob, found[e.right][first])
    BY <2>2, <2>3, <2>4 DEF Compiles, Continues, Tracking
  <2>6. total = found[e.right][first]
    BY <2>2, ThroughFew DEF first
  <2> HIDE DEF mid
  <2>7. after.blob = mid.blob
    BY <2>1, <2>5 DEF CODE, State
  <2>8. Proceeds(st.blob, c, mid.blob, found[e.right][first])
    BY <2>3, <2>5, StateParts, ProceedsTrans
  <2>9. QED
    BY <2>6, <2>7, <2>8
<1>9. CASE ~st.blob.crashed /\ e.t \in {"NIFSTRUCTURE", "NWHILESTRUCTURE"}
  <2> DEFINE val == compile[e.expr][st]
             test == CompileTest(compile, e.expr, st)
             inner == ast_list_compile(compile, e.block, test)
             first == found[e.expr][c]
  <2>1. after \in {CompileIf(compile, e.expr, e.block, st),
                   CompileWhile(compile, e.expr, e.block, st)}
    BY <1>9 DEF CompileNode
  <2>2. e.expr \in T /\ e.block \in Seq(T) /\ Parts(e) = <<e.expr>> \o e.block /\ d = c
    BY <1>3, <1>9, NodeParts, PartsAre
  <2>3. val \in State /\ Proceeds(st.blob, c, val.blob, first)
    BY <2>2 DEF Compiles, Continues, Tracking
  <2>4. test \in State
    BY <2>2, TestContinues DEF Continues
  <2>5. test.blob = val.blob
    <3>1. test = CODE(val, "CODE_JUMP_IF_FALSE", "", 0)
      BY DEF CompileTest
    <3> HIDE DEF val, test
    <3>2. QED
      BY <2>3, <3>1 DEF CODE, State
  <2> HIDE DEF val, test, first
  <2>6. first \in Found /\ Tracks(test.blob, first)
    BY <2>3, <2>5 DEF Proceeds, Grown
  <2>7. inner \in State
    BY <2>2, <2>4, ListContinues DEF Continues
  <2>8. Proceeds(test.blob, first, inner.blob, Through(found, e.block, first))
    BY <2>2, <2>4, <2>6, ListTracks
  <2>9. total = Through(found, e.block, first)
    <3> DEFINE whole == Parts(e)
    <3>1. Headed(whole, e.expr, e.block) /\ total = Through(found, whole, c)
      BY <2>2 DEF Headed
    <3> HIDE DEF whole, total
    <3>2. Through(found, whole, c) = Through(found, e.block, found[e.expr][c])
      BY <2>2, <3>1, ThroughHead
    <3>3. QED
      BY <3>1, <3>2 DEF first
  <2> DEFINE body == CODE(inner, "CODE_JUMP", "", Len(st.out))
             n == Len(test.out)
  <2>10. after \in {PatchJump(inner, n), PatchJump(body, n)}
    BY <2>1 DEF CompileIf, CompileWhile, test
  <2> HIDE DEF inner, n
  <2>11. PatchJump(inner, n).blob = inner.blob
    BY <2>7 DEF PatchJump, State
  <2>12. PatchJump(body, n).blob = inner.blob
    BY <2>7 DEF PatchJump, CODE, State
  <2>13. Proceeds(st.blob, c, inner.blob, Through(found, e.block, first))
    BY <2>3, <2>5, <2>8, StateParts, ProceedsTrans
  <2>14. QED
    BY <2>9, <2>10, <2>11, <2>12, <2>13
<1>10. CASE ~st.blob.crashed /\ e.t = "NFUNCDEF"
  <2>1. after = CompileFuncDef(compile, e, st)
    BY <1>10 DEF CompileNode
  <2>2. e.name \in Chars /\ e.params \in Seq(Name) /\ e.block \in Seq(T) /\ Parts(e) = e.block
    BY <1>10, NodeParts, PartsAre, StringsAre
  <2>3. d.fns = Append(c.fns, e) /\ d.literals = c.literals
    BY <1>10, IncludingIs
  <2> HIDE DEF d
  <2>4. Proceeds(st.blob, c, CompileFuncDef(compile, e, st).blob, Through(found, e.block, d))
    BY <1>2, <1>10, <2>2, <2>3, FuncDefTracks
  <2>5. QED
    BY <2>1, <2>2, <2>4
<1>11. CASE ~st.blob.crashed /\ e.t = "NANONFUNCDEF"
  <2>1. after = CompileAnonFuncDef(compile, e, st)
    BY <1>11 DEF CompileNode
  <2>2. e.params \in Seq(Name) /\ e.block \in Seq(T) /\ Parts(e) = e.block
    BY <1>11, NodeParts, PartsAre
  <2>3. d.fns = c.fns /\ d.literals = c.literals + 1
    BY <1>11, IncludingIs
  <2> HIDE DEF d
  <2>4. Proceeds(st.blob, c, CompileAnonFuncDef(compile, e, st).blob, Through(found, e.block, d))
    BY <1>2, <1>11, <2>2, <2>3, AnonFuncDefTracks
  <2>5. QED
    BY <2>1, <2>2, <2>4
<1>12. QED
  BY <1>4, <1>5, <1>6, <1>7, <1>8, <1>9, <1>10, <1>11, NodeParts

\* By induction on the levels of the trees.
LEMMA EveryTreeTracks ==
  \A h \in 0 .. Deepest : /\ Finds(Defined[h], Trees[h])
                          /\ Tracking(ast_expr_compile[h], Defined[h], Trees[h])
<1> DEFINE Fine(h) == /\ Finds(Defined[h], Trees[h])
                      /\ Tracking(ast_expr_compile[h], Defined[h], Trees[h])
           Bad == {h \in 0 .. Deepest : ~Fine(h)}
<1> SUFFICES ASSUME Bad # {}
             PROVE  FALSE
  OBVIOUS
<1>1. PICK h \in Bad : \A k \in Bad : h <= k
  <2>1. Bad \in SUBSET Nat
    BY TreeAssumption
  <2> HIDE DEF Bad
  <2>2. QED
    BY <2>1, TreesBy!Least
<1>2. h # 0
  <2>1. Fine(0)
    BY TreesAre DEF Finds, Tracking
  <2> HIDE DEF Fine
  <2>2. QED
    BY <1>1, <2>1
<1>3. h \in 0 .. Deepest /\ h - 1 \in 0 .. Deepest /\ h - 1 \in Nat /\ (h - 1) + 1 = h
  BY <1>1, <1>2, TreeAssumption
<1> DEFINE g == h - 1
<1>4. Fine(g)
  <2>1. ~(h <= g)
    BY <1>3
  <2> HIDE DEF Fine, g
  <2>2. g \in 0 .. Deepest
    BY <1>3 DEF g
  <2>3. QED
    BY <1>1, <2>1, <2>2
<1>5. g \in Nat /\ g + 1 = h
  BY <1>3
<1> HIDE DEF g
<1>6. \A e \in Trees[h], st \in State :
        ast_expr_compile[h][e][st] = CompileNode(ast_expr_compile[g], e, st)
  <2>1. ast_expr_compile[h] =
          [e \in Trees[h] |-> [st \in State |-> CompileNode(ast_expr_compile[g], e, st)]]
    BY <1>5, CompilerIs
  <2>2. QED
    BY <2>1
<1>7. \A e \in Trees[h], c \in Found :
        Defined[h][e][c] = Through(Defined[g], Parts(e), Including(e, c))
  <2>1. Defined[h] =
          [e \in Trees[h] |-> [c \in Found |-> Through(Defined[g], Parts(e), Including(e, c))]]
    BY <1>5, DefinedIs
  <2>2. QED
    BY <2>1
<1>8. Trees[h] = NExpression(Trees[g]) /\ Trees[h] \subseteq Node
  BY <1>3, <1>5, TreesAre, NodesAre
<1>9. Compiles(ast_expr_compile[g], Trees[g])
  BY <1>5, EveryTreeCompiles
<1>10. Finds(Defined[h], Trees[h])
  <2> SUFFICES ASSUME NEW e \in Trees[h], NEW c \in Found
               PROVE  Grown(c, Defined[h][e][c])
    BY <1>8 DEF Finds
  <2>1. Grown(c, Through(Defined[g], Parts(e), Including(e, c)))
    BY <1>4, <1>8, NodeGrows
  <2>2. QED
    BY <1>7, <2>1
<1>11. Tracking(ast_expr_compile[h], Defined[h], Trees[h])
  <2> SUFFICES ASSUME NEW e \in Trees[h], NEW st \in State, NEW c \in Found,
                      Tracks(st.blob, c)
               PROVE  Proceeds(st.blob, c, ast_expr_compile[h][e][st].blob, Defined[h][e][c])
    BY DEF Tracking
  <2>1. Proceeds(st.blob, c, CompileNode(ast_expr_compile[g], e, st).blob,
             Through(Defined[g], Parts(e), Including(e, c)))
    <3>1. e \in Node /\ e \in NExpression(Trees[g])
      BY <1>8
    <3>2. QED
      BY <1>4, <1>5, <1>9, <3>1, NodeTracks
  <2>2. QED
    BY <1>6, <1>7, <2>1
<1>12. QED
  BY <1>1, <1>10, <1>11

LEMMA WholeTracks ==
  ASSUME NEW root \in Program
  PROVE  /\ Definitions(root) \in Found
         /\ Tracks(ast_compile(root), Definitions(root))
         /\ ~ast_compile(root).crashed =>
              /\ \A k \in DOMAIN Definitions(root).fns :
                   MadeFrom(ast_compile(root).fns[k + 1], Definitions(root).fns[k])
              /\ \E st \in State :
                   LET global == Through(ast_expr_compile[Deepest], root, st)
                   IN  /\ st.out = <<>>
                       /\ global \in State
                       /\ ~global.blob.crashed
                       /\ ast_compile(root).fns[1].code = global.out
<1> DEFINE blob == file_blob_add_fn(EmptyBlob, "", 0)
           compile == ast_expr_compile[Deepest]
           found == Defined[Deepest]
           start == [out |-> <<>>, blob |-> blob]
           none == [fns |-> <<>>, literals |-> 0]
           global == ast_list_compile(compile, root, start)
           total == Through(found, root, none)
           all == ast_compile(root)
<1>1. /\ blob \in file_blob_t /\ ~blob.crashed
      /\ Len(blob.fns) = 1 /\ Len(blob.literals) = 0
  BY FirstBlob
<1>2. all = FilledFn(global.blob, 1, global.out)
  BY DEF ast_compile, FilledFn
<1>3. Definitions(root) = total
  BY DEF Definitions
<1> HIDE DEF blob
<1>4. start \in State /\ start.blob = blob /\ start.out = <<>>
  <2>1. <<>> \in Seq(Bytecode)
    OBVIOUS
  <2>2. QED
    BY <1>1, <2>1 DEF State
<1>5. none \in Found /\ Len(none.fns) = 0 /\ none.literals = 0
  <2>1. <<>> \in Seq(Node)
    OBVIOUS
  <2>2. QED
    BY <2>1 DEF Found
<1>6. Tracks(start.blob, none)
  BY <1>1, <1>4, <1>5, BlobAssumption DEF Tracks
<1>7. /\ Compiles(compile, Trees[Deepest])
      /\ Finds(found, Trees[Deepest])
      /\ Tracking(compile, found, Trees[Deepest])
      /\ root \in Seq(Trees[Deepest])
  BY EveryTreeCompiles, EveryTreeTracks, TreeAssumption DEF Program, Node
<1>8. global = Through(ast_expr_compile[Deepest], root, start)
  BY DEF ast_list_compile
<1> HIDE DEF compile, found, start, none
<1>9. global \in State /\ BlobGrows(blob, global.blob)
  BY <1>4, <1>7, ListContinues DEF Continues
<1>10. Proceeds(blob, none, global.blob, total)
  BY <1>4, <1>5, <1>6, <1>7, ListTracks
<1>11. Tracks(global.blob, total) /\ Matches(none, global.blob, total) /\ total \in Found
  BY <1>10 DEF Proceeds, Grown
<1> HIDE DEF global, total, all
<1>12. /\ global.blob \in file_blob_t /\ global.out \in Seq(Bytecode)
       /\ global.blob.fns \in Seq(fn_blob_t)
  BY <1>9, StateParts, BlobParts
<1>13. 1 \in DOMAIN global.blob.fns
  BY <1>1, <1>9, <1>12 DEF BlobGrows, Kept
<1>14. /\ all.fns = Refilled(global.blob.fns, 1, global.out)
       /\ all.crashed = global.blob.crashed
       /\ Tracks(all, total)
  BY <1>2, <1>11, <1>12, <1>13, FilledFnIs, FilledTracks
<1>15. Refillable(fn_blob_t, global.out)
  BY <1>12 DEF fn_blob_t, Refillable
<1>16. /\ all.fns[1] = [global.blob.fns[1] EXCEPT !.code = global.out]
       /\ \A k \in DOMAIN global.blob.fns : k # 1 => all.fns[k] = global.blob.fns[k]
  BY <1>12, <1>13, <1>14, <1>15, RefilledIs
<1>17. ASSUME ~all.crashed
       PROVE  /\ \A k \in DOMAIN total.fns : MadeFrom(all.fns[k + 1], total.fns[k])
              /\ \E st \in State :
                   LET after == Through(ast_expr_compile[Deepest], root, st)
                   IN  /\ st.out = <<>>
                       /\ after \in State
                       /\ ~after.blob.crashed
                       /\ all.fns[1].code = after.out
  <2>1. ~global.blob.crashed
    BY <1>14, <1>17
  <2>2. all.fns[1].code = global.out
    <3>1. global.blob.fns[1] \in fn_blob_t
      BY <1>12, <1>13
    <3>2. QED
      BY <1>16, <3>1 DEF fn_blob_t
  <2>3. ASSUME NEW k \in DOMAIN total.fns
        PROVE  MadeFrom(all.fns[k + 1], total.fns[k])
    <3>1. total.fns \in Seq(Node) /\ Len(global.blob.fns) = Len(total.fns) + 1
      BY <1>11, <2>1, FoundParts DEF Tracks
    <3>2. k \in Len(none.fns) + 1 .. Len(total.fns)
      BY <1>5, <3>1
    <3>3. MadeFrom(global.blob.fns[k + 1], total.fns[k])
      BY <1>11, <2>1, <3>2 DEF Matches
    <3>4. k + 1 \in DOMAIN global.blob.fns /\ k + 1 # 1
      BY <1>12, <3>1, <3>2, <1>5
    <3>5. QED
      BY <1>16, <3>3, <3>4
  <2>4. QED
    BY <1>4, <1>8, <1>9, <2>1, <2>2, <2>3
<1>18. QED
  BY <1>3, <1>11, <1>14, <1>17 DEF all

\* ast_compile: the functions of the blob are, behind the global code, those
\* the program defines, wherever they are nested, in the order of the text, and
\* each has the code of its own body.
THEOREM FunctionsAsDefined ==
  ASSUME NEW root \in Program, ~ast_compile(root).crashed
  PROVE  /\ Len(ast_compile(root).fns) = Len(Definitions(root).fns) + 1
         /\ \A k \in DOMAIN Definitions(root).fns :
              MadeFrom(ast_compile(root).fns[k + 1], Definitions(root).fns[k])
BY WholeTracks DEF Tracks

\* file_blob_add_fn and file_blob_add_literal: the compiler dies of a program
\* if, and only if, its definitions are too many for the arrays of file_blob_t,
\* wherever in the program they are nested.
THEOREM DiesOnlyWhenFull == program \in Program => DiesWhenFull
<1> SUFFICES ASSUME program \in Program
             PROVE  DiesWhenFull
  OBVIOUS
<1> DEFINE all == ast_compile(program)
           defined == Definitions(program)
<1>1. defined \in Found /\ Tracks(all, defined)
  BY WholeTracks
<1> HIDE DEF all, defined
<1>2. all.crashed <=> Len(defined.fns) >= FnLimit \/ defined.literals > LiteralLimit
  BY <1>1, FoundParts, BlobAssumption DEF Tracks
<1>3. QED
  BY <1>2 DEF DiesWhenFull, all, defined
-----------------------------------------------------------------------------
(* Where the code of a node is: the machine finds at each position what    *)
(* the compiler emitted there, whatever was compiled before and after.     *)

\* From `from` to `to` the code is what was emitted on the way from st to after.
Spanned(code, st, after, from, to) ==
  /\ code \in Seq(Bytecode)
  /\ st \in State /\ after \in State /\ ~after.blob.crashed
  /\ Len(st.out) = from /\ Len(after.out) = to /\ to <= Len(code)
  /\ \A k \in from + 1 .. to : code[k] = after.out[k]

\* It is the code of the node e, or of a list of nodes.
Spans(e, code, from, to) ==
  \E h \in Nat, st \in State :
    e \in Trees[h] /\ Spanned(code, st, ast_expr_compile[h][e][st], from, to)
ListSpans(list, code, from, to) ==
  \E h \in Nat, st \in State :
    list \in Seq(Trees[h]) /\ Spanned(code, st, Through(ast_expr_compile[h], list, st), from, to)

LEMMA OutLength ==
  ASSUME NEW st \in State
  PROVE  Len(st.out) \in Nat
BY StateParts

\* What was emitted first, and then.
LEMMA SpannedTwice ==
  ASSUME NEW a, NEW b, NEW c, Continues(a, b), Continues(b, c), NEW code, NEW from, NEW to,
         Spanned(code, a, c, from, to)
  PROVE  /\ Spanned(code, a, b, from, Len(b.out))
         /\ Spanned(code, b, c, Len(b.out), to)
         /\ Len(b.out) \in from .. to
<1>1. /\ a \in State /\ b \in State /\ c \in State
      /\ Len(a.out) \in Nat /\ Len(b.out) \in Nat /\ Len(c.out) \in Nat
  BY OutLength DEF Spanned, Continues
<1>2. ~b.blob.crashed
  BY DEF Spanned, Continues, BlobGrows
<1>3. Len(a.out) <= Len(b.out) /\ Len(b.out) <= Len(c.out)
  BY DEF Continues, Kept
<1>4. \A k \in 1 .. Len(b.out) : c.out[k] = b.out[k]
  BY DEF Continues, Kept
<1>5. /\ code \in Seq(Bytecode) /\ Len(a.out) = from /\ Len(c.out) = to /\ to <= Len(code)
      /\ \A k \in from + 1 .. to : code[k] = c.out[k]
      /\ ~c.blob.crashed
  BY DEF Spanned
<1>6. \A k \in from + 1 .. Len(b.out) : code[k] = b.out[k]
  BY <1>1, <1>3, <1>4, <1>5
<1>7. \A k \in Len(b.out) + 1 .. to : code[k] = c.out[k]
  BY <1>1, <1>3, <1>5
<1>8. Len(b.out) <= Len(code)
  BY <1>1, <1>3, <1>5
<1>9. QED
  BY <1>1, <1>2, <1>3, <1>5, <1>6, <1>7, <1>8 DEF Spanned

\* One more instruction.
Emitted(b, c, i) == i \in Bytecode /\ c.out = Append(b.out, i) /\ c.blob = b.blob

LEMMA EmittedIs ==
  ASSUME NEW b \in State, NEW op, NEW arg1, NEW arg2, instr(op, arg1, arg2) \in Bytecode
  PROVE  Emitted(b, CODE(b, op, arg1, arg2), instr(op, arg1, arg2))
BY DEF Emitted, CODE, State

\* The instructions of the leaves.
LEMMA LeavesAre ==
  /\ \A n \in Int : /\ instr("CODE_PUSH_INT", "", n) \in Bytecode
                    /\ instr("CODE_PUSH_BOOL", "", n) \in Bytecode
                    /\ instr("CODE_PUSH_FN", "", n) \in Bytecode
  /\ \A x \in Chars : /\ instr("CODE_PUSH_FLOAT", x, 0) \in Bytecode
                      /\ instr("CODE_PUSH_STR", x, 0) \in Bytecode
                      /\ instr("CODE_PUSH_LOOKUP", x, 0) \in Bytecode
<1>1. \A op \in Derp_code_type, x \in Chars, n \in Int : instr(op, x, n) \in Bytecode
  BY DEF instr, Bytecode
<1>2. /\ "CODE_PUSH_INT" \in Derp_code_type /\ "CODE_PUSH_BOOL" \in Derp_code_type
      /\ "CODE_PUSH_FN" \in Derp_code_type /\ "CODE_PUSH_FLOAT" \in Derp_code_type
      /\ "CODE_PUSH_STR" \in Derp_code_type /\ "CODE_PUSH_LOOKUP" \in Derp_code_type
  BY DEF Derp_code_type
<1>3. "" \in Chars /\ 0 \in Int
  BY DEF Chars
<1>4. QED
  BY <1>1, <1>2, <1>3

LEMMA SpannedCode ==
  ASSUME NEW a, NEW b, Continues(a, b), NEW c, NEW i, Emitted(b, c, i), NEW code, NEW from, NEW to, Spanned(code, a, c, from, to)
  PROVE  /\ to - 1 \in Nat /\ (to - 1) + 1 = to
         /\ Spanned(code, a, b, from, to - 1)
         /\ code[to] = i
<1>1. a \in State /\ b \in State
  BY DEF Spanned, Continues
<1>2. b.out \in Seq(Bytecode) /\ Len(a.out) \in Nat /\ i \in Bytecode
  BY <1>1, StateParts DEF Emitted
<1>3. /\ Len(c.out) = Len(b.out) + 1
      /\ c.out[Len(b.out) + 1] = i
      /\ \A k \in 1 .. Len(b.out) : c.out[k] = b.out[k]
  BY <1>2, KeptAppend DEF Emitted
<1>4. Len(b.out) \in Nat /\ Len(a.out) <= Len(b.out)
  BY <1>2 DEF Continues, Kept
<1>5. to = Len(b.out) + 1 /\ from = Len(a.out)
  BY <1>3 DEF Spanned
<1>6. code \in Seq(Bytecode) /\ to <= Len(code)
  BY DEF Spanned
<1>7. code[to] = i
  <2>1. to \in from + 1 .. to
    BY <1>2, <1>4, <1>5
  <2>2. code[to] = c.out[to]
    BY <2>1 DEF Spanned
  <2>3. QED
    BY <1>3, <1>5, <2>2
<1>8. \A k \in from + 1 .. to - 1 : code[k] = b.out[k]
  BY <1>2, <1>3, <1>4, <1>5 DEF Spanned
<1>9. ~b.blob.crashed
  BY DEF Spanned, Emitted
<1>10. to - 1 = Len(b.out) /\ to - 1 <= Len(code) /\ to - 1 \in Nat /\ (to - 1) + 1 = to
  BY <1>4, <1>5, <1>6
<1>11. QED
  BY <1>1, <1>5, <1>6, <1>7, <1>8, <1>9, <1>10 DEF Spanned

\* A single instruction.
LEMMA SpannedLeaf ==
  ASSUME NEW a, NEW c, NEW i, Emitted(a, c, i), NEW code, NEW from, NEW to, Spanned(code, a, c, from, to)
  PROVE  to = from + 1 /\ code[to] = i
<1>1. a \in State /\ Len(a.out) = from
  BY DEF Spanned
<1>2. Len(a.out) \in Nat
  BY <1>1, OutLength
<1>3. Continues(a, a)
  BY <1>1, ContinuesRefl
<1>4. /\ to - 1 \in Nat /\ (to - 1) + 1 = to
      /\ Spanned(code, a, a, from, to - 1)
      /\ code[to] = i
  BY <1>3, SpannedCode
<1>5. to - 1 = from
  BY <1>1, <1>4 DEF Spanned
<1>6. QED
  BY <1>1, <1>2, <1>4, <1>5

\* A node's code is emitted by CompileNode for its parts.
LEMMA SpansIs ==
  ASSUME NEW e, NEW code, NEW from, NEW to, Spans(e, code, from, to)
  PROVE  /\ from \in Nat /\ to \in Nat /\ from <= to
         /\ code \in Seq(Bytecode) /\ to <= Len(code)
         /\ \E h \in Nat, st \in State :
              /\ e \in NExpression(Trees[h])
              /\ ~st.blob.crashed
              /\ Compiles(ast_expr_compile[h], Trees[h])
              /\ Spanned(code, st, CompileNode(ast_expr_compile[h], e, st), from, to)
<1>1. PICK h \in Nat, st \in State :
             e \in Trees[h] /\ Spanned(code, st, ast_expr_compile[h][e][st], from, to)
  BY DEF Spans
<1> DEFINE after == ast_expr_compile[h][e][st]
<1>2. Continues(st, after)
  BY <1>1, EveryTreeCompiles DEF Compiles
<1>3. h # 0
  BY <1>1, TreesAre
<1>4. h - 1 \in Nat /\ (h - 1) + 1 = h
  BY <1>3
<1> DEFINE g == h - 1
<1>5. g \in Nat /\ g + 1 = h
  BY <1>4
<1> HIDE DEF g
<1>6. Trees[h] = NExpression(Trees[g])
  BY <1>5, TreesAre
<1>7. after = CompileNode(ast_expr_compile[g], e, st)
  <2>1. ast_expr_compile[h] =
          [n \in Trees[h] |-> [s \in State |-> CompileNode(ast_expr_compile[g], n, s)]]
    BY <1>5, CompilerIs
  <2>2. QED
    BY <1>1, <2>1
<1>8. Spanned(code, st, after, from, to)
  BY <1>1
<1> HIDE DEF after
<1>9. ~st.blob.crashed
  BY <1>2, <1>8 DEF Continues, BlobGrows, Spanned
<1>10. from \in Nat /\ to \in Nat /\ from <= to
  BY <1>2, <1>8, OutLength DEF Continues, Kept, Spanned
<1>11. code \in Seq(Bytecode) /\ to <= Len(code)
  BY <1>8 DEF Spanned
<1>12. QED
  BY <1>1, <1>5, <1>6, <1>7, <1>8, <1>9, <1>10, <1>11, EveryTreeCompiles

\* The nodes that are one instruction, and the definition of a function, which
\* is none.
LEMMA SpansLeaf ==
  ASSUME NEW e, NEW code, NEW from, NEW to, Spans(e, code, from, to)
  PROVE  /\ e.t = "NINTEGER" =>
              to = from + 1 /\ code[to] = instr("CODE_PUSH_INT", "", e.integer)
         /\ e.t = "NDOUBLE" =>
              to = from + 1 /\ code[to] = instr("CODE_PUSH_FLOAT", e.tdouble, 0)
         /\ e.t = "NSTRING" =>
              to = from + 1 /\ code[to] = instr("CODE_PUSH_STR", e.string, 0)
         /\ e.t = "NBOOL" =>
              to = from + 1 /\ code[to] = instr("CODE_PUSH_BOOL", "", IF e.tbool THEN 1 ELSE 0)
         /\ e.t = "NLOOKUP" =>
              to = from + 1 /\ code[to] = instr("CODE_PUSH_LOOKUP", e.name, 0)
<1>1. PICK h \in Nat, st \in State :
             /\ e \in NExpression(Trees[h])
             /\ ~st.blob.crashed
             /\ Spanned(code, st, CompileNode(ast_expr_compile[h], e, st), from, to)
  BY SpansIs
<1> DEFINE compile == ast_expr_compile[h]
           after == CompileNode(compile, e, st)
<1>2. CASE e.t = "NINTEGER"
  <2>1. CompileNode(compile, e, st) = CODE(st, "CODE_PUSH_INT", "", e.integer)
    BY <1>1, <1>2 DEF CompileNode
  <2>2. Spanned(code, st, after, from, to)
    BY <1>1
  <2>3. e.integer \in Int
    BY <1>1, <1>2, NodeParts
  <2> HIDE DEF after
  <2>4. instr("CODE_PUSH_INT", "", e.integer) \in Bytecode
    BY <2>3, LeavesAre
  <2> DEFINE i == instr("CODE_PUSH_INT", "", e.integer)
  <2>5. Emitted(st, after, i)
    BY <2>1, <2>4, EmittedIs DEF after
  <2> HIDE DEF i
  <2>6. to = from + 1 /\ code[to] = i
    BY <2>2, <2>5, SpannedLeaf
  <2>7. QED
    BY <1>2, <2>6 DEF i
<1>3. CASE e.t = "NDOUBLE"
  <2>1. CompileNode(compile, e, st) = CODE(st, "CODE_PUSH_FLOAT", e.tdouble, 0)
    BY <1>1, <1>3 DEF CompileNode
  <2>2. Spanned(code, st, after, from, to)
    BY <1>1
  <2>3. e.tdouble \in Chars
    BY <1>1, <1>3, NodeParts, StringsAre
  <2> HIDE DEF after
  <2>4. instr("CODE_PUSH_FLOAT", e.tdouble, 0) \in Bytecode
    BY <2>3, LeavesAre
  <2> DEFINE i == instr("CODE_PUSH_FLOAT", e.tdouble, 0)
  <2>5. Emitted(st, after, i)
    BY <2>1, <2>4, EmittedIs DEF after
  <2> HIDE DEF i
  <2>6. to = from + 1 /\ code[to] = i
    BY <2>2, <2>5, SpannedLeaf
  <2>7. QED
    BY <1>3, <2>6 DEF i
<1>4. CASE e.t = "NSTRING"
  <2>1. CompileNode(compile, e, st) = CODE(st, "CODE_PUSH_STR", e.string, 0)
    BY <1>1, <1>4 DEF CompileNode
  <2>2. Spanned(code, st, after, from, to)
    BY <1>1
  <2>3. e.string \in Chars
    BY <1>1, <1>4, NodeParts, StringsAre
  <2> HIDE DEF after
  <2>4. instr("CODE_PUSH_STR", e.string, 0) \in Bytecode
    BY <2>3, LeavesAre
  <2> DEFINE i == instr("CODE_PUSH_STR", e.string, 0)
  <2>5. Emitted(st, after, i)
    BY <2>1, <2>4, EmittedIs DEF after
  <2> HIDE DEF i
  <2>6. to = from + 1 /\ code[to] = i
    BY <2>2, <2>5, SpannedLeaf
  <2>7. QED
    BY <1>4, <2>6 DEF i
<1>5. CASE e.t = "NBOOL"
  <2> DEFINE n == IF e.tbool THEN 1 ELSE 0
  <2>1. CompileNode(compile, e, st) = CODE(st, "CODE_PUSH_BOOL", "", n)
    BY <1>1, <1>5 DEF CompileNode
  <2>2. Spanned(code, st, after, from, to)
    BY <1>1
  <2>3. n \in Int
    OBVIOUS
  <2> HIDE DEF after, n
  <2>4. instr("CODE_PUSH_BOOL", "", n) \in Bytecode
    BY <2>3, LeavesAre
  <2> DEFINE i == instr("CODE_PUSH_BOOL", "", n)
  <2>5. Emitted(st, after, i)
    BY <2>1, <2>4, EmittedIs DEF after
  <2> HIDE DEF i
  <2>6. to = from + 1 /\ code[to] = i
    BY <2>2, <2>5, SpannedLeaf
  <2>7. QED
    BY <1>5, <2>6 DEF i, n
<1>6. CASE e.t = "NLOOKUP"
  <2>1. CompileNode(compile, e, st) = CODE(st, "CODE_PUSH_LOOKUP", e.name, 0)
    BY <1>1, <1>6 DEF CompileNode
  <2>2. Spanned(code, st, after, from, to)
    BY <1>1
  <2>3. e.name \in Chars
    BY <1>1, <1>6, NodeParts, StringsAre
  <2> HIDE DEF after
  <2>4. instr("CODE_PUSH_LOOKUP", e.name, 0) \in Bytecode
    BY <2>3, LeavesAre
  <2> DEFINE i == instr("CODE_PUSH_LOOKUP", e.name, 0)
  <2>5. Emitted(st, after, i)
    BY <2>1, <2>4, EmittedIs DEF after
  <2> HIDE DEF i
  <2>6. to = from + 1 /\ code[to] = i
    BY <2>2, <2>5, SpannedLeaf
  <2>7. QED
    BY <1>6, <2>6 DEF i
<1>7. QED
  BY <1>2, <1>3, <1>4, <1>5, <1>6

\* The body of a function is compiled into its own code.
LEMMA SpansDefinition ==
  ASSUME NEW e, NEW code, NEW from, NEW to, Spans(e, code, from, to)
  PROVE  /\ e.t = "NFUNCDEF" => to = from
         /\ e.t = "NANONFUNCDEF" => to = from + 1 /\ code[to].code = "CODE_PUSH_FN"
<1>1. PICK h \in Nat, st \in State :
             /\ e \in NExpression(Trees[h])
             /\ ~st.blob.crashed
             /\ Compiles(ast_expr_compile[h], Trees[h])
             /\ Spanned(code, st, CompileNode(ast_expr_compile[h], e, st), from, to)
  BY SpansIs
<1> DEFINE compile == ast_expr_compile[h]
           after == CompileNode(compile, e, st)
<1>2. CASE e.t = "NFUNCDEF"
  <2>1. after = CompileFuncDef(compile, e, st)
    BY <1>1, <1>2 DEF CompileNode
  <2>2. CompileFuncDef(compile, e, st).out = st.out
    <3>1. \A b : [st EXCEPT !.blob = b].out = st.out
      BY DEF State
    <3>2. QED
      BY <3>1 DEF CompileFuncDef
  <2>3. QED
    BY <1>1, <1>2, <2>1, <2>2 DEF Spanned
<1>3. CASE e.t = "NANONFUNCDEF"
  <2> DEFINE blob == file_blob_add_literal(st.blob, Len(e.params))
             body == CompileBody(compile, <<>>, e.block, blob)
             index == Len(blob.literals)
             filled == [body.blob EXCEPT !.literals[index].code = body.out]
             mid == [st EXCEPT !.blob = filled]
  <2>1. after = CompileAnonFuncDef(compile, e, st)
    BY <1>1, <1>3 DEF CompileNode
  <2>2. after = IF blob.crashed THEN [st EXCEPT !.blob = blob]
                ELSE CODE(mid, "CODE_PUSH_FN", "", index)
    BY <2>1 DEF CompileAnonFuncDef
  <2>3. ~blob.crashed
    <3>1. blob.crashed => after.blob = blob
      BY <2>2 DEF State
    <3>2. QED
      BY <1>1, <3>1 DEF Spanned
  <2>4. Spanned(code, st, after, from, to)
    BY <1>1
  <2> DEFINE i == instr("CODE_PUSH_FN", "", index)
  <2>5. after.out = Append(st.out, i)
    BY <2>2, <2>3 DEF CODE, State
  <2>6. index \in Int
    <3>1. blob.literals \in Seq(literal_t)
      <4>1. e.params \in Seq(Name)
        BY <1>1, <1>3, NodeParts
      <4>2. Len(e.params) \in Nat
        BY <4>1
      <4>3. blob \in file_blob_t
        BY <1>1, <4>2, StateParts, AddLiteralIs
      <4>4. QED
        BY <4>3, BlobParts
    <3>2. QED
      BY <3>1
  <2> HIDE DEF index, after
  <2>7. i \in Bytecode /\ i.code = "CODE_PUSH_FN"
    BY <2>6, LeavesAre DEF instr
  <2> HIDE DEF i
  <2>8. st.out \in Seq(Bytecode)
    BY StateParts
  <2>9. Len(after.out) = Len(st.out) + 1 /\ after.out[Len(st.out) + 1] = i
    BY <2>5, <2>7, <2>8, KeptAppend
  <2>10. to = from + 1 /\ from + 1 \in from + 1 .. to
    BY <2>4, <2>8, <2>9 DEF Spanned
  <2>11. code[to] = i
    BY <2>4, <2>9, <2>10 DEF Spanned
  <2>12. QED
    BY <1>3, <2>7, <2>10, <2>11
<1>4. QED
  BY <1>2, <1>3

\* The nodes whose last instruction takes what their parts leave on the stack.
LEMMA SpansAssignment ==
  ASSUME NEW e, NEW code, NEW from, NEW to, Spans(e, code, from, to), e.t = "NASSIGNMENT"
  PROVE  /\ to - 1 \in Nat /\ (to - 1) + 1 = to
         /\ Spans(e.val, code, from, to - 1)
         /\ code[to] = instr("CODE_ASSIGN", e.name, 0)
<1>1. PICK h \in Nat, st \in State :
             /\ e \in NExpression(Trees[h])
             /\ ~st.blob.crashed
             /\ Compiles(ast_expr_compile[h], Trees[h])
             /\ Spanned(code, st, CompileNode(ast_expr_compile[h], e, st), from, to)
  BY SpansIs
<1> DEFINE mid == ast_expr_compile[h][e.val][st]
           after == CompileNode(ast_expr_compile[h], e, st)
           i == instr("CODE_ASSIGN", e.name, 0)
<1>2. e.val \in Trees[h] /\ e.name \in Name
  BY <1>1, NodeParts
<1>3. Continues(st, mid)
  BY <1>1, <1>2 DEF Compiles
<1>4. after = CODE(mid, "CODE_ASSIGN", e.name, 0)
  BY <1>1 DEF CompileNode
<1>5. Spanned(code, st, after, from, to)
  BY <1>1
<1>6. i \in Bytecode
  <2>1. e.name \in Chars
    BY <1>2, StringsAre
  <2>2. QED
    BY <2>1 DEF instr, Bytecode, Derp_code_type
<1>7. Emitted(mid, after, i)
  <2>1. mid \in State
    BY <1>3 DEF Continues
  <2> HIDE DEF mid
  <2>2. QED
    BY <2>1, <1>4, <1>6, EmittedIs
<1> HIDE DEF mid, after, i
<1>8. /\ to - 1 \in Nat /\ (to - 1) + 1 = to
      /\ Spanned(code, st, mid, from, to - 1)
      /\ code[to] = i
  BY <1>3, <1>5, <1>7, SpannedCode
<1>9. Spans(e.val, code, from, to - 1)
  BY <1>2, <1>8 DEF Spans, mid
<1>10. QED
  BY <1>8, <1>9 DEF i

\* The code of an operation, with the left operand's up to mid.
Operation(e, code, from, to, mid) ==
  /\ to - 1 \in Nat /\ (to - 1) + 1 = to
  /\ Spans(e.left, code, from, mid)
  /\ Spans(e.right, code, mid, to - 1)
  /\ code[to] = instr(OpCode[e.op], "", 0)

LEMMA SpansBinary ==
  ASSUME NEW e, NEW code, NEW from, NEW to, Spans(e, code, from, to), e.t = "NBINARYOP"
  PROVE  \E mid \in Nat : Operation(e, code, from, to, mid)
<1>1. PICK h \in Nat, st \in State :
             /\ e \in NExpression(Trees[h])
             /\ ~st.blob.crashed
             /\ Compiles(ast_expr_compile[h], Trees[h])
             /\ Spanned(code, st, CompileNode(ast_expr_compile[h], e, st), from, to)
  BY SpansIs
<1> DEFINE left == ast_expr_compile[h][e.left][st]
           right == ast_expr_compile[h][e.right][left]
           after == CompileNode(ast_expr_compile[h], e, st)
           op == OpCode[e.op]
           i == instr(op, "", 0)
<1>2. e.left \in Trees[h] /\ e.right \in Trees[h] /\ e.op \in DOMAIN OpCode
  BY <1>1, NodeParts
<1>3. Continues(st, left)
  BY <1>1, <1>2 DEF Compiles
<1>4. left \in State
  BY <1>3 DEF Continues
<1>5. after = CODE(right, op, "", 0)
  BY <1>1 DEF CompileNode
<1>6. Spanned(code, st, after, from, to)
  BY <1>1
<1> HIDE DEF left
<1>7. Continues(left, right)
  BY <1>1, <1>2, <1>4 DEF Compiles
<1>8. i \in Bytecode
  <2>1. op \in Derp_code_type
    BY <1>2, OperatorsAre
  <2> HIDE DEF op
  <2>2. "" \in Chars /\ 0 \in Int
    BY DEF Chars
  <2>3. QED
    BY <2>1, <2>2, InstrIs
<1>9. Emitted(right, after, i)
  <2>1. right \in State
    BY <1>7 DEF Continues
  <2> HIDE DEF right, op
  <2>2. QED
    BY <2>1, <1>5, <1>8, EmittedIs
<1> HIDE DEF right, after, op
<1>10. Continues(st, right)
  BY <1>3, <1>7, ContinuesTrans
<1> HIDE DEF i
<1>11. /\ to - 1 \in Nat /\ (to - 1) + 1 = to
       /\ Spanned(code, st, right, from, to - 1)
       /\ code[to] = i
  BY <1>6, <1>9, <1>10, SpannedCode
<1> DEFINE mid == Len(left.out)
<1>12. mid \in Nat
  BY <1>4, OutLength
<1>13. Spanned(code, st, left, from, mid) /\ Spanned(code, left, right, mid, to - 1)
  BY <1>3, <1>7, <1>11, SpannedTwice
<1> HIDE DEF mid
<1>14. Spans(e.left, code, from, mid) /\ Spans(e.right, code, mid, to - 1)
  BY <1>2, <1>4, <1>13 DEF Spans, left, right
<1>15. Operation(e, code, from, to, mid)
  BY <1>11, <1>14 DEF Operation, i, op
<1>16. QED
  BY <1>12, <1>15

LEMMA SpansArguments ==
  ASSUME NEW e, NEW code, NEW from, NEW to, Spans(e, code, from, to)
  PROVE  /\ e.t = "NARRAY" =>
              /\ to - 1 \in Nat /\ (to - 1) + 1 = to
              /\ ListSpans(e.array, code, from, to - 1)
              /\ code[to] = instr("CODE_PUSH_ARRAY", "", Len(e.array))
         /\ e.t = "NCALL" =>
              /\ to - 1 \in Nat /\ (to - 1) + 1 = to
              /\ ListSpans(e.args, code, from, to - 1)
              /\ code[to] = instr("CODE_CALL", e.name, Len(e.args))
<1>1. PICK h \in Nat, st \in State :
             /\ e \in NExpression(Trees[h])
             /\ ~st.blob.crashed
             /\ Compiles(ast_expr_compile[h], Trees[h])
             /\ Spanned(code, st, CompileNode(ast_expr_compile[h], e, st), from, to)
  BY SpansIs
<1> DEFINE after == CompileNode(ast_expr_compile[h], e, st)
           through(list) == Through(ast_expr_compile[h], list, st)
<1>2. Spanned(code, st, after, from, to)
  BY <1>1
<1>3. ASSUME NEW list \in Seq(Trees[h]), NEW i, Emitted(through(list), after, i)
      PROVE  /\ to - 1 \in Nat /\ (to - 1) + 1 = to
             /\ ListSpans(list, code, from, to - 1)
             /\ code[to] = i
  <2>1. Continues(st, ast_list_compile(ast_expr_compile[h], list, st))
    BY <1>1, ListContinues
  <2>2. Continues(st, through(list))
    BY <2>1 DEF ast_list_compile
  <2> HIDE DEF after
  <2>3. /\ to - 1 \in Nat /\ (to - 1) + 1 = to
        /\ Spanned(code, st, through(list), from, to - 1)
        /\ code[to] = i
    BY <1>2, <1>3, <2>2, SpannedCode
  <2>4. QED
    BY <2>3 DEF ListSpans
<1>4. ASSUME NEW list \in Seq(Trees[h]), NEW op \in Derp_code_type, NEW x \in Chars,
             after = CODE(ast_list_compile(ast_expr_compile[h], list, st), op, x, Len(list))
      PROVE  Emitted(through(list), after, instr(op, x, Len(list)))
  <2> DEFINE mid == through(list)
  <2>1. Continues(st, ast_list_compile(ast_expr_compile[h], list, st))
    BY <1>1, ListContinues
  <2>2. mid \in State /\ after = CODE(mid, op, x, Len(list))
    BY <1>4, <2>1 DEF ast_list_compile, Continues
  <2>3. instr(op, x, Len(list)) \in Bytecode
    BY <1>4, InstrIs
  <2> HIDE DEF mid, after
  <2>4. Emitted(mid, after, instr(op, x, Len(list)))
    BY <2>2, <2>3, EmittedIs
  <2>5. QED
    BY <2>4 DEF mid
<1>5. CASE e.t = "NARRAY"
  <2> DEFINE op == "CODE_PUSH_ARRAY"
             x == ""
             list == e.array
  <2>1. after = CODE(ast_list_compile(ast_expr_compile[h], list, st), op, x, Len(list))
    BY <1>1, <1>5 DEF CompileNode
  <2>2. list \in Seq(Trees[h])
    BY <1>1, <1>5, NodeParts
  <2>3. op \in Derp_code_type /\ x \in Chars
    BY DEF Derp_code_type, Chars
  <2> HIDE DEF op, x, list, after, through
  <2>4. Emitted(through(list), after, instr(op, x, Len(list)))
    BY <1>4, <2>1, <2>2, <2>3
  <2>5. /\ to - 1 \in Nat /\ (to - 1) + 1 = to
        /\ ListSpans(list, code, from, to - 1)
        /\ code[to] = instr(op, x, Len(list))
    BY <1>3, <2>2, <2>4
  <2>6. QED
    BY <1>5, <2>5 DEF op, x, list
<1>6. CASE e.t = "NCALL"
  <2> DEFINE op == "CODE_CALL"
             x == e.name
             list == e.args
  <2>1. after = CODE(ast_list_compile(ast_expr_compile[h], list, st), op, x, Len(list))
    BY <1>1, <1>6 DEF CompileNode
  <2>2. list \in Seq(Trees[h]) /\ x \in Chars
    BY <1>1, <1>6, NodeParts, StringsAre
  <2>3. op \in Derp_code_type
    BY DEF Derp_code_type
  <2> HIDE DEF op, x, list, after, through
  <2>4. Emitted(through(list), after, instr(op, x, Len(list)))
    BY <1>4, <2>1, <2>2, <2>3
  <2>5. /\ to - 1 \in Nat /\ (to - 1) + 1 = to
        /\ ListSpans(list, code, from, to - 1)
        /\ code[to] = instr(op, x, Len(list))
    BY <1>3, <2>2, <2>4
  <2>6. QED
    BY <1>6, <2>5 DEF op, x, list
<1>7. QED
  BY <1>5, <1>6

\* A jump that was filled in when what it skips had been compiled.
Filled(a, c, n, after) ==
  /\ a \in State /\ c \in State
  /\ n \in DOMAIN c.out /\ n > Len(a.out)
  /\ after.out = Jumping(c.out, n) /\ after.blob = c.blob

\* All but the instruction at n is as in c.
AllBut(code, c, n, from, to) ==
  /\ code \in Seq(Bytecode) /\ to <= Len(code)
  /\ Len(c.out) = to /\ ~c.blob.crashed
  /\ \A k \in from + 1 .. to : k # n => code[k] = c.out[k]

LEMMA SpannedFilled ==
  ASSUME NEW a, NEW c, NEW n, NEW after, Filled(a, c, n, after),
         NEW code, NEW from, NEW to, Spanned(code, a, after, from, to)
  PROVE  /\ AllBut(code, c, n, from, to)
         /\ n \in from + 1 .. to
         /\ code[n] = [c.out[n] EXCEPT !.arg2 = to - n]
<1>1. c.out \in Seq(Bytecode) /\ n \in DOMAIN c.out /\ Len(a.out) \in Nat
  BY StateParts DEF Filled
<1>2. /\ Len(after.out) = Len(c.out)
      /\ \A k \in DOMAIN c.out \ {n} : after.out[k] = c.out[k]
      /\ after.out[n] = [c.out[n] EXCEPT !.arg2 = Len(c.out) - n]
  BY <1>1, JumpingIs DEF Filled
<1>3. /\ code \in Seq(Bytecode) /\ to <= Len(code) /\ ~after.blob.crashed
      /\ Len(a.out) = from /\ Len(after.out) = to
      /\ \A k \in from + 1 .. to : code[k] = after.out[k]
  BY DEF Spanned
<1>4. n \in from + 1 .. to /\ n > from
  <2>1. n \in 1 .. Len(c.out) /\ n > Len(a.out) /\ Len(c.out) \in Nat
    BY <1>1 DEF Filled
  <2>2. Len(a.out) = from /\ Len(c.out) = to
    BY <1>2, <1>3
  <2>3. QED
    BY <1>1, <2>1, <2>2
<1>5. \A k \in from + 1 .. to : k \in DOMAIN c.out
  <2>1. DOMAIN c.out = 1 .. Len(c.out) /\ Len(c.out) \in Nat
    BY <1>1
  <2>2. Len(a.out) = from /\ Len(c.out) = to
    BY <1>2, <1>3
  <2>3. QED
    BY <1>1, <2>1, <2>2
<1>6. QED
  BY <1>1, <1>2, <1>3, <1>4, <1>5 DEF AllBut, Filled

LEMMA SpannedPart ==
  ASSUME NEW x \in State, NEW y \in State, NEW c, Continues(y, c),
         NEW code, NEW n \in Nat, NEW from \in Nat, NEW to, AllBut(code, c, n, from, to),
         from <= Len(x.out), n <= Len(x.out) \/ Len(y.out) < n
  PROVE  Spanned(code, x, y, Len(x.out), Len(y.out))
<1>1. y \in State /\ c \in State
  BY DEF Continues, BlobGrows, State
<1>2. Len(x.out) \in Nat /\ Len(y.out) \in Nat /\ Len(c.out) \in Nat
  BY <1>1, OutLength
<1>3. Len(y.out) <= Len(c.out) /\ \A k \in 1 .. Len(y.out) : c.out[k] = y.out[k]
  BY DEF Continues, Kept
<1>4. /\ code \in Seq(Bytecode) /\ to <= Len(code)
      /\ Len(c.out) = to /\ ~c.blob.crashed
      /\ \A k \in from + 1 .. to : k # n => code[k] = c.out[k]
  BY DEF AllBut
<1>5. \A k \in Len(x.out) + 1 .. Len(y.out) : code[k] = y.out[k]
  BY <1>2, <1>3, <1>4
<1>6. ~y.blob.crashed
  BY <1>4 DEF Continues, BlobGrows
<1>7. Len(y.out) <= Len(code)
  BY <1>2, <1>3, <1>4
<1>8. QED
  BY <1>1, <1>4, <1>5, <1>6, <1>7 DEF Spanned

\* The test of a condition: its code, and a jump that is not taken yet.
LEMMA TestIs ==
  ASSUME NEW h \in Nat, Compiles(ast_expr_compile[h], Trees[h]), NEW cond \in Trees[h],
         NEW st \in State
  PROVE  LET mid == ast_expr_compile[h][cond][st]
             test == CompileTest(ast_expr_compile[h], cond, st)
         IN  /\ Continues(st, mid) /\ Continues(mid, test)
             /\ Len(test.out) = Len(mid.out) + 1
             /\ test.out[Len(test.out)] = Untaken
<1> DEFINE mid == ast_expr_compile[h][cond][st]
           test == CompileTest(ast_expr_compile[h], cond, st)
<1>1. Continues(st, mid)
  BY DEF Compiles
<1>2. mid \in State
  BY <1>1 DEF Continues
<1>3. test = CODE(mid, "CODE_JUMP_IF_FALSE", "", 0)
  BY DEF CompileTest
<1>4. test.out = Append(mid.out, Untaken)
  BY <1>2, <1>3 DEF CODE, State, Untaken
<1> HIDE DEF mid, test
<1>5. Len(test.out) = Len(mid.out) + 1 /\ test.out[Len(mid.out) + 1] = Untaken
  BY <1>2, <1>4, JumpsAre, StateParts, KeptAppend
<1>6. Continues(mid, test)
  <2>1. "CODE_JUMP_IF_FALSE" \in Derp_code_type /\ "" \in Chars /\ 0 \in Int
    BY DEF Derp_code_type, Chars
  <2>2. Plain(Untaken)
    BY JumpsAre, JumpsWellTyped DEF Plain
  <2>3. QED
    BY <1>2, <1>3, <2>1, <2>2, CODEContinues DEF Untaken
<1>7. QED
  BY <1>1, <1>5, <1>6 DEF mid, test

LEMMA SpansIf ==
  ASSUME NEW e, NEW code, NEW from, NEW to, Spans(e, code, from, to), e.t = "NIFSTRUCTURE"
  PROVE  \E mid \in Nat :
           /\ Spans(e.expr, code, from, mid)
           /\ mid + 1 <= to
           /\ code[mid + 1] = instr("CODE_JUMP_IF_FALSE", "", to - (mid + 1))
           /\ ListSpans(e.block, code, mid + 1, to)
<1>1. PICK h \in Nat, st \in State :
             /\ e \in NExpression(Trees[h])
             /\ ~st.blob.crashed
             /\ Compiles(ast_expr_compile[h], Trees[h])
             /\ Spanned(code, st, CompileNode(ast_expr_compile[h], e, st), from, to)
  BY SpansIs
<1> DEFINE compile == ast_expr_compile[h]
           value == compile[e.expr][st]
           test == CompileTest(compile, e.expr, st)
           inner == Through(compile, e.block, test)
           n == Len(test.out)
           mid == Len(value.out)
           after == CompileNode(compile, e, st)
<1>2. e.expr \in Trees[h] /\ e.block \in Seq(Trees[h])
  BY <1>1, NodeParts
<1>3. /\ Continues(st, value) /\ Continues(value, test)
      /\ n = mid + 1 /\ test.out[n] = Untaken
  BY <1>1, <1>2, TestIs
<1>4. Spanned(code, st, after, from, to)
  BY <1>1
<1>5. after = PatchJump(ast_list_compile(compile, e.block, test), n)
  BY <1>1 DEF CompileNode, CompileIf
<1>6. after = PatchJump(inner, n)
  BY <1>5 DEF ast_list_compile
<1>7. value \in State /\ test \in State
  BY <1>3 DEF Continues
<1> HIDE DEF test, value, after
<1>8. Continues(test, inner)
  BY <1>1, <1>2, <1>7, ListContinues DEF ast_list_compile
<1>9. inner \in State
  BY <1>8 DEF Continues
<1> HIDE DEF inner, compile
<1>10. mid \in Nat /\ n \in Nat /\ Len(inner.out) \in Nat /\ Len(st.out) \in Nat
  BY <1>7, <1>9, OutLength
<1>11. Len(st.out) <= mid /\ n <= Len(inner.out)
  BY <1>3, <1>8 DEF Continues, Kept
<1>12. n \in DOMAIN inner.out /\ n > Len(st.out) /\ inner.out[n] = Untaken
  <2>1. inner.out \in Seq(Bytecode)
    BY <1>9, StateParts
  <2>2. n \in 1 .. n /\ n \in 1 .. Len(inner.out) /\ n > Len(st.out)
    BY <1>3, <1>10, <1>11
  <2>3. inner.out[n] = test.out[n]
    BY <1>8, <2>2 DEF Continues, Kept
  <2>4. QED
    BY <1>3, <2>1, <2>2, <2>3
<1>13. Filled(st, inner, n, after)
  BY <1>6, <1>9, <1>12, PatchJumpIs DEF Filled
<1>14. /\ AllBut(code, inner, n, from, to)
       /\ n \in from + 1 .. to
       /\ code[n] = [inner.out[n] EXCEPT !.arg2 = to - n]
  BY <1>4, <1>13, SpannedFilled
<1>15. from = Len(st.out) /\ from \in Nat /\ Len(inner.out) = to
  BY <1>4, <1>10, <1>14 DEF Spanned, AllBut
<1>16. Spanned(code, st, value, from, mid)
  <2>1. Continues(value, inner)
    BY <1>3, <1>7, <1>8, ContinuesTrans
  <2>2. from <= Len(st.out) /\ Len(value.out) < n
    BY <1>3, <1>10, <1>15
  <2>3. Spanned(code, st, value, Len(st.out), Len(value.out))
    BY <1>7, <1>10, <1>14, <1>15, <2>1, <2>2, SpannedPart
  <2>4. QED
    BY <1>15, <2>3
<1>17. Spanned(code, test, inner, n, to)
  <2>1. Continues(inner, inner)
    BY <1>9, ContinuesRefl
  <2>2. from <= Len(test.out) /\ n <= Len(test.out)
    BY <1>3, <1>10, <1>11, <1>15
  <2>3. Spanned(code, test, inner, Len(test.out), Len(inner.out))
    BY <1>7, <1>9, <1>10, <1>14, <1>15, <2>1, <2>2, SpannedPart
  <2>4. QED
    BY <1>15, <2>3
<1>18. Spans(e.expr, code, from, mid)
  BY <1>2, <1>16 DEF Spans, value, compile
<1>19. ListSpans(e.block, code, n, to)
  BY <1>2, <1>7, <1>17 DEF ListSpans, inner, compile
<1>20. code[n] = instr("CODE_JUMP_IF_FALSE", "", to - n)
  <2>1. code[n] = [Untaken EXCEPT !.arg2 = to - n]
    BY <1>12, <1>14
  <2>2. QED
    BY <2>1 DEF Untaken, instr
<1> HIDE DEF mid, n
<1>21. n <= to
  BY <1>10, <1>14, <1>15
<1>22. QED
  BY <1>3, <1>10, <1>18, <1>19, <1>20, <1>21

\* The code of a while loop, with the condition's up to mid.
Looped(e, code, from, to, mid) ==
  /\ Spans(e.expr, code, from, mid)
  /\ mid + 1 <= to - 1 /\ to - 1 \in Nat
  /\ code[mid + 1] = instr("CODE_JUMP_IF_FALSE", "", to - (mid + 1))
  /\ ListSpans(e.block, code, mid + 1, to - 1)
  /\ code[to] = Back(from)

LEMMA SpansWhile ==
  ASSUME NEW e, NEW code, NEW from, NEW to, Spans(e, code, from, to), e.t = "NWHILESTRUCTURE"
  PROVE  \E mid \in Nat : Looped(e, code, from, to, mid)
<1>1. PICK h \in Nat, st \in State :
             /\ e \in NExpression(Trees[h])
             /\ ~st.blob.crashed
             /\ Compiles(ast_expr_compile[h], Trees[h])
             /\ Spanned(code, st, CompileNode(ast_expr_compile[h], e, st), from, to)
  BY SpansIs
<1> DEFINE compile == ast_expr_compile[h]
           value == compile[e.expr][st]
           test == CompileTest(compile, e.expr, st)
           inner == Through(compile, e.block, test)
           start == Len(st.out)
           body == CODE(inner, "CODE_JUMP", "", start)
           n == Len(test.out)
           mid == Len(value.out)
           after == CompileNode(compile, e, st)
<1>2. e.expr \in Trees[h] /\ e.block \in Seq(Trees[h])
  BY <1>1, NodeParts
<1>3. /\ Continues(st, value) /\ Continues(value, test)
      /\ n = mid + 1 /\ test.out[n] = Untaken
  BY <1>1, <1>2, TestIs
<1>4. Spanned(code, st, after, from, to)
  BY <1>1
<1>5. after = PatchJump(CODE(ast_list_compile(compile, e.block, test), "CODE_JUMP", "", start), n)
  BY <1>1 DEF CompileNode, CompileWhile
<1>6. after = PatchJump(body, n)
  BY <1>5 DEF ast_list_compile
<1>7. value \in State /\ test \in State
  BY <1>3 DEF Continues
<1> HIDE DEF test, value, after
<1>8. Continues(test, inner)
  BY <1>1, <1>2, <1>7, ListContinues DEF ast_list_compile
<1>9. inner \in State
  BY <1>8 DEF Continues
<1> HIDE DEF inner, compile
<1>10. mid \in Nat /\ n \in Nat /\ Len(inner.out) \in Nat /\ start \in Nat
  BY <1>7, <1>9, OutLength
<1>11. start <= mid /\ n <= Len(inner.out)
  BY <1>3, <1>8 DEF Continues, Kept
<1>12. /\ body.out = Append(inner.out, Back(start)) /\ body.blob = inner.blob
       /\ body \in State
  <2>1. "CODE_JUMP" \in Derp_code_type /\ "" \in Chars /\ start \in Int
    BY <1>10 DEF Derp_code_type, Chars
  <2>2. QED
    BY <1>9, <2>1, CODEIs DEF Back
<1> HIDE DEF start, body
<1>13. inner.out \in Seq(Bytecode) /\ Back(start) \in Bytecode
  BY <1>9, <1>10, StateParts, JumpsAre
<1>14. /\ Len(body.out) = Len(inner.out) + 1
       /\ body.out[Len(inner.out) + 1] = Back(start)
       /\ \A k \in 1 .. Len(inner.out) : body.out[k] = inner.out[k]
       /\ Kept(inner.out, body.out)
       /\ body.out \in Seq(Bytecode)
  BY <1>12, <1>13, KeptAppend
<1>15. n \in DOMAIN body.out /\ n > start /\ body.out[n] = Untaken
  <2>1. n \in 1 .. n /\ n \in 1 .. Len(inner.out) /\ n > start
    BY <1>3, <1>10, <1>11
  <2>2. inner.out[n] = test.out[n]
    BY <1>8, <2>1 DEF Continues, Kept
  <2>3. n \in 1 .. Len(body.out)
    BY <1>10, <1>14, <2>1
  <2>4. QED
    BY <1>3, <1>14, <2>1, <2>2, <2>3
<1>16. Filled(st, body, n, after)
  BY <1>6, <1>12, <1>15, PatchJumpIs DEF Filled, start
<1>17. /\ AllBut(code, body, n, from, to)
       /\ n \in from + 1 .. to
       /\ code[n] = [body.out[n] EXCEPT !.arg2 = to - n]
  BY <1>4, <1>16, SpannedFilled
<1>18. from = start /\ from \in Nat /\ Len(body.out) = to /\ to = Len(inner.out) + 1
  BY <1>4, <1>10, <1>14, <1>17 DEF Spanned, AllBut, start
<1>19. AllBut(code, inner, n, from, to - 1)
  <2>1. \A k \in from + 1 .. to - 1 : k \in 1 .. Len(inner.out) /\ k \in from + 1 .. to
    BY <1>10, <1>18
  <2>2. to - 1 <= Len(code) /\ Len(inner.out) = to - 1
    BY <1>10, <1>17, <1>18 DEF AllBut
  <2>3. QED
    BY <1>12, <1>14, <1>17, <2>1, <2>2 DEF AllBut
<1>20. Spanned(code, st, value, from, mid)
  <2>1. Continues(value, inner)
    BY <1>3, <1>7, <1>8, ContinuesTrans
  <2>2. from <= Len(st.out) /\ Len(value.out) < n
    BY <1>3, <1>10, <1>18 DEF start
  <2>3. Spanned(code, st, value, Len(st.out), Len(value.out))
    BY <1>7, <1>10, <1>18, <1>19, <2>1, <2>2, SpannedPart
  <2>4. QED
    BY <1>18, <2>3 DEF start
<1>21. Spanned(code, test, inner, n, to - 1)
  <2>1. Continues(inner, inner)
    BY <1>9, ContinuesRefl
  <2>2. from <= Len(test.out) /\ n <= Len(test.out)
    BY <1>3, <1>10, <1>11, <1>18
  <2>3. Spanned(code, test, inner, Len(test.out), Len(inner.out))
    BY <1>7, <1>9, <1>10, <1>18, <1>19, <2>1, <2>2, SpannedPart
  <2>4. Len(inner.out) = to - 1
    BY <1>10, <1>18
  <2>5. QED
    BY <2>3, <2>4
<1>22. Spans(e.expr, code, from, mid)
  BY <1>2, <1>20 DEF Spans, value, compile
<1>23. ListSpans(e.block, code, n, to - 1)
  BY <1>2, <1>7, <1>21 DEF ListSpans, inner, compile
<1>24. code[n] = instr("CODE_JUMP_IF_FALSE", "", to - n)
  <2>1. code[n] = [Untaken EXCEPT !.arg2 = to - n]
    BY <1>15, <1>17
  <2>2. QED
    BY <2>1 DEF Untaken, instr
<1>25. code[to] = Back(from)
  <2>1. to \in from + 1 .. to /\ to # n /\ to = Len(inner.out) + 1
    BY <1>10, <1>11, <1>17, <1>18
  <2>2. code[to] = body.out[to]
    BY <1>17, <2>1 DEF AllBut
  <2>3. QED
    BY <1>14, <1>18, <2>2
<1>26. n <= to - 1 /\ to - 1 \in Nat
  BY <1>10, <1>11, <1>18
<1> HIDE DEF mid, n
<1>27. Looped(e, code, from, to, mid)
  BY <1>3, <1>10, <1>22, <1>23, <1>24, <1>25, <1>26 DEF Looped
<1>28. QED
  BY <1>10, <1>27

\* The elements of a list, each from where the one before ends.
Places(list, code, from, to, at) ==
  /\ at[0] = from /\ at[Len(list)] = to
  /\ \A k \in 1 .. Len(list) : Spans(list[k], code, at[k - 1], at[k])

LEMMA SpansList ==
  ASSUME NEW list, NEW code, NEW from, NEW to, ListSpans(list, code, from, to)
  PROVE  /\ from \in Nat /\ to \in Nat /\ from <= to
         /\ code \in Seq(Bytecode) /\ to <= Len(code)
         /\ Len(list) \in Nat
         /\ \E at : Places(list, code, from, to, at)
<1>1. PICK h \in Nat, st \in State :
             /\ list \in Seq(Trees[h])
             /\ Spanned(code, st, Through(ast_expr_compile[h], list, st), from, to)
  BY DEF ListSpans
<1> DEFINE f == ast_expr_compile[h]
           n == Len(list)
<1>2. Compiles(f, Trees[h])
  BY EveryTreeCompiles
<1>3. PICK after : Passes(f, list, st, after)
  BY ThroughIs
<1>4. n \in Nat
  BY <1>1
<1>5. Spanned(code, st, after[n], from, to)
  BY <1>1, <1>3 DEF Passes
<1> DEFINE Off == {k \in 0 .. n : ~ \A j \in 0 .. k : Continues(after[j], after[k])}
<1>6. Off = {}
  <2> SUFFICES ASSUME Off # {}
               PROVE  FALSE
    OBVIOUS
  <2>1. PICK k \in Off : \A j \in Off : k <= j
    <3>1. Off \in SUBSET Nat
      OBVIOUS
    <3>2. QED
      BY <3>1, TreesBy!Least
  <2>2. Continues(st, st) /\ after[0] = st
    BY <1>3, ContinuesRefl DEF Passes
  <2>3. k # 0
    BY <2>1, <2>2
  <2>4. k - 1 \in Nat /\ (k - 1) + 1 = k /\ k \in 1 .. n
    BY <2>1, <2>3
  <2>5. \A j \in 0 .. k - 1 : Continues(after[j], after[k - 1])
    BY <2>1, <2>4
  <2>6. after[k - 1] \in State
    BY <2>4, <2>5 DEF Continues
  <2>7. list[k] \in Trees[h]
    BY <1>1, <2>4
  <2>8. after[(k - 1) + 1] = f[list[(k - 1) + 1]][after[k - 1]]
    BY <1>3, <2>4 DEF Passes
  <2>9. Continues(after[k - 1], after[k])
    BY <1>2, <2>4, <2>6, <2>7, <2>8 DEF Compiles
  <2>10. after[k] \in State
    BY <2>9 DEF Continues
  <2>11. ASSUME NEW j \in 0 .. k
         PROVE  Continues(after[j], after[k])
    <3>1. CASE j = k
      BY <2>10, <3>1, ContinuesRefl
    <3>2. CASE j # k
      <4>1. j \in 0 .. k - 1
        BY <2>4, <3>2
      <4>2. Continues(after[j], after[j])
        <5>1. k - 1 \in 0 .. n /\ k - 1 < k
          BY <2>4
        <5>2. j \in 0 .. n /\ j < k /\ j \in 0 .. j
          BY <2>4, <4>1
        <5>3. j \notin Off
          BY <2>1, <5>2
        <5>4. QED
          BY <5>2, <5>3
      <4>3. after[j] \in State
        BY <4>2 DEF Continues
      <4>4. QED
        BY <2>5, <2>9, <4>1, <4>3, ContinuesTrans
    <3>3. QED
      BY <3>1, <3>2
  <2>12. QED
    BY <2>1, <2>11
<1>7. \A k \in 0 .. n : \A j \in 0 .. k : Continues(after[j], after[k])
  BY <1>6
<1> HIDE DEF Off, f
<1> DEFINE at == [k \in 0 .. n |-> Len(after[k].out)]
<1>8. at[0] = from /\ at[n] = to
  <2>1. after[0] = st
    BY <1>3 DEF Passes
  <2>2. QED
    BY <1>4, <1>5, <2>1 DEF Spanned
<1>9. ASSUME NEW k \in 1 .. n
      PROVE  Spans(list[k], code, at[k - 1], at[k])
  <2>1. k - 1 \in 0 .. n /\ k \in 0 .. n /\ n \in 0 .. n /\ k - 1 \in Nat /\ (k - 1) + 1 = k
        /\ 0 \in 0 .. k - 1 /\ k - 1 \in 0 .. k /\ k \in 0 .. n /\ k - 1 \in 0 .. n
    BY <1>4
  <2>2. /\ Continues(after[0], after[k - 1])
        /\ Continues(after[k - 1], after[n])
        /\ Continues(after[k - 1], after[k])
        /\ Continues(after[k], after[n])
    BY <1>7, <2>1
  <2>3. Spanned(code, after[0], after[n], from, to)
    BY <1>3, <1>5 DEF Passes
  <2>4. Spanned(code, after[k - 1], after[n], Len(after[k - 1].out), to)
    BY <2>2, <2>3, SpannedTwice
  <2>5. Spanned(code, after[k - 1], after[k], Len(after[k - 1].out), Len(after[k].out))
    BY <2>2, <2>4, SpannedTwice
  <2>6. after[k] = f[list[k]][after[k - 1]]
    BY <1>3, <2>1 DEF Passes
  <2>7. list[k] \in Trees[h] /\ after[k - 1] \in State
    BY <1>1, <2>2 DEF Continues
  <2>8. Spans(list[k], code, Len(after[k - 1].out), Len(after[k].out))
    BY <2>5, <2>6, <2>7 DEF Spans, f
  <2>9. QED
    BY <2>1, <2>8
<1>10. Continues(st, after[n])
  <2>1. 0 \in 0 .. n /\ n \in 0 .. n
    BY <1>4
  <2>2. QED
    BY <1>3, <1>7, <2>1 DEF Passes
<1>11. from \in Nat /\ to \in Nat /\ from <= to /\ code \in Seq(Bytecode) /\ to <= Len(code)
  BY <1>5, <1>10, OutLength DEF Continues, Kept, Spanned
<1> HIDE DEF at
<1>12. QED
  BY <1>4, <1>8, <1>9, <1>11 DEF Places

\* The code of a function: its parameters are assigned, its block is run, and
\* it returns.
LEMMA BodySpans ==
  ASSUME NEW params \in Seq(Name), NEW block, NEW code, BodyOf(params, block, code)
  PROVE  /\ code \in Seq(Bytecode)
         /\ Len(code) - 1 \in Nat
         /\ code[Len(code)] = Return
         /\ Len(params) <= Len(code) - 1
         /\ \A k \in 1 .. Len(params) : code[k] = instr("CODE_ASSIGN", params[k], 0)
         /\ ListSpans(block, code, Len(params), Len(code) - 1)
<1>1. PICK h \in Nat, st \in State :
             /\ block \in Seq(Trees[h])
             /\ st.out = AssignParams(params)
             /\ ~Through(ast_expr_compile[h], block, st).blob.crashed
             /\ code = Append(Through(ast_expr_compile[h], block, st).out, Return)
  BY DEF BodyOf
<1> DEFINE after == Through(ast_expr_compile[h], block, st)
           n == Len(after.out)
<1>2. Continues(st, after)
  BY <1>1, EveryTreeCompiles, ListContinues DEF ast_list_compile
<1>3. code = Append(after.out, Return) /\ ~after.blob.crashed
  BY <1>1
<1>4. after \in State /\ after.out \in Seq(Bytecode) /\ Kept(st.out, after.out)
  BY <1>2, StateParts DEF Continues
<1>5. /\ code \in Seq(Bytecode) /\ Len(code) = n + 1 /\ code[n + 1] = Return
      /\ \A k \in 1 .. n : code[k] = after.out[k]
  <2> HIDE DEF after
  <2>1. QED
    BY <1>3, <1>4, JumpsAre, KeptAppend
<1>6. Len(st.out) = Len(params) /\ Len(params) \in Nat
      /\ \A k \in 1 .. Len(params) : st.out[k] = instr("CODE_ASSIGN", params[k], 0)
  BY <1>1 DEF AssignParams
<1>7. n \in Nat /\ Len(params) <= n
  BY <1>4, <1>6 DEF Kept
<1>8. \A k \in 1 .. Len(params) : k \in 1 .. n /\ after.out[k] = st.out[k]
  BY <1>4, <1>6, <1>7 DEF Kept
<1>9. Spanned(code, st, after, Len(params), Len(code) - 1)
  <2> HIDE DEF after
  <2>1. Len(code) - 1 = n /\ Len(code) - 1 <= Len(code)
    BY <1>5, <1>7
  <2>2. \A k \in Len(params) + 1 .. n : k \in 1 .. n
    BY <1>6, <1>7
  <2>3. QED
    BY <1>3, <1>4, <1>5, <1>6, <2>1, <2>2 DEF Spanned
<1>10. ListSpans(block, code, Len(params), Len(code) - 1)
  BY <1>1, <1>9 DEF ListSpans
<1> HIDE DEF after
<1>11. QED
  BY <1>5, <1>6, <1>7, <1>8, <1>10

\* The code of the first function is that of the program.
LEMMA RootSpans ==
  ASSUME NEW root \in Program, ~ast_compile(root).crashed
  PROVE  LET code == ast_compile(root).fns[1].code
         IN  ListSpans(root, code, 0, Len(code))
<1>1. PICK st \in State :
        LET global == Through(ast_expr_compile[Deepest], root, st)
        IN  /\ st.out = <<>>
            /\ global \in State
            /\ ~global.blob.crashed
            /\ ast_compile(root).fns[1].code = global.out
  BY WholeTracks
<1> DEFINE global == Through(ast_expr_compile[Deepest], root, st)
           code == ast_compile(root).fns[1].code
<1>2. /\ st.out = <<>> /\ global \in State /\ ~global.blob.crashed /\ code = global.out
  BY <1>1
<1>3. Len(st.out) = 0
  BY <1>2
<1> HIDE DEF code, global
<1>4. global.out \in Seq(Bytecode) /\ Len(code) \in Nat /\ code \in Seq(Bytecode)
  BY <1>2, StateParts
<1>5. Spanned(code, st, global, 0, Len(code))
  BY <1>2, <1>3, <1>4 DEF Spanned
<1>6. root \in Seq(Trees[Deepest]) /\ Deepest \in Nat
  BY TreeAssumption DEF Program, Node
<1>7. QED
  BY <1>5, <1>6 DEF ListSpans, global, code
=============================================================================
