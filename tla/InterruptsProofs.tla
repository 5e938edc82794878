-------------------------- MODULE InterruptsProofs --------------------------
(***************************************************************************)
(* Proofs about the interrupt stubs, the EOIs and the stack, for every set *)
(* of lines, exceptions and handlers and every depth of nesting.           *)
(***************************************************************************)
EXTENDS Interrupts, TLAPS, SequenceTheorems

-----------------------------------------------------------------------------
(* The inductive invariant                                                 *)

Names == {"eflags", "cs", "eip", "err_code", "int_no", "eax", "ecx", "edx", "ebx",
          "useless", "ebp", "esi", "edi", "ds", "pointer"}
Words == [name : Names, value : Int]

Stages == {"stub", "eoi", "handler", "leave", "halted"}
Contexts == [vector : 0 .. 47, stage : Stages, base : Nat]

\* What an interrupt pushes, from its base upwards.
FrameNames == <<"eflags", "cs", "eip", "err_code", "int_no", "eax", "ecx", "edx",
                "ebx", "useless", "ebp", "esi", "edi", "ds", "pointer">>

\* How much of it is there: before the stub has run, the CPU's words only.
FrameSize(c) == IF c.stage # "stub" THEN 15
                ELSE IF PushesDummy(c.vector) THEN 3 ELSE 4

FrameEnd(c) == c.base + FrameSize(c)

FrameOK(s, c) ==
    /\ \A j \in 1 .. FrameSize(c) : s[c.base + j].name = FrameNames[j]
    /\ c.stage # "stub" => s[c.base + 5].value = c.vector

\* The frames lie on the stack without a gap, the innermost on top.
FramesOK(s, c) ==
    /\ Len(s) = IF c = <<>> THEN 0 ELSE FrameEnd(c[Len(c)])
    /\ \A k \in 1 .. Len(c) :
          /\ FrameOK(s, c[k])
          /\ c[k].base = IF k = 1 THEN 0 ELSE FrameEnd(c[k - 1])
          /\ \A j \in 1 .. k - 1 : FrameEnd(c[j]) <= c[k].base

\* What interrupts a handler is an exception, and has found IF clear; only an
\* irq stub has an EOI ahead.
NestingOK(s, c) ==
    \A k \in 1 .. Len(c) :
        /\ c[k].stage = "eoi" => c[k].vector >= 32
        /\ k > 1 => c[k].vector < 32 /\ s[c[k].base + 1].value = 0

ShapeInv == /\ stack \in Seq(Words)
            /\ ctx \in Seq(Contexts)
            /\ iflag \in BOOLEAN
StackInv == FramesOK(stack, ctx) /\ NestingOK(stack, ctx)
FlagInv == iflag => ctx = <<>>

\* Only the outermost interrupt has a line in service, its own, until its EOI.
ServiceInv ==
    \/ isr = {}
    \/ /\ ctx # <<>>
       /\ ctx[1].stage \in {"stub", "eoi"}
       /\ ctx[1].vector - 32 \in 0 .. 15 \ {2}
       /\ isr = {ctx[1].vector - 32, MasterLine(ctx[1].vector - 32)}

IInv == ShapeInv /\ StackInv /\ FlagInv /\ ServiceInv

-----------------------------------------------------------------------------
(* The words that are pushed and popped                                    *)

LEMMA WordFacts ==
    ASSUME NEW n \in Names, NEW v \in Int
    PROVE  /\ Word(n, v) \in Words /\ Word(n, v).name = n /\ Word(n, v).value = v
           /\ W(n) \in Words /\ W(n).name = n
BY DEF Word, W, Words

LEMMA ConcatFacts ==
    ASSUME NEW S, NEW a \in Seq(S), NEW b \in Seq(S)
    PROVE  /\ a \o b \in Seq(S)
           /\ Len(a \o b) = Len(a) + Len(b)
           /\ \A j \in 1 .. Len(a) : (a \o b)[j] = a[j]
           /\ \A j \in 1 .. Len(b) : (a \o b)[Len(a) + j] = b[j]
BY ConcatProperties

LEMMA WordsConcat ==
    \A a, b \in Seq(Words) :
        /\ a \o b \in Seq(Words)
        /\ Len(a \o b) = Len(a) + Len(b)
        /\ \A j \in 1 .. Len(a) : (a \o b)[j] = a[j]
        /\ \A j \in 1 .. Len(b) : (a \o b)[Len(a) + j] = b[j]
BY ConcatFacts

LEMMA ConcatTopFacts ==
    ASSUME NEW S, NEW a \in Seq(S), NEW b \in Seq(S), NEW p \in S
    PROVE  LET w == a \o b \o <<p>>
           IN  /\ w \in Seq(S)
               /\ Len(w) = Len(a) + Len(b) + 1
               /\ \A j \in 1 .. Len(a) : w[j] = a[j]
               /\ \A j \in 1 .. Len(b) : w[Len(a) + j] = b[j]
               /\ w[Len(a) + Len(b) + 1] = p
OBVIOUS

LEMMA CpuPushFacts ==
    ASSUME NEW v \in 0 .. 47, NEW cause, (cause = "exception") <=> (v < 32),
           iflag \in BOOLEAN
    PROVE  LET w == CpuPush(v, cause)
           IN  /\ w \in Seq(Words)
               /\ Len(w) = IF PushesDummy(v) THEN 3 ELSE 4
               /\ \A j \in 1 .. Len(w) : w[j].name = FrameNames[j]
               /\ w[1].value = IF iflag THEN 1 ELSE 0
<1> DEFINE f == IF iflag THEN 1 ELSE 0
           e == Word("eflags", f)
           c == W("cs")
           i == W("eip")
           x == Word("err_code", v)
<1>1. /\ e \in Words /\ e.name = "eflags" /\ e.value = f
      /\ c \in Words /\ c.name = "cs"
      /\ i \in Words /\ i.name = "eip"
      /\ x \in Words /\ x.name = "err_code"
    BY WordFacts DEF Names
<1>2. CpuFrame = <<e, c, i>>
    BY DEF CpuFrame
<1>3. CpuPush(v, cause) = IF PushesDummy(v) THEN <<e, c, i>> ELSE Append(<<e, c, i>>, x)
    BY <1>2 DEF CpuPush, PushesDummy, ErrorCodeVectors
<1> HIDE DEF f, e, c, i, x
<1>4. CASE PushesDummy(v)
    BY <1>1, <1>3, <1>4 DEF FrameNames, f
<1>5. CASE ~PushesDummy(v)
  <2> DEFINE w == Append(<<e, c, i>>, x)
  <2>1. w \in Seq(Words) /\ Len(w) = 4 /\ w[1] = e /\ w[2] = c /\ w[3] = i /\ w[4] = x
      BY <1>1
  <2> HIDE DEF w
  <2> QED
      BY <1>1, <1>3, <1>5, <2>1 DEF FrameNames, f, w
<1> QED
    BY <1>4, <1>5

StubPush(v, n) == StubNumbers(v) \o CommonPush \o <<Word("pointer", n)>>

LEMMA StubPushFacts ==
    ASSUME NEW v \in 0 .. 47, NEW n \in Int
    PROVE  LET w == StubPush(v, n)
               d == IF PushesDummy(v) THEN 3 ELSE 4
           IN  /\ w \in Seq(Words)
               /\ d + Len(w) = 15
               /\ \A j \in 1 .. Len(w) : w[j].name = FrameNames[d + j]
               /\ w[5 - d].value = v
<1> DEFINE p == Word("pointer", n)
           i == Word("int_no", v)
           x == Word("err_code", IF v >= 32 THEN v - 32 ELSE 0)
           s == StubNumbers(v)
           w == s \o CommonPush \o <<p>>
           d == IF PushesDummy(v) THEN 3 ELSE 4
<1>1. /\ p \in Words /\ p.name = "pointer"
      /\ i \in Words /\ i.name = "int_no" /\ i.value = v
      /\ x \in Words /\ x.name = "err_code"
    BY WordFacts DEF Names
<1>2. /\ CommonPush \in Seq(Words)
      /\ Len(CommonPush) = 9
      /\ \A j \in 1 .. 9 : CommonPush[j].name = FrameNames[5 + j]
  <2>1. \A n1 \in Names : W(n1) \in Words /\ W(n1).name = n1
      BY WordFacts
  <2>2. /\ CommonPush \in Seq(Words)
        /\ Len(CommonPush) = 9
      BY <2>1 DEF CommonPush, Pusha, Names
  <2>3. /\ CommonPush[1] = W("eax") /\ CommonPush[2] = W("ecx") /\ CommonPush[3] = W("edx")
        /\ CommonPush[4] = W("ebx") /\ CommonPush[5] = W("useless")
        /\ CommonPush[6] = W("ebp") /\ CommonPush[7] = W("esi") /\ CommonPush[8] = W("edi")
        /\ CommonPush[9] = W("ds")
      BY <2>1 DEF CommonPush, Pusha
  <2> QED
      BY <2>1, <2>2, <2>3 DEF FrameNames, Names
<1> HIDE DEF p, i, x
<1>3. /\ s \in Seq(Words)
      /\ d + Len(s) = 5
      /\ \A j \in 1 .. Len(s) : s[j].name = FrameNames[d + j]
      /\ s[5 - d].value = v
  <2>1. CASE PushesDummy(v)
    <3>1. s \in Seq(Words) /\ Len(s) = 2 /\ s[1] = x /\ s[2] = i
        BY <2>1, <1>1 DEF StubNumbers, x, i
    <3> QED
        BY <2>1, <3>1, <1>1 DEF FrameNames
  <2>2. CASE ~PushesDummy(v)
    <3>1. s \in Seq(Words) /\ Len(s) = 1 /\ s[1] = i
        BY <2>2, <1>1 DEF StubNumbers, i
    <3> QED
        BY <2>2, <3>1, <1>1 DEF FrameNames
  <2> QED
      BY <2>1, <2>2
<1>4. d \in {3, 4}
    OBVIOUS
<1>5. FrameNames[15] = "pointer"
    BY DEF FrameNames
<1> HIDE DEF s, d
<1>6. /\ w \in Seq(Words)
      /\ Len(w) = Len(s) + Len(CommonPush) + 1
      /\ \A j \in 1 .. Len(s) : w[j] = s[j]
      /\ \A j \in 1 .. Len(CommonPush) : w[Len(s) + j] = CommonPush[j]
      /\ w[Len(s) + Len(CommonPush) + 1] = p
  <2>1. s \in Seq(Words) /\ CommonPush \in Seq(Words) /\ p \in Words
      BY <1>1, <1>2, <1>3
  <2> QED
      BY <2>1, ConcatTopFacts
<1> HIDE DEF w
<1>7. ASSUME NEW j \in 1 .. Len(w) PROVE w[j].name = FrameNames[d + j]
  <2>1. CASE j <= Len(s)
      BY <1>3, <1>6, <2>1
  <2>2. CASE Len(s) < j /\ j <= Len(s) + 9
    <3> DEFINE m == j - Len(s)
    <3>1. m \in 1 .. 9 /\ d + j = 5 + m /\ Len(s) + m = j
        BY SMTT(30), <1>3, <1>4, <1>6, <2>2
    <3> HIDE DEF m
    <3>2. w[j] = CommonPush[m]
        BY <1>2, <1>6, <3>1
    <3> QED
        BY <1>2, <3>1, <3>2
  <2>3. CASE j > Len(s) + 9
    <3>1. d + j = 15 /\ j = Len(s) + 9 + 1
        BY SMTT(30), <1>2, <1>3, <1>4, <1>6, <2>3
    <3> QED
        BY <1>1, <1>2, <1>5, <1>6, <3>1
  <2> QED
      BY <1>3, <2>1, <2>2, <2>3
<1>8. d + Len(w) = 15 /\ w[5 - d].value = v
  <2>1. 5 - d = Len(s) /\ Len(s) \in 1 .. Len(s) /\ d + Len(w) = 15
      BY SMTT(30), <1>2, <1>3, <1>4, <1>6
  <2>2. w[5 - d] = s[5 - d]
      BY <1>6, <2>1
  <2> QED
      BY <1>3, <2>1, <2>2
<1> QED
    BY <1>6, <1>7, <1>8 DEF StubPush, s, d, p, w

\* Each field of registers_t lies where the frame has the word of its name.
LEMMA OffsetFacts ==
    /\ Len(registers_t) = 14
    /\ \A k \in 1 .. 14 : /\ Offset(registers_t[k]) = k
                          /\ registers_t[k] = FrameNames[15 - k]
    /\ Offset("int_no") = 10
BY DEF Offset, registers_t, FrameNames

-----------------------------------------------------------------------------
(* What the steps do to the frames                                         *)

LEMMA FrameSizes ==
    ASSUME NEW c \in Contexts
    PROVE  /\ FrameSize(c) \in {3, 4, 15}
           /\ FrameEnd(c) \in Nat /\ FrameEnd(c) = c.base + FrameSize(c)
           /\ c.base \in Nat /\ c.vector \in 0 .. 47 /\ c.stage \in Stages
           /\ c.stage # "stub" => FrameSize(c) = 15
BY DEF FrameSize, FrameEnd, Contexts

LEMMA FramesFit ==
    ASSUME NEW s \in Seq(Words), NEW c \in Seq(Contexts), FramesOK(s, c),
           NEW k \in 1 .. Len(c)
    PROVE  FrameEnd(c[k]) <= Len(s)
<1>1. c # <<>> /\ Len(c) \in 1 .. Len(c) /\ c[Len(c)] \in Contexts /\ c[k] \in Contexts
    OBVIOUS
<1>2. Len(s) = FrameEnd(c[Len(c)])
    BY <1>1 DEF FramesOK
<1>3. CASE k = Len(c)
    BY <1>1, <1>2, <1>3, FrameSizes
<1>4. CASE k < Len(c)
  <2>1. FrameEnd(c[k]) <= c[Len(c)].base
      BY <1>1, <1>4 DEF FramesOK
  <2> QED
      BY SMTT(30), <1>1, <1>2, <2>1, FrameSizes
<1> QED
    BY <1>3, <1>4

\* A frame depends only on the words below its end.
LEMMA FrameKept ==
    ASSUME NEW s \in Seq(Words), NEW t \in Seq(Words), NEW c \in Contexts,
           FrameOK(s, c),
           \A j \in 1 .. FrameEnd(c) : t[j] = s[j]
    PROVE  /\ FrameOK(t, c)
           /\ t[c.base + 1] = s[c.base + 1]
<1>1. \A j \in 1 .. FrameSize(c) : c.base + j \in 1 .. FrameEnd(c)
    BY SMTT(30), FrameSizes
<1>2. \A j \in 1 .. FrameSize(c) : t[c.base + j] = s[c.base + j]
    BY <1>1
<1>3. 1 \in 1 .. FrameSize(c) /\ (c.stage # "stub" => 5 \in 1 .. FrameSize(c))
    BY FrameSizes
<1> QED
    BY <1>2, <1>3 DEF FrameOK

\* The CPU pushes a new frame on top of the others.
LEMMA EnterFrames ==
    ASSUME NEW s \in Seq(Words), NEW c \in Seq(Contexts),
           FramesOK(s, c), NestingOK(s, c),
           NEW v \in 0 .. 47, c # <<>> => v < 32,
           NEW w \in Seq(Words),
           Len(w) = IF PushesDummy(v) THEN 3 ELSE 4,
           \A j \in 1 .. Len(w) : w[j].name = FrameNames[j],
           c # <<>> => w[1].value = 0
    PROVE  LET d == Append(c, [vector |-> v, stage |-> "stub", base |-> Len(s)])
           IN  d \in Seq(Contexts) /\ FramesOK(s \o w, d) /\ NestingOK(s \o w, d)
<1> DEFINE f == [vector |-> v, stage |-> "stub", base |-> Len(s)]
           d == Append(c, f)
           t == s \o w
<1>1. /\ f \in Contexts /\ f.vector = v /\ f.stage = "stub" /\ f.base = Len(s)
      /\ FrameSize(f) = Len(w) /\ FrameEnd(f) = Len(s) + Len(w)
    BY DEF Contexts, Stages, FrameSize, FrameEnd
<1>2. /\ t \in Seq(Words) /\ Len(t) = Len(s) + Len(w)
      /\ \A j \in 1 .. Len(s) : t[j] = s[j]
      /\ \A j \in 1 .. Len(w) : t[Len(s) + j] = w[j]
    BY WordsConcat, Zenon
<1> HIDE DEF f, t
<1>3. /\ d \in Seq(Contexts) /\ Len(d) = Len(c) + 1 /\ d[Len(c) + 1] = f
      /\ \A k \in 1 .. Len(c) : d[k] = c[k]
    BY <1>1
<1> HIDE DEF d
<1>4. FrameOK(t, f)
    BY <1>1, <1>2 DEF FrameOK
<1>5. t[f.base + 1] = w[1]
    BY <1>1, <1>2
<1>6. ASSUME NEW k \in 1 .. Len(c)
      PROVE  /\ FrameOK(t, c[k])
             /\ t[c[k].base + 1] = s[c[k].base + 1]
             /\ FrameEnd(c[k]) <= f.base
  <2>1. c[k] \in Contexts /\ FrameOK(s, c[k])
      BY DEF FramesOK
  <2>2. FrameEnd(c[k]) <= Len(s) /\ FrameEnd(c[k]) \in Nat
      BY <2>1, FramesFit, FrameSizes
  <2>3. \A j \in 1 .. FrameEnd(c[k]) : t[j] = s[j]
    <3>1. \A j \in 1 .. FrameEnd(c[k]) : j \in 1 .. Len(s)
        BY <2>2
    <3> QED
        BY <1>2, <3>1, Zenon
  <2> QED
      BY SMTT(30), <1>1, <1>2, <2>1, <2>2, <2>3, FrameKept
<1>7. f.base = IF Len(c) = 0 THEN 0 ELSE FrameEnd(c[Len(c)])
    BY <1>1 DEF FramesOK
<1>8. FramesOK(t, d)
  <2>1. d # <<>> /\ Len(t) = FrameEnd(d[Len(d)])
      BY <1>1, <1>2, <1>3
  <2>2. ASSUME NEW k \in 1 .. Len(d)
        PROVE  /\ FrameOK(t, d[k])
               /\ d[k].base = IF k = 1 THEN 0 ELSE FrameEnd(d[k - 1])
               /\ \A j \in 1 .. k - 1 : FrameEnd(d[j]) <= d[k].base
    <3>1. CASE k = Len(c) + 1
        BY <1>3, <1>4, <1>6, <1>7, <3>1
    <3>2. CASE k \in 1 .. Len(c)
      <4>1. /\ d[k] = c[k]
            /\ k # 1 => d[k - 1] = c[k - 1]
            /\ \A j \in 1 .. k - 1 : d[j] = c[j]
        <5>1. /\ k # 1 => k - 1 \in 1 .. Len(c)
              /\ \A j \in 1 .. k - 1 : j \in 1 .. Len(c)
            BY <3>2
        <5> QED
            BY <1>3, <3>2, <5>1
      <4> QED
          BY <1>6, <3>2, <4>1 DEF FramesOK
    <3> QED
        BY <1>3, <3>1, <3>2
  <2> QED
      BY <2>1, <2>2 DEF FramesOK
<1>9. NestingOK(t, d)
  <2> SUFFICES ASSUME NEW k \in 1 .. Len(d)
               PROVE  /\ d[k].stage = "eoi" => d[k].vector >= 32
                      /\ k > 1 => d[k].vector < 32 /\ t[d[k].base + 1].value = 0
      BY DEF NestingOK
  <2>1. CASE k = Len(c) + 1
      BY SMTT(30), <1>1, <1>3, <1>5, <2>1
  <2>2. CASE k \in 1 .. Len(c)
      BY <1>3, <1>6, <2>2 DEF NestingOK
  <2> QED
      BY <1>3, <2>1, <2>2
<1> QED
    BY <1>3, <1>8, <1>9 DEF d, f, t

LEMMA StageFacts ==
    ASSUME NEW c \in Seq(Contexts), c # <<>>, NEW stage \in Stages
    PROVE  LET d == [c EXCEPT ![Len(c)].stage = stage]
           IN  /\ d \in Seq(Contexts) /\ Len(d) = Len(c)
               /\ d[Len(c)] = [c[Len(c)] EXCEPT !.stage = stage]
               /\ \A k \in 1 .. Len(c) - 1 : d[k] = c[k]
<1>1. Len(c) \in 1 .. Len(c) /\ c[Len(c)] \in Contexts
    OBVIOUS
<1>2. [c[Len(c)] EXCEPT !.stage = stage] \in Contexts
    BY <1>1 DEF Contexts
<1> QED
    BY <1>1, <1>2, ExceptSeq

\* t is the stack s with the whole of the frame f on its top.
Completed(s, t, f) ==
    /\ Len(t) = f.base + 15
    /\ \A j \in 1 .. Len(s) : t[j] = s[j]
    /\ \A j \in 1 .. 15 : t[f.base + j].name = FrameNames[j]
    /\ t[f.base + 5].value = f.vector

\* The top frame takes another stage and the stack changes only above its CPU
\* part: the stub completes the frame, or the handler goes on.
LEMMA StageFrames ==
    ASSUME NEW s \in Seq(Words), NEW c \in Seq(Contexts), c # <<>>,
           FramesOK(s, c), NestingOK(s, c),
           NEW stage \in Stages, stage # "stub",
           stage = "eoi" => c[Len(c)].vector >= 32,
           NEW t \in Seq(Words), Completed(s, t, c[Len(c)])
    PROVE  LET d == [c EXCEPT ![Len(c)].stage = stage]
           IN  d \in Seq(Contexts) /\ FramesOK(t, d) /\ NestingOK(t, d)
<1> DEFINE n == Len(c)
           f == [c[n] EXCEPT !.stage = stage]
           d == [c EXCEPT ![n].stage = stage]
<1>1. n \in 1 .. Len(c) /\ n >= 1 /\ n \in Nat /\ c[n] \in Contexts
    OBVIOUS
<1>2. /\ f \in Contexts /\ f.vector = c[n].vector /\ f.stage = stage
      /\ f.base = c[n].base
    BY <1>1 DEF Contexts
<1>3. /\ d \in Seq(Contexts) /\ Len(d) = n /\ d[n] = f
      /\ \A k \in 1 .. n - 1 : d[k] = c[k]
    BY StageFacts
<1> HIDE DEF n, f, d
<1>4. FrameSize(f) = 15 /\ FrameEnd(f) = Len(t)
    BY <1>2 DEF FrameSize, FrameEnd, Completed, n
<1>5. FrameOK(t, f)
    BY <1>2, <1>4 DEF FrameOK, Completed, n
<1>6. ASSUME NEW k \in 1 .. n
      PROVE  /\ c[k] \in Contexts
             /\ t[c[k].base + 1] = s[c[k].base + 1]
             /\ k < n => FrameOK(t, c[k])
  <2>1. c[k] \in Contexts /\ FrameOK(s, c[k])
      BY DEF FramesOK, n
  <2>2. FrameEnd(c[k]) <= Len(s) /\ FrameEnd(c[k]) \in Nat
      BY <2>1, FramesFit, FrameSizes DEF n
  <2>3. \A j \in 1 .. FrameEnd(c[k]) : t[j] = s[j]
      BY SMTT(30), <2>2 DEF Completed
  <2> QED
      BY <2>1, <2>3, FrameKept
<1>7. FramesOK(t, d)
  <2>1. d # <<>> /\ Len(t) = FrameEnd(d[Len(d)])
      BY <1>1, <1>3, <1>4
  <2>2. ASSUME NEW k \in 1 .. Len(d)
        PROVE  /\ FrameOK(t, d[k])
               /\ d[k].base = IF k = 1 THEN 0 ELSE FrameEnd(d[k - 1])
               /\ \A j \in 1 .. k - 1 : FrameEnd(d[j]) <= d[k].base
    <3>1. /\ k # 1 => k - 1 \in 1 .. n - 1
          /\ \A j \in 1 .. k - 1 : j \in 1 .. n - 1
          /\ k \in 1 .. n /\ (k = n \/ k \in 1 .. n - 1)
        BY <1>1, <1>3
    <3>2. /\ d[k].base = c[k].base
          /\ k # 1 => d[k - 1] = c[k - 1]
          /\ \A j \in 1 .. k - 1 : d[j] = c[j]
        BY <1>2, <1>3, <3>1
    <3>3. FrameOK(t, d[k])
      <4>1. CASE k = n
          BY <1>3, <1>5, <4>1
      <4>2. CASE k \in 1 .. n - 1
          BY <1>1, <1>3, <1>6, <4>2
      <4> QED
          BY <3>1, <4>1, <4>2
    <3>4. /\ c[k].base = IF k = 1 THEN 0 ELSE FrameEnd(c[k - 1])
          /\ \A j \in 1 .. k - 1 : FrameEnd(c[j]) <= c[k].base
        BY <3>1 DEF FramesOK, n
    <3> QED
        BY <3>2, <3>3, <3>4
  <2> QED
      BY <2>1, <2>2 DEF FramesOK
<1>8. NestingOK(t, d)
  <2> SUFFICES ASSUME NEW k \in 1 .. n
               PROVE  /\ d[k].stage = "eoi" => d[k].vector >= 32
                      /\ k > 1 => d[k].vector < 32 /\ t[d[k].base + 1].value = 0
      BY <1>3 DEF NestingOK
  <2>1. /\ c[k].stage = "eoi" => c[k].vector >= 32
        /\ k > 1 => c[k].vector < 32 /\ s[c[k].base + 1].value = 0
      BY DEF NestingOK, n
  <2>2. CASE k = n
      BY <1>2, <1>3, <1>6, <2>1, <2>2 DEF n
  <2>3. CASE k \in 1 .. n - 1
      BY <1>3, <1>6, <2>1, <2>3
  <2> QED
      BY <1>1, <2>2, <2>3
<1> QED
    BY <1>3, <1>7, <1>8 DEF d, n

\* iret leaves the frames below the top one as they were.
LEMMA LeaveFrames ==
    ASSUME NEW s \in Seq(Words), NEW c \in Seq(Contexts), c # <<>>,
           FramesOK(s, c), NestingOK(s, c),
           NEW t \in Seq(Words),
           Len(t) = c[Len(c)].base,
           \A j \in 1 .. Len(t) : t[j] = s[j],
           NEW d \in Seq(Contexts),
           Len(d) = Len(c) - 1,
           \A k \in 1 .. Len(d) : d[k] = c[k]
    PROVE  FramesOK(t, d) /\ NestingOK(t, d)
<1> DEFINE n == Len(d)
<1>1. /\ n \in Nat /\ Len(c) = n + 1 /\ n + 1 \in 1 .. Len(c) /\ c[n + 1] \in Contexts
      /\ \A k \in 1 .. n : k \in 1 .. Len(c)
    OBVIOUS
<1>2. /\ c[n + 1].base = IF n = 0 THEN 0 ELSE FrameEnd(c[n])
      /\ \A j \in 1 .. n : FrameEnd(c[j]) <= c[n + 1].base
  <2>1. /\ c[n + 1].base = IF n + 1 = 1 THEN 0 ELSE FrameEnd(c[(n + 1) - 1])
        /\ \A j \in 1 .. (n + 1) - 1 : FrameEnd(c[j]) <= c[n + 1].base
      BY <1>1 DEF FramesOK
  <2>2. (n + 1) - 1 = n /\ (n + 1 = 1 <=> n = 0)
      BY <1>1
  <2> QED
      BY <2>1, <2>2
<1>3. ASSUME NEW k \in 1 .. n
      PROVE  /\ FrameOK(t, c[k])
             /\ t[c[k].base + 1] = s[c[k].base + 1]
  <2>1. c[k] \in Contexts /\ FrameOK(s, c[k])
      BY <1>1 DEF FramesOK
  <2>2. FrameEnd(c[k]) <= Len(t) /\ FrameEnd(c[k]) \in Nat
      BY <1>1, <1>2, <2>1, FrameSizes
  <2>3. \A j \in 1 .. FrameEnd(c[k]) : t[j] = s[j]
      BY <2>2
  <2> QED
      BY <2>1, <2>3, FrameKept
<1>4. FramesOK(t, d)
  <2>1. Len(t) = IF d = <<>> THEN 0 ELSE FrameEnd(d[Len(d)])
      BY SMTT(30), <1>1, <1>2
  <2>2. ASSUME NEW k \in 1 .. n
        PROVE  /\ FrameOK(t, d[k])
               /\ d[k].base = IF k = 1 THEN 0 ELSE FrameEnd(d[k - 1])
               /\ \A j \in 1 .. k - 1 : FrameEnd(d[j]) <= d[k].base
    <3>1. /\ k # 1 => k - 1 \in 1 .. n
          /\ \A j \in 1 .. k - 1 : j \in 1 .. n
        BY <1>1
    <3>2. /\ d[k] = c[k]
          /\ k # 1 => d[k - 1] = c[k - 1]
          /\ \A j \in 1 .. k - 1 : d[j] = c[j]
        BY <3>1
    <3>3. /\ c[k].base = IF k = 1 THEN 0 ELSE FrameEnd(c[k - 1])
          /\ \A j \in 1 .. k - 1 : FrameEnd(c[j]) <= c[k].base
        BY <1>1 DEF FramesOK
    <3> QED
        BY <1>3, <3>2, <3>3
  <2> QED
      BY <2>1, <2>2 DEF FramesOK
<1>5. NestingOK(t, d)
  <2> SUFFICES ASSUME NEW k \in 1 .. n
               PROVE  /\ d[k].stage = "eoi" => d[k].vector >= 32
                      /\ k > 1 => d[k].vector < 32 /\ t[d[k].base + 1].value = 0
      BY DEF NestingOK
  <2>1. /\ c[k].stage = "eoi" => c[k].vector >= 32
        /\ k > 1 => c[k].vector < 32 /\ s[c[k].base + 1].value = 0
      BY <1>1 DEF NestingOK
  <2> QED
      BY <1>3, <2>1
<1> QED
    BY <1>4, <1>5

-----------------------------------------------------------------------------
(* What a handler reads, and the end of interrupt                          *)

LEMMA TopFacts ==
    ASSUME ShapeInv, StackInv, ctx # <<>>
    PROVE  /\ Len(ctx) \in 1 .. Len(ctx) /\ Top = ctx[Len(ctx)] /\ Top \in Contexts
           /\ FrameOK(stack, Top) /\ Len(stack) = FrameEnd(Top)
<1>1. Len(ctx) \in 1 .. Len(ctx) /\ ctx[Len(ctx)] \in Contexts
    BY DEF ShapeInv
<1> QED
    BY <1>1 DEF StackInv, FramesOK, Top, Last

LEMMA TopFrame ==
    ASSUME ShapeInv, StackInv, ctx # <<>>, Top.stage # "stub"
    PROVE  /\ Len(stack) = Top.base + 15 /\ Top.base \in Nat /\ Len(stack) \in Nat
           /\ \A j \in 1 .. 15 : stack[Top.base + j].name = FrameNames[j]
           /\ stack[Top.base + 5].value = Top.vector
BY TopFacts, FrameSizes DEF FrameOK

LEMMA RegsFacts ==
    ASSUME ShapeInv, StackInv, ctx # <<>>, Top.stage # "stub"
    PROVE  /\ \A k \in 1 .. 14 : RegsWord(registers_t[k]).name = registers_t[k]
           /\ RegsField("int_no") = Top.vector
<1> DEFINE b == Top.base
<1>0. Len(stack) = b + 15 /\ b \in Nat
    BY TopFrame
<1> HIDE DEF b
<1>1. ASSUME NEW k \in 1 .. 14
      PROVE  RegsWord(registers_t[k]).name = registers_t[k]
  <2>1. RegsWord(registers_t[k]) = stack[Len(stack) - k]
      BY OffsetFacts DEF RegsWord, Nth
  <2>2. Len(stack) - k = b + (15 - k) /\ 15 - k \in 1 .. 15
      BY <1>0
  <2>3. stack[b + (15 - k)].name = FrameNames[15 - k]
      BY <2>2, TopFrame DEF b
  <2> QED
      BY <2>1, <2>2, <2>3, OffsetFacts
<1>2. RegsField("int_no") = Top.vector
  <2>1. RegsField("int_no") = stack[Len(stack) - 10].value
      BY OffsetFacts DEF RegsField, RegsWord, Nth
  <2>2. Len(stack) - 10 = b + 5
      BY <1>0
  <2> QED
      BY <2>1, <2>2, TopFrame DEF b
<1> QED
    BY <1>1, <1>2

LEMMA HighestOne ==
    ASSUME NEW i \in Int PROVE Highest({i}) = i
BY DEF Highest

\* The EOIs that irq_handler sends for a line end its service in both PICs.
LEMMA EoiEnds ==
    ASSUME NEW i \in 0 .. 15 \ {2}, isr = {} \/ isr = {i, MasterLine(i)}
    PROVE  EoiTo(32 + i) = {}
<1>1. EoiMaster({}) = {} /\ EoiSlave({}) = {}
    BY DEF EoiMaster, EoiSlave
<1>2. ASSUME NEW j \in 0 .. 7 PROVE EoiMaster({j}) = {}
  <2>1. {l \in {j} : ~Slave(l)} = {j} /\ Highest({j}) = j
      BY HighestOne DEF Slave
  <2> QED
      BY <2>1 DEF EoiMaster
<1>3. CASE isr = {}
    BY <1>1, <1>3 DEF EoiTo
<1>4. CASE isr = {i, MasterLine(i)} /\ i < 8
  <2>1. isr = {i} /\ ~(32 + i >= 40)
      BY <1>4 DEF MasterLine, Slave
  <2> QED
      BY SMTT(30), <1>2, <1>4, <2>1 DEF EoiTo
<1>5. CASE isr = {i, MasterLine(i)} /\ i >= 8
  <2>1. isr = {i, 2} /\ 32 + i >= 40
      BY <1>5 DEF MasterLine, Slave
  <2>2. {l \in isr : Slave(l)} = {i} /\ Highest({i}) = i
      BY <1>5, <2>1, HighestOne DEF Slave
  <2>3. EoiSlave(isr) = {2}
      BY <2>1, <2>2 DEF EoiSlave
  <2>4. EoiTo(32 + i) = EoiMaster({2})
      BY <2>1, <2>3 DEF EoiTo
  <2> QED
      BY <1>2, <2>4
<1> QED
    BY <1>3, <1>4, <1>5

-----------------------------------------------------------------------------
(* The steps                                                               *)

LEMMA EnterStep ==
    ASSUME IInv, NEW v \in 0 .. 47, NEW cause, (cause = "exception") <=> (v < 32),
           ctx # <<>> => v < 32,
           Enter(v, cause)
    PROVE  /\ ShapeInv' /\ StackInv' /\ FlagInv'
           /\ ctx' # <<>>
           /\ ctx'[1] = IF ctx = <<>> THEN [vector |-> v, stage |-> "stub",
                                            base |-> Len(stack)]
                        ELSE ctx[1]
<1> DEFINE w == CpuPush(v, cause)
           f == [vector |-> v, stage |-> "stub", base |-> Len(stack)]
           d == Append(ctx, f)
<1>1. /\ stack \in Seq(Words) /\ ctx \in Seq(Contexts) /\ iflag \in BOOLEAN
      /\ FramesOK(stack, ctx) /\ NestingOK(stack, ctx)
      /\ ctx # <<>> => ~iflag
    BY DEF IInv, ShapeInv, StackInv, FlagInv
<1>2. /\ w \in Seq(Words)
      /\ Len(w) = IF PushesDummy(v) THEN 3 ELSE 4
      /\ \A j \in 1 .. Len(w) : w[j].name = FrameNames[j]
      /\ w[1].value = IF iflag THEN 1 ELSE 0
    BY <1>1, CpuPushFacts
<1>3. ctx # <<>> => w[1].value = 0
    BY <1>1, <1>2
<1>4. stack' = stack \o w /\ ctx' = d /\ iflag' = FALSE
    BY DEF Enter, Push
<1> HIDE DEF w
<1>5. d \in Seq(Contexts) /\ FramesOK(stack \o w, d) /\ NestingOK(stack \o w, d)
    BY <1>1, <1>2, <1>3, EnterFrames
<1>6. stack \o w \in Seq(Words)
    BY <1>1, <1>2, WordsConcat
<1>7. d # <<>> /\ d[1] = IF ctx = <<>> THEN f ELSE ctx[1]
  <2>1. /\ Len(ctx) \in Nat /\ (ctx = <<>> <=> Len(ctx) = 0)
        /\ Len(d) = Len(ctx) + 1 /\ d[Len(ctx) + 1] = f
        /\ \A k \in 1 .. Len(ctx) : d[k] = ctx[k]
      BY <1>1
  <2> HIDE DEF d, f
  <2>2. CASE ctx = <<>>
      BY <2>1, <2>2
  <2>3. CASE ctx # <<>>
      BY <2>1, <2>3
  <2> QED
      BY <2>2, <2>3
<1> QED
    BY <1>4, <1>5, <1>6, <1>7 DEF ShapeInv, StackInv, FlagInv

\* A step of the top interrupt to another stage, with its frame complete.
LEMMA StageStep ==
    ASSUME IInv, ctx # <<>>, NEW stage \in Stages, stage # "stub",
           stage = "eoi" => Top.vector >= 32,
           stack' \in Seq(Words), Completed(stack, stack', Top),
           ctx' = SetStage(stage), iflag' = iflag
    PROVE  /\ ShapeInv' /\ StackInv' /\ FlagInv'
           /\ ctx' # <<>>
           /\ Len(ctx) > 1 => ctx'[1] = ctx[1]
           /\ Len(ctx) = 1 => /\ ctx'[1].vector = ctx[1].vector
                              /\ ctx'[1].stage = stage
<1> DEFINE d == [ctx EXCEPT ![Len(ctx)].stage = stage]
<1>1. /\ stack \in Seq(Words) /\ ctx \in Seq(Contexts) /\ iflag \in BOOLEAN
      /\ FramesOK(stack, ctx) /\ NestingOK(stack, ctx) /\ ~iflag
      /\ Top = ctx[Len(ctx)]
    BY TopFacts DEF IInv, ShapeInv, StackInv, FlagInv
<1>2. ctx' = d
    BY DEF SetStage
<1>3. d \in Seq(Contexts) /\ FramesOK(stack', d) /\ NestingOK(stack', d)
    BY <1>1, StageFrames
<1>4. /\ Len(d) = Len(ctx) /\ d[Len(ctx)] = [ctx[Len(ctx)] EXCEPT !.stage = stage]
      /\ \A k \in 1 .. Len(ctx) - 1 : d[k] = ctx[k]
    BY <1>1, StageFacts
<1> HIDE DEF d
<1>5. /\ d # <<>>
      /\ Len(ctx) > 1 => d[1] = ctx[1]
      /\ Len(ctx) = 1 => d[1].vector = ctx[1].vector /\ d[1].stage = stage
  <2>1. Len(ctx) \in Nat /\ Len(ctx) >= 1 /\ ctx[1] \in Contexts
      BY <1>1
  <2>2. d # <<>>
      BY <1>3, <1>4, <2>1
  <2>3. Len(ctx) > 1 => 1 \in 1 .. Len(ctx) - 1
      BY <2>1
  <2>4. Len(ctx) = 1 => d[1] = [ctx[1] EXCEPT !.stage = stage]
      BY <1>4
  <2>5. /\ [ctx[1] EXCEPT !.stage = stage].vector = ctx[1].vector
        /\ [ctx[1] EXCEPT !.stage = stage].stage = stage
      BY <2>1 DEF Contexts
  <2> QED
      BY <1>4, <2>2, <2>3, <2>4, <2>5
<1> QED
    BY <1>1, <1>2, <1>3, <1>5 DEF ShapeInv, StackInv, FlagInv

\* The stages after the stub leave the stack alone.
LEMMA Unmoved ==
    ASSUME IInv, ctx # <<>>, Top.stage # "stub", stack' = stack
    PROVE  stack' \in Seq(Words) /\ Completed(stack, stack', Top)
BY TopFrame DEF IInv, ShapeInv, Completed

\* Only an exception interrupts an interrupt.
LEMMA IrqOutermost ==
    ASSUME IInv, ctx # <<>>, Top.vector >= 32
    PROVE  Len(ctx) = 1 /\ Top = ctx[1]
<1> DEFINE v == Top.vector
           n == Len(ctx)
<1>1. n \in 1 .. n /\ Top = ctx[n] /\ Top \in Contexts
    BY TopFacts DEF IInv
<1>2. v \in 0 .. 47
    BY <1>1, FrameSizes
<1>3. n > 1 => ctx[n].vector < 32
    BY <1>1 DEF IInv, StackInv, NestingOK
<1>4. n > 1 => v < 32
    BY <1>1, <1>3
<1>5. v >= 32 /\ n \in Nat
    BY DEF IInv, ShapeInv
<1>6. n = 1
  <2> HIDE DEF v, n
  <2> QED
      BY <1>1, <1>2, <1>4, <1>5
<1> QED
    BY <1>1, <1>6

LEMMA Depth ==
    ASSUME ShapeInv, ctx # <<>> PROVE Len(ctx) = 1 \/ Len(ctx) > 1
<1> DEFINE n == Len(ctx)
<1>1. n \in Nat /\ n # 0
    BY DEF ShapeInv
<1> HIDE DEF n
<1>2. n = 1 \/ n > 1
    BY <1>1
<1> QED
    BY <1>2 DEF n

LEMMA RaiseStep ==
    ASSUME IInv, NEW i \in IRQs, raise(i) PROVE IInv'
BY DEF IInv, ShapeInv, StackInv, FlagInv, ServiceInv, FramesOK, NestingOK, FrameOK,
       raise

LEMMA FlagStep ==
    ASSUME IInv, main_cli \/ main_sti PROVE IInv'
<1>1. ctx = <<>> /\ ctx' = ctx /\ stack' = stack /\ isr' = isr /\ iflag' \in BOOLEAN
    BY DEF main_cli, main_sti, InMain
<1> QED
    BY <1>1 DEF IInv, ShapeInv, StackInv, FlagInv, ServiceInv, FramesOK, NestingOK,
                FrameOK

LEMMA AcceptStep ==
    ASSUME IInv, NEW i \in IRQs, accept(i) PROVE IInv'
<1>1. i \in 0 .. 15 \ {2} /\ 32 + i \in 0 .. 47 /\ ~(32 + i < 32)
    BY InterruptAssumption
<1>2. iflag /\ ctx = <<>> /\ isr = {}
    BY DEF IInv, FlagInv, ServiceInv, accept
<1>3. Enter(32 + i, "irq") /\ isr' = {i, MasterLine(i)}
    BY <1>2 DEF accept, Acknowledged
<1>4. /\ ShapeInv' /\ StackInv' /\ FlagInv'
      /\ ctx' # <<>>
      /\ ctx'[1] = [vector |-> 32 + i, stage |-> "stub", base |-> Len(stack)]
    BY <1>1, <1>2, <1>3, EnterStep
<1>5. ctx'[1].vector - 32 = i /\ ctx'[1].stage = "stub"
    BY <1>1, <1>4
<1>6. ServiceInv'
    BY <1>1, <1>3, <1>4, <1>5 DEF ServiceInv
<1> QED
    BY <1>4, <1>6 DEF IInv

LEMMA ExceptionStep ==
    ASSUME IInv, NEW v \in Exceptions, exception(v) PROVE IInv'
<1>1. v \in 0 .. 47 /\ v < 32
    BY InterruptAssumption
<1>2. Enter(v, "exception") /\ isr' = isr
    BY DEF exception
<1>3. /\ ShapeInv' /\ StackInv' /\ FlagInv'
      /\ ctx' # <<>>
      /\ ctx # <<>> => ctx'[1] = ctx[1]
    BY <1>1, <1>2, EnterStep
<1>4. ServiceInv'
    BY <1>2, <1>3 DEF IInv, ServiceInv
<1> QED
    BY <1>3, <1>4 DEF IInv

LEMMA ScheduleStep ==
    ASSUME IInv, schedule_noirq PROVE IInv'
<1>1. ctx = <<>> /\ isr' = isr /\ Enter(46, "int") /\ 46 \in 0 .. 47
    BY DEF schedule_noirq, InMain
<1>2. ("int" = "exception") <=> (46 < 32)
    OBVIOUS
<1>3. ShapeInv' /\ StackInv' /\ FlagInv'
    BY <1>1, <1>2, EnterStep
<1>4. ServiceInv'
    BY <1>1 DEF IInv, ServiceInv
<1> QED
    BY <1>3, <1>4 DEF IInv

LEMMA StubCompletes ==
    ASSUME IInv, ctx # <<>>, Top.stage = "stub"
    PROVE  LET t == stack \o StubPush(Top.vector, Len(stack))
           IN  t \in Seq(Words) /\ Completed(stack, t, Top)
<1> DEFINE v == Top.vector
           b == Top.base
           w == StubPush(v, Len(stack))
           d == IF PushesDummy(v) THEN 3 ELSE 4
           t == stack \o w
<1>1. /\ stack \in Seq(Words) /\ Top \in Contexts /\ FrameOK(stack, Top)
      /\ Len(stack) = FrameEnd(Top)
    BY TopFacts DEF IInv, ShapeInv
<1>2. v \in 0 .. 47 /\ b \in Nat /\ Len(stack) \in Int
    BY <1>1, FrameSizes
<1>3. FrameSize(Top) = d /\ Len(stack) = b + d
    BY <1>1 DEF FrameSize, FrameEnd
<1>4. \A j \in 1 .. d : stack[b + j].name = FrameNames[j]
    BY <1>1, <1>3 DEF FrameOK
<1>5. /\ w \in Seq(Words)
      /\ d + Len(w) = 15
      /\ \A j \in 1 .. Len(w) : w[j].name = FrameNames[d + j]
      /\ w[5 - d].value = v
  <2> HIDE DEF v
  <2> QED
      BY <1>2, StubPushFacts
<1>6. d \in {3, 4}
    OBVIOUS
<1> HIDE DEF v, b, w, d
<1>7. /\ t \in Seq(Words)
      /\ Len(t) = Len(stack) + Len(w)
      /\ \A j \in 1 .. Len(stack) : t[j] = stack[j]
      /\ \A j \in 1 .. Len(w) : t[Len(stack) + j] = w[j]
    BY <1>1, <1>5, WordsConcat, Zenon
<1> HIDE DEF t
<1>8. Len(t) = b + 15
    BY <1>2, <1>3, <1>5, <1>6, <1>7
<1>9. ASSUME NEW j \in 1 .. 15 PROVE t[b + j].name = FrameNames[j]
  <2>1. CASE j <= d
    <3>1. b + j \in 1 .. Len(stack)
        BY <1>2, <1>3, <1>6, <2>1
    <3> QED
        BY <1>4, <1>6, <1>7, <2>1, <3>1
  <2>2. CASE j > d
    <3> DEFINE m == j - d
    <3>1. m \in 1 .. Len(w) /\ b + j = Len(stack) + m /\ d + m = j
        BY <1>2, <1>3, <1>5, <1>6, <2>2
    <3> HIDE DEF m
    <3> QED
        BY <1>5, <1>7, <3>1
  <2> QED
      BY <1>6, <2>1, <2>2
<1>10. t[b + 5].value = v
  <2> DEFINE m == 5 - d
  <2>1. m \in 1 .. Len(w) /\ b + 5 = Len(stack) + m
      BY <1>2, <1>3, <1>5, <1>6
  <2>2. w[m].value = v
      BY <1>5
  <2> HIDE DEF m
  <2> QED
      BY <1>7, <2>1, <2>2
<1> QED
    BY <1>7, <1>8, <1>9, <1>10 DEF Completed, t, w, v, b

LEMMA StubEnterStep ==
    ASSUME IInv, stub_enter PROVE IInv'
<1> DEFINE v == Top.vector
           stage == IF v < 32 THEN "handler" ELSE "eoi"
<1>1. /\ ctx # <<>> /\ Top.stage = "stub" /\ isr' = isr /\ iflag' = iflag
      /\ ctx' = SetStage(stage)
      /\ stack' = stack \o StubPush(Top.vector, Len(stack))
    BY DEF stub_enter, Stage, Push, StubPush
<1>2. stack' \in Seq(Words) /\ Completed(stack, stack', Top)
    BY <1>1, StubCompletes
<1>3. /\ v \in 0 .. 47 /\ Len(ctx) \in Nat /\ Len(ctx) >= 1
      /\ Top = ctx[Len(ctx)]
    BY <1>1, TopFacts, FrameSizes DEF IInv, ShapeInv
<1>4. stage \in Stages /\ stage # "stub" /\ (stage = "eoi" <=> v >= 32)
  <2> HIDE DEF v
  <2> QED
      BY <1>3 DEF Stages
<1> HIDE DEF stage
<1>5. /\ ShapeInv' /\ StackInv' /\ FlagInv'
      /\ ctx' # <<>>
      /\ Len(ctx) > 1 => ctx'[1] = ctx[1]
      /\ Len(ctx) = 1 => /\ ctx'[1].vector = ctx[1].vector
                         /\ ctx'[1].stage = stage
    BY <1>1, <1>2, <1>4, StageStep
<1>6. ServiceInv'
  <2>1. CASE isr = {}
      BY <1>1, <2>1 DEF ServiceInv
  <2>2. CASE isr # {}
    <3>1. /\ ctx[1].stage \in {"stub", "eoi"}
          /\ ctx[1].vector - 32 \in 0 .. 15 \ {2}
          /\ isr = {ctx[1].vector - 32, MasterLine(ctx[1].vector - 32)}
        BY <2>2 DEF IInv, ServiceInv
    <3>2. CASE Len(ctx) > 1
        BY <1>1, <1>5, <3>1, <3>2 DEF ServiceInv
    <3>3. CASE Len(ctx) = 1
      <4>1. Top.vector >= 32
          BY <1>3, <3>1, <3>3
      <4> QED
          BY <1>1, <1>4, <1>5, <3>1, <3>3, <4>1 DEF ServiceInv
    <3> QED
      <4> DEFINE len == Len(ctx)
      <4>2. len \in Nat /\ len >= 1
          BY <1>3
      <4> HIDE DEF len
      <4>3. len > 1 \/ len = 1
          BY ONLY <4>2
      <4>1. Len(ctx) > 1 \/ Len(ctx) = 1
          BY ONLY <4>3 DEF len
      <4> QED
          BY <3>2, <3>3, <4>1
  <2> QED
      BY <2>1, <2>2
<1> QED
    BY <1>5, <1>6 DEF IInv

LEMMA EoiStep ==
    ASSUME IInv, irq_handler_eoi PROVE IInv'
<1>1. /\ ctx # <<>> /\ Top.stage = "eoi" /\ iflag' = iflag /\ stack' = stack
      /\ ctx' = SetStage("handler")
      /\ isr' = EoiTo(RegsField("int_no"))
    BY DEF irq_handler_eoi, Stage
<1>2. "handler" \in Stages /\ "handler" # "stub" /\ "handler" # "eoi"
    BY DEF Stages
<1>3. ShapeInv' /\ StackInv' /\ FlagInv'
    BY <1>1, <1>2, Unmoved, StageStep
<1>4. Top = ctx[Len(ctx)] /\ Len(ctx) \in 1 .. Len(ctx)
    BY <1>1, TopFacts DEF IInv
<1>5. Top.vector >= 32
    BY <1>1, <1>4 DEF IInv, StackInv, NestingOK
<1>6. Len(ctx) = 1 /\ Top = ctx[1]
    BY <1>1, <1>5, IrqOutermost
<1>7. RegsField("int_no") = Top.vector
    BY <1>1, RegsFacts DEF IInv
<1>8. isr' = {}
  <2>1. CASE isr = {}
    <3>1. \A n : EoiTo(n) = {}
        BY <2>1 DEF EoiTo, EoiMaster, EoiSlave
    <3> QED
        BY <1>1, <3>1
  <2>2. CASE isr # {}
    <3> DEFINE i == ctx[1].vector - 32
    <3>1. i \in 0 .. 15 \ {2} /\ isr = {i, MasterLine(i)}
        BY <2>2 DEF IInv, ServiceInv
    <3>2. ctx[1].vector = 32 + i
      <4>1. ctx[1] \in Contexts
          BY <1>1, <1>6, TopFacts DEF IInv
      <4>2. ctx[1].vector \in 0 .. 47
          BY <4>1, FrameSizes
      <4> QED
          BY <4>2
    <3> HIDE DEF i
    <3> QED
        BY <1>1, <1>6, <1>7, <3>1, <3>2, EoiEnds
  <2> QED
      BY <2>1, <2>2
<1> QED
    BY <1>3, <1>8 DEF IInv, ServiceInv

\* A handler runs with its line out of service.
LEMMA HandlerService ==
    ASSUME IInv, ctx # <<>>, Top.stage \in {"handler", "leave"}, Len(ctx) = 1
    PROVE  isr = {}
BY TopFacts DEF IInv, ServiceInv

LEMMA HandlerStep ==
    ASSUME IInv, handler_return \/ handler_halt PROVE IInv'
<1>1. PICK stage \in {"leave", "halted"} : ctx' = SetStage(stage)
    BY DEF handler_return, handler_halt
<1>2. /\ ctx # <<>> /\ Top.stage = "handler" /\ isr' = isr /\ iflag' = iflag
      /\ stack' = stack
    BY DEF handler_return, handler_halt, Stage
<1>3. stage \in Stages /\ stage # "stub" /\ stage # "eoi"
    BY DEF Stages
<1>4. /\ ShapeInv' /\ StackInv' /\ FlagInv'
      /\ ctx' # <<>>
      /\ Len(ctx) > 1 => ctx'[1] = ctx[1]
    BY <1>1, <1>2, <1>3, Unmoved, StageStep
<1>5. ServiceInv'
  <2>1. CASE Len(ctx) = 1
      BY <1>2, <2>1, HandlerService DEF ServiceInv
  <2>2. CASE Len(ctx) > 1
      BY <1>2, <1>4, <2>2 DEF IInv, ServiceInv
  <2>3. Len(ctx) = 1 \/ Len(ctx) > 1
      BY <1>2, Depth DEF IInv
  <2> QED
      BY <2>1, <2>2, <2>3
<1> QED
    BY <1>4, <1>5 DEF IInv

LEMMA SwitchStep ==
    ASSUME IInv, handler_switch PROVE IInv'
<1>1. /\ ctx # <<>> /\ Top.stage = "handler" /\ isr' = isr /\ iflag' = TRUE
      /\ stack' = <<>> /\ ctx' = <<>> /\ HandlerOf(RegsField("int_no")) = "switch"
    BY DEF handler_switch, Stage
<1>2. RegsField("int_no") = Top.vector
    BY <1>1, RegsFacts DEF IInv
<1>3. Top.vector >= 32
    BY <1>1, <1>2, InterruptAssumption DEF HandlerOf
<1>4. isr = {}
    BY <1>1, <1>3, IrqOutermost, HandlerService
<1> QED
    BY <1>1, <1>4 DEF IInv, ShapeInv, StackInv, FlagInv, ServiceInv, FramesOK,
                      NestingOK

LEMMA PopFacts ==
    ASSUME NEW s \in Seq(Words), NEW n \in Nat, NEW m \in Nat, Len(s) = n + m
    PROVE  /\ Pop(s, m) \in Seq(Words) /\ Len(Pop(s, m)) = n
           /\ \A j \in 1 .. n : Pop(s, m)[j] = s[j]
<1>1. Len(s) - m = n
    OBVIOUS
<1>2. \A j \in 1 .. n : s[j] \in Words
    OBVIOUS
<1>3. /\ SubSeq(s, 1, n) \in Seq(Words)
      /\ Len(SubSeq(s, 1, n)) = IF 1 <= n THEN n - 1 + 1 ELSE 0
      /\ \A j \in 1 .. n - 1 + 1 : SubSeq(s, 1, n)[j] = s[1 + j - 1]
    BY <1>2, SubSeqProperties
<1>4. Len(SubSeq(s, 1, n)) = n /\ \A j \in 1 .. n : SubSeq(s, 1, n)[j] = s[j]
    BY <1>3
<1> QED
    BY <1>1, <1>3, <1>4 DEF Pop

LEMMA FrontFacts ==
    ASSUME NEW c \in Seq(Contexts), c # <<>>
    PROVE  /\ Front(c) \in Seq(Contexts) /\ Len(Front(c)) = Len(c) - 1
           /\ \A k \in 1 .. Len(c) - 1 : Front(c)[k] = c[k]
<1> DEFINE n == Len(c) - 1
<1>1. n \in Nat /\ \A k \in 1 .. n : c[k] \in Contexts
    OBVIOUS
<1> HIDE DEF n
<1>2. /\ SubSeq(c, 1, n) \in Seq(Contexts)
      /\ Len(SubSeq(c, 1, n)) = IF 1 <= n THEN n - 1 + 1 ELSE 0
      /\ \A j \in 1 .. n - 1 + 1 : SubSeq(c, 1, n)[j] = c[1 + j - 1]
    BY <1>1, SubSeqProperties
<1>3. Len(SubSeq(c, 1, n)) = n /\ \A j \in 1 .. n : SubSeq(c, 1, n)[j] = c[j]
    BY <1>1, <1>2
<1>4. Front(c) = SubSeq(c, 1, n)
    BY DEF Front, n
<1> QED
    BY <1>2, <1>3, <1>4 DEF n

\* What iret finds: the CPU's three words, on the stack of the interrupted code.
LEMMA UnwoundFacts ==
    ASSUME ShapeInv, StackInv, ctx # <<>>, Top.stage # "stub"
    PROVE  /\ Top.base \in Nat
           /\ Unwound \in Seq(Words) /\ Len(Unwound) = Top.base + 3
           /\ \A j \in 1 .. Top.base + 3 : Unwound[j] = stack[j]
<1> DEFINE b == Top.base
<1>1. stack \in Seq(Words) /\ b \in Nat /\ Len(stack) = b + 15
    BY TopFrame DEF ShapeInv
<1> HIDE DEF b
<1>2. b + 3 \in Nat /\ 12 \in Nat /\ Len(stack) = (b + 3) + 12
    BY <1>1
<1>3. Unwound = Pop(stack, 12)
    BY DEF Unwound
<1> QED
    BY <1>1, <1>2, <1>3, PopFacts DEF b

LEMMA LeaveStep ==
    ASSUME IInv, stub_leave PROVE IInv'
<1> DEFINE b == Top.base
           t == Pop(Unwound, 3)
           d == Front(ctx)
<1>1. /\ ctx # <<>> /\ Top.stage = "leave" /\ isr' = isr /\ stack' = t /\ ctx' = d
      /\ iflag' = (Nth(Unwound, 2).value = 1)
    BY DEF stub_leave, Stage
<1>2. /\ stack \in Seq(Words) /\ ctx \in Seq(Contexts)
      /\ FramesOK(stack, ctx) /\ NestingOK(stack, ctx) /\ Top = ctx[Len(ctx)]
      /\ Len(ctx) \in 1 .. Len(ctx)
    BY <1>1, TopFacts DEF IInv, ShapeInv, StackInv
<1>3. /\ b \in Nat /\ Unwound \in Seq(Words) /\ Len(Unwound) = b + 3
      /\ \A j \in 1 .. b + 3 : Unwound[j] = stack[j]
    BY <1>1, UnwoundFacts DEF IInv
<1>4. /\ d \in Seq(Contexts) /\ Len(d) = Len(ctx) - 1
      /\ \A k \in 1 .. Len(ctx) - 1 : d[k] = ctx[k]
    BY <1>1, <1>2, FrontFacts
<1> HIDE DEF b
<1>5. /\ t \in Seq(Words) /\ Len(t) = b
      /\ \A j \in 1 .. b : t[j] = Unwound[j]
    BY <1>3, PopFacts
<1> HIDE DEF t, d
<1>6. \A j \in 1 .. b : t[j] = stack[j]
    BY <1>3, <1>5
<1>7. FramesOK(t, d) /\ NestingOK(t, d)
  <2>1. Len(t) = ctx[Len(ctx)].base
      BY <1>2, <1>5 DEF b
  <2>2. \A j \in 1 .. Len(t) : t[j] = stack[j]
      BY <1>5, <1>6
  <2>3. \A k \in 1 .. Len(d) : d[k] = ctx[k]
      BY <1>4
  <2> QED
      BY <1>1, <1>2, <1>4, <1>5, <2>1, <2>2, <2>3, LeaveFrames
<1>8. FlagInv'
  <2>1. Nth(Unwound, 2) = stack[b + 1]
    <3>1. Len(Unwound) - 2 = b + 1 /\ b + 1 \in 1 .. b + 3
        BY <1>3
    <3> QED
        BY <1>3, <3>1 DEF Nth
  <2>2. Len(ctx) > 1 => stack[b + 1].value = 0
      BY <1>2 DEF NestingOK, b
  <2>3. CASE Len(ctx) > 1
    <3>1. ~(Nth(Unwound, 2).value = 1)
        BY <2>1, <2>2, <2>3
    <3> QED
        BY <1>1, <3>1, Zenon DEF FlagInv
  <2>4. CASE Len(ctx) = 1
    <3>1. Len(d) = 0
        BY <1>4, <2>4
    <3>2. d = <<>>
        BY <1>4, <3>1
    <3> QED
        BY <1>1, <3>2 DEF FlagInv
  <2> QED
      BY <1>1, <2>3, <2>4, Depth DEF IInv
<1>9. ServiceInv'
  <2>1. CASE Len(ctx) = 1
      BY <1>1, <2>1, HandlerService DEF ServiceInv
  <2>2. CASE Len(ctx) > 1
    <3>1. d # <<>> /\ d[1] = ctx[1]
      <4>1. 1 \in 1 .. Len(ctx) - 1 /\ Len(d) > 0
          BY <1>2, <1>4, <2>2
      <4> QED
          BY <1>4, <4>1
    <3> QED
        BY <1>1, <3>1 DEF IInv, ServiceInv
  <2> QED
      BY <1>1, <2>1, <2>2, Depth DEF IInv
<1>10. ShapeInv'
    BY <1>1, <1>4, <1>5 DEF ShapeInv
<1> QED
    BY <1>1, <1>7, <1>8, <1>9, <1>10 DEF IInv, StackInv

-----------------------------------------------------------------------------
(* The theorems                                                            *)

LEMMA InitIInv ==
    Init => IInv
<1> SUFFICES ASSUME Init PROVE IInv
    OBVIOUS
<1>1. stack = <<>> /\ ctx = <<>> /\ isr = {} /\ iflag = FALSE
    BY DEF Init
<1>2. Len(stack) = 0 /\ Len(ctx) = 0 /\ 1 .. Len(ctx) = {}
    BY <1>1
<1>3. ShapeInv
    BY <1>1, EmptySeq, Zenon DEF ShapeInv
<1>4. StackInv
    BY <1>1, <1>2 DEF StackInv, FramesOK, NestingOK
<1> QED
    BY <1>1, <1>3, <1>4 DEF IInv, FlagInv, ServiceInv

LEMMA StutterIInv ==
    ASSUME IInv, UNCHANGED vars PROVE IInv'
BY DEF IInv, ShapeInv, StackInv, FlagInv, ServiceInv, FramesOK, NestingOK, FrameOK,
       vars

LEMMA NextIInv ==
    IInv /\ [Next]_vars => IInv'
<1> SUFFICES ASSUME IInv, [Next]_vars PROVE IInv'
    OBVIOUS
<1>1. CASE Device
    BY <1>1, RaiseStep DEF Device
<1>2. CASE Cpu
  <2>1. CASE \E i \in IRQs : accept(i)
      BY <2>1, AcceptStep
  <2>2. CASE stub_enter
      BY <2>2, StubEnterStep
  <2>3. CASE irq_handler_eoi
      BY <2>3, EoiStep
  <2>4. CASE handler_return \/ handler_halt
      BY <2>4, HandlerStep
  <2>5. CASE handler_switch
      BY <2>5, SwitchStep
  <2>6. CASE stub_leave
      BY <2>6, LeaveStep
  <2> QED
      BY <1>2, <2>1, <2>2, <2>3, <2>4, <2>5, <2>6 DEF Cpu
<1>3. CASE \E v \in Exceptions : exception(v)
    BY <1>3, ExceptionStep
<1>4. CASE schedule_noirq
    BY <1>4, ScheduleStep
<1>5. CASE main_cli \/ main_sti
    BY <1>5, FlagStep
<1>6. CASE UNCHANGED vars
    BY <1>6, StutterIInv
<1> QED
    BY <1>1, <1>2, <1>3, <1>4, <1>5, <1>6 DEF Next

LEMMA SpecIInv ==
    Spec => []IInv
BY InitIInv, NextIInv, PTL DEF Spec

\* Whatever interrupted what, to any depth, a C handler that reads registers_t
\* through the pointer the common stub pushed finds the register of each
\* field's name, and its own vector in int_no.
THEOREM ConsistentFrameAlways ==
    Spec => []ConsistentFrame
<1>1. IInv => ConsistentFrame
  <2> SUFFICES ASSUME IInv, Stage("eoi") \/ Stage("handler") PROVE
                      /\ \A k \in 1 .. Len(registers_t) :
                            RegsWord(registers_t[k]).name = registers_t[k]
                      /\ RegsField("int_no") = Top.vector
      BY DEF ConsistentFrame
  <2>1. ctx # <<>> /\ Top.stage # "stub"
      BY DEF Stage
  <2> QED
      BY <2>1, RegsFacts, OffsetFacts DEF IInv
<1> QED
    BY <1>1, SpecIInv, PTL

\* The stub of every vector takes off exactly what it and the CPU put on: iret
\* finds eip, cs and eflags and restores the stack of the interrupted code.
THEOREM BalancedReturnAlways ==
    Spec => []BalancedReturn
<1>1. IInv => BalancedReturn
  <2> SUFFICES ASSUME IInv, Stage("leave") PROVE
                      /\ Len(Unwound) = Top.base + 3
                      /\ <<Nth(Unwound, 0).name, Nth(Unwound, 1).name,
                           Nth(Unwound, 2).name>> = <<"eip", "cs", "eflags">>
      BY DEF BalancedReturn
  <2> DEFINE b == Top.base
  <2>1. ctx # <<>> /\ Top.stage # "stub"
      BY DEF Stage
  <2>2. /\ b \in Nat /\ Len(Unwound) = b + 3
        /\ \A j \in 1 .. b + 3 : Unwound[j] = stack[j]
      BY <2>1, UnwoundFacts DEF IInv
  <2>3. \A j \in 1 .. 15 : stack[b + j].name = FrameNames[j]
      BY <2>1, TopFrame DEF IInv
  <2> HIDE DEF b
  <2>4. ASSUME NEW j \in 1 .. 3 PROVE Unwound[b + j].name = FrameNames[j]
    <3>1. b + j \in 1 .. b + 3 /\ j \in 1 .. 15
        BY <2>2
    <3> QED
        BY <2>2, <2>3, <3>1
  <2>5. /\ Nth(Unwound, 0) = Unwound[b + 3]
        /\ Nth(Unwound, 1) = Unwound[b + 2]
        /\ Nth(Unwound, 2) = Unwound[b + 1]
    <3>1. /\ Len(Unwound) - 0 = b + 3 /\ Len(Unwound) - 1 = b + 2
          /\ Len(Unwound) - 2 = b + 1
        BY <2>2
    <3> QED
        BY <3>1 DEF Nth
  <2>6. FrameNames[1] = "eflags" /\ FrameNames[2] = "cs" /\ FrameNames[3] = "eip"
      BY DEF FrameNames
  <2>7. /\ Nth(Unwound, 0).name = "eip" /\ Nth(Unwound, 1).name = "cs"
        /\ Nth(Unwound, 2).name = "eflags"
      BY <2>4, <2>5, <2>6
  <2> QED
      BY <2>2, <2>7 DEF b
<1> QED
    BY <1>1, SpecIInv, PTL

\* With interrupts on, no line of either PIC is in service: every interrupt's
\* EOI was sent, the timer's too, whose handler never returns, and no EOI ended
\* the service of another line.
THEOREM NothingInServiceAlways ==
    Spec => []NothingInService
<1>1. IInv => NothingInService
    BY DEF IInv, FlagInv, ServiceInv, NothingInService
<1> QED
    BY <1>1, SpecIInv, PTL

=============================================================================
