----------------------------- MODULE Repl_proof -----------------------------
(***************************************************************************)
(* Proofs about Repl, for every set of programs and every sequence of      *)
(* lines.  That the prompt tells what the buffer holds needs nothing of    *)
(* the reader but that it finds the end in the empty text.  That a program *)
(* typed in pieces is the program rests on ReaderLaws: the buffer is what  *)
(* is left of the text typed, but for a part in which nothing was found,   *)
(* and a line added to it leaves what was read where it was.  The second   *)
(* half proves those laws of the reader in Reader.                         *)
(***************************************************************************)
EXTENDS Repl, Reader, SequenceTheorems, FiniteSetTheorems, WellFoundedInduction, TLAPS

\* PromptTells is inductive by itself; it is looked at in every action that
\* sets pc.  What is left of an unfinished datum is not empty (src/ctx.cpp:168-173).
LEMMA RestOfUnfinished == Found({"incomplete"}) => rest # <<>>
<1>1. SUFFICES ASSUME rest = <<>>, Found({"incomplete"}) PROVE FALSE
  OBVIOUS
<1>2. Next1 = [is |-> "end"] BY <1>1, ReplAssumption DEF Next1
<1>. QED BY <1>1, <1>2 DEF Found

\* Every step that reaches the prompt leaves the flag telling what the buffer
\* holds (cli/main.cpp:64-80).
LEMMA StepTells ==
  ASSUME PromptTells, [Next]_vars
  PROVE  PromptTells'
<1>1. CASE Start BY <1>1 DEF Start, Call, Exit, PromptTells
<1>2. CASE RunForm BY <1>2 DEF RunForm, Found, Running, PromptTells
<1>3. CASE Error BY <1>3 DEF Error, Throw, Exit, PromptTells
<1>4. CASE ExitForm BY <1>4 DEF ExitForm, Exit, PromptTells
<1>5. CASE RunEnd BY <1>5 DEF RunEnd, AfterBatch, Call, Exit, PromptTells
<1>6. CASE RunIncomplete
  BY <1>6, RestOfUnfinished DEF RunIncomplete, Unfinished, Throw, Exit, PromptTells
<1>7. ASSUME NEW line \in Lines, Line(line) PROVE PromptTells'
  BY <1>7 DEF Line, Call, PromptTells
<1>8. CASE CtrlC BY <1>8 DEF CtrlC, Call, PromptTells
<1>9. CASE CtrlD BY <1>9 DEF CtrlD, Exit, PromptTells
<1>10. CASE UNCHANGED vars BY <1>10 DEF vars, PromptTells
<1>. QED BY <1>1, <1>2, <1>3, <1>4, <1>5, <1>6, <1>7, <1>8, <1>9, <1>10 DEF Next

\* At every prompt of every session the flag that selects ".. " says whether
\* the buffer holds the beginning of a datum (cli/main.cpp:82).
THEOREM PromptsTell == Spec => []PromptTells
<1>1. Init => PromptTells BY DEF Init, PromptTells
<1>2. PromptTells /\ [Next]_vars => PromptTells' BY StepTells
<1>. QED BY <1>1, <1>2, PTL DEF Spec
-----------------------------------------------------------------------------
Texts == Seq(Char)

\* Texts and what is behind their first characters.

LEMMA AfterType ==
  ASSUME NEW t \in Texts, NEW n \in 0 .. Len(t)
  PROVE  /\ After(t, n) \in Texts /\ Len(After(t, n)) = Len(t) - n
         /\ \A i \in 1 .. Len(t) - n : After(t, n)[i] = t[n + i]
BY DEF After, Texts

LEMMA AfterNone == ASSUME NEW t \in Texts PROVE After(t, 0) = t
BY AfterType, SeqEqual DEF Texts

LEMMA Joining ==
  ASSUME NEW t \in Texts, NEW u \in Texts
  PROVE  /\ t \o u \in Texts /\ Len(t \o u) = Len(t) + Len(u)
         /\ \A i \in 1 .. Len(t) : (t \o u)[i] = t[i]
         /\ \A i \in 1 .. Len(u) : (t \o u)[Len(t) + i] = u[i]
BY DEF Texts

LEMMA LenNat == \A t \in Texts : Len(t) \in Nat
BY DEF Texts

LEMMA AfterJoined ==
  ASSUME NEW t \in Texts, NEW u \in Texts, NEW n \in 0 .. Len(t)
  PROVE  After(t \o u, n) = After(t, n) \o u
<1> DEFINE b == After(t, n)   w == t \o u   d == b \o u   a == After(w, n)
<1>0. Len(t) \in Nat /\ Len(u) \in Nat
  BY LenNat
<1>1. /\ b \in Texts /\ Len(b) = Len(t) - n
      /\ \A i \in 1 .. Len(t) - n : b[i] = t[n + i]
  BY AfterType
<1>2. /\ w \in Texts /\ Len(w) = Len(t) + Len(u) /\ n \in 0 .. Len(w)
      /\ \A i \in 1 .. Len(t) : w[i] = t[i]
      /\ \A i \in 1 .. Len(u) : w[Len(t) + i] = u[i]
  BY <1>0, Joining
<1> HIDE DEF b, w
<1>3. /\ d \in Texts /\ Len(d) = Len(b) + Len(u)
      /\ \A i \in 1 .. Len(b) : d[i] = b[i]
      /\ \A i \in 1 .. Len(u) : d[Len(b) + i] = u[i]
  BY <1>1, Joining
<1>4. /\ a \in Texts /\ Len(a) = Len(w) - n
      /\ \A i \in 1 .. Len(w) - n : a[i] = w[n + i]
  BY <1>2, AfterType
<1> HIDE DEF a, d
<1>5. ASSUME NEW i \in 1 .. Len(a) PROVE a[i] = d[i]
  <2>1. CASE i \in 1 .. Len(b)
    BY <1>0, <1>1, <1>2, <1>3, <1>4, <2>1
  <2>2. CASE i \notin 1 .. Len(b)
    <3> DEFINE k == i - Len(b)
    <3>1. k \in 1 .. Len(u) /\ Len(b) + k = i /\ Len(t) + k = n + i
      BY <1>0, <1>1, <1>2, <1>4, <2>2
    <3>2. d[i] = u[k] /\ w[n + i] = u[k]
      BY <1>2, <1>3, <3>1
    <3> QED BY <1>0, <1>4, <3>2
  <2> QED BY <2>1, <2>2
<1>6. Len(a) = Len(d)
  BY <1>0, <1>1, <1>2, <1>3, <1>4
<1>7. a = d
  BY <1>3, <1>4, <1>5, <1>6, SeqEqual DEF Texts
<1> QED BY <1>7 DEF a, b, d, w

LEMMA AfterAfter ==
  ASSUME NEW t \in Texts, NEW n \in 0 .. Len(t), NEW m \in 0 .. Len(t) - n
  PROVE  After(After(t, n), m) = After(t, n + m)
<1> DEFINE a == After(t, n)   b == After(t, n + m)   c == After(a, m)
<1>0. Len(t) \in Nat /\ n + m \in 0 .. Len(t)
  BY LenNat
<1>1. a \in Texts /\ Len(a) = Len(t) - n /\ \A i \in 1 .. Len(t) - n : a[i] = t[n + i]
  BY AfterType
<1>2. /\ b \in Texts /\ Len(b) = Len(t) - (n + m)
      /\ \A i \in 1 .. Len(t) - (n + m) : b[i] = t[n + m + i]
  BY <1>0, AfterType
<1> HIDE DEF a
<1>3. c \in Texts /\ Len(c) = Len(a) - m /\ \A i \in 1 .. Len(a) - m : c[i] = a[m + i]
  BY <1>1, AfterType
<1> HIDE DEF b, c
<1>4. Len(b) = Len(c) /\ \A i \in 1 .. Len(b) : b[i] = c[i]
  BY <1>0, <1>1, <1>2, <1>3
<1>5. b = c
  BY <1>2, <1>3, <1>4, SeqEqual DEF Texts
<1> QED BY <1>5 DEF a, b, c

\* Behind all of the first text there is what is behind part of the second.
LEMMA AfterFirst ==
  ASSUME NEW t \in Texts, NEW u \in Texts, NEW n \in 0 .. Len(u)
  PROVE  After(t \o u, Len(t) + n) = After(u, n)
<1> DEFINE w == t \o u   a == After(w, Len(t) + n)   b == After(u, n)
<1>0. Len(t) \in Nat /\ Len(u) \in Nat
  BY LenNat
<1>1. /\ w \in Texts /\ Len(w) = Len(t) + Len(u) /\ Len(t) + n \in 0 .. Len(w)
      /\ \A i \in 1 .. Len(u) : w[Len(t) + i] = u[i]
  BY <1>0, Joining
<1> HIDE DEF w
<1>2. /\ a \in Texts /\ Len(a) = Len(w) - (Len(t) + n)
      /\ \A i \in 1 .. Len(w) - (Len(t) + n) : a[i] = w[(Len(t) + n) + i]
  BY <1>1, AfterType
<1>3. b \in Texts /\ Len(b) = Len(u) - n /\ \A i \in 1 .. Len(u) - n : b[i] = u[n + i]
  BY AfterType
<1> HIDE DEF a, b
<1>4. Len(a) = Len(b) /\ \A i \in 1 .. Len(a) : a[i] = b[i]
  <2>1. \A i \in 1 .. Len(a) : n + i \in 1 .. Len(u) /\ (Len(t) + n) + i = Len(t) + (n + i)
    BY <1>0, <1>1, <1>2
  <2> QED BY <1>0, <1>1, <1>2, <1>3, <2>1
<1>5. a = b
  BY <1>2, <1>3, <1>4, SeqEqual DEF Texts
<1> QED BY <1>5 DEF a, b, w

\* Reading ------------------------------------------------------------------

\* What stands before the text that is run, behind the last datum: a text in
\* which nothing was found, and the newline that ended it.
Gap(g) == g = <<>> \/ \E b \in Texts : g = b \o <<Newline>> /\ ReadOne(b).is = "end"

LEMMA NewlineText == <<Newline>> \in Texts /\ Len(<<Newline>>) = 1 /\ <<>> \in Texts
BY ReplAssumption DEF Texts

LEMMA ReadBehindGap ==
  ASSUME ReaderLaws, NEW g \in Texts, Gap(g), NEW t \in Texts
  PROVE  Same(ReadOne(g \o t), ReadOne(t), Len(g))
<1>1. CASE g = <<>>
  <2>1. g \o t = t /\ Len(g) = 0
    BY <1>1 DEF Texts
  <2>2. EndsInside(t)
    BY DEF ReaderLaws, Texts
  <2>3. ReadOne(t).is = "datum" => ReadOne(t).to = ReadOne(t).to + 0
    BY <2>2, LenNat DEF EndsInside
  <2> QED BY <2>1, <2>3 DEF Same
<1>2. ASSUME NEW b \in Texts, g = b \o <<Newline>>, ReadOne(b).is = "end"
      PROVE  Same(ReadOne(g \o t), ReadOne(t), Len(g))
  <2>1. Len(g) = Len(b) + 1
    BY <1>2, NewlineText, Joining
  <2>2. LineBehind(b, t)
    BY DEF ReaderLaws, Texts
  <2> QED BY <1>2, <2>1, <2>2 DEF LineBehind
<1> QED BY <1>1, <1>2 DEF Gap

LEMMA SameOutcome ==
  ASSUME NEW r, NEW q, NEW by, Same(r, q, by)
  PROVE  Outcome(r) = Outcome(q)
BY DEF Same, Outcome

\* The invariant ------------------------------------------------------------

Entry == [v : {ReadOne(t).v : t \in Texts}, to : Nat]

Types ==
  /\ pc \in {"main", "batch", "repl", "prompt", "end"}
  /\ args \in Invocations /\ incomplete \in BOOLEAN
  /\ input \in Texts /\ rest \in Texts /\ typed \in Texts
  /\ ran \in Seq(Entry) /\ \A i \in DOMAIN ran : ran[i].to \in 0 .. Len(typed)

\* What is run is the end of what was typed; at the prompt it is the buffer
\* that is, and a buffer that was cleared left nothing unread.
LeftToRun(left) == \E g \in Texts : Gap(g) /\ Unread(typed, ran) = g \o left
Left ==
  /\ Running => LeftToRun(rest)
  /\ pc = "prompt" /\ incomplete => LeftToRun(input) /\ ReadOne(input).is = "incomplete"
  /\ pc = "prompt" /\ ~incomplete => input = <<>> /\ ReadOne(Unread(typed, ran)).is = "end"

Modes ==
  /\ pc = "main" => typed = <<>> /\ ran = <<>> /\ ~incomplete
  /\ pc = "batch" => Executes /\ args.text # NoText /\ typed = args.text
  /\ pc \in {"repl", "prompt"} => Interactive

IInv == Types /\ Evaluated(typed, ran) /\ Left /\ Modes /\ BatchStatus

\* Every datum ends inside the text it was read in.
LEMMA FromType ==
  ASSUME Types
  PROVE  /\ Len(ran) \in Nat /\ DOMAIN ran = 1 .. Len(ran)
         /\ \A i \in 1 .. Len(ran) + 1 : From(ran, i) \in 0 .. Len(typed)
         /\ Unread(typed, ran) \in Texts
         /\ Len(Unread(typed, ran)) = Len(typed) - From(ran, Len(ran) + 1)
<1>1. Len(ran) \in Nat /\ DOMAIN ran = 1 .. Len(ran) /\ Len(typed) \in Nat
  BY LenNat DEF Types
<1>2. ASSUME NEW i \in 1 .. Len(ran) + 1 PROVE From(ran, i) \in 0 .. Len(typed)
  <2>1. CASE i = 1
    BY <1>1, <2>1 DEF From
  <2>2. CASE i # 1
    <3>1. i - 1 \in DOMAIN ran
      BY <1>1, <2>2
    <3> QED BY <2>2, <3>1 DEF From, Types
  <2> QED BY <2>1, <2>2
<1>3. From(ran, Len(ran) + 1) \in 0 .. Len(typed)
  BY <1>1, <1>2
<1> QED BY <1>1, <1>2, <1>3, AfterType DEF Unread, Types

\* A text of which nothing has been run.
LEMMA NothingRun ==
  ASSUME NEW t \in Texts
  PROVE  Evaluated(t, <<>>) /\ Unread(t, <<>>) = t /\ <<>> \in Seq(Entry)
<1>1. From(<<>>, Len(<<>>) + 1) = 0
  BY DEF From
<1> QED BY <1>1, AfterNone DEF Evaluated, Unread

\* A datum that is evaluated is the next of the text typed, and what is left
\* behind it is what is left of the source.
LEMMA DatumRun ==
  ASSUME ReaderLaws, Types, Evaluated(typed, ran), LeftToRun(rest), RunForm
  PROVE  Types' /\ Evaluated(typed, ran)' /\ LeftToRun(rest)'
<1> DEFINE done == From(ran, Len(ran) + 1)   u == Unread(typed, ran)
           k == Next1.to
           new == [v |-> Next1.v, to |-> Len(typed) - Len(Behind)]
<1>1. PICK g \in Texts : Gap(g) /\ u = g \o rest
  BY DEF LeftToRun
<1>2. /\ Next1.is = "datum" /\ Next1.v \notin Failing \cup Exiting
      /\ ran' = Append(ran, new) /\ rest' = Behind
      /\ UNCHANGED <<pc, args, input, incomplete, typed>>
  BY DEF RunForm, Found
<1>3. Same(ReadOne(u), Next1, Len(g))
  BY <1>1, ReadBehindGap DEF Next1, Types
<1>4. k \in 1 .. Len(rest) + 1
  BY <1>2 DEF Next1, Types, ReaderLaws, EndsInside, Texts
<1>5. /\ Len(rest) \in Nat /\ Len(g) \in Nat /\ Len(typed) \in Nat /\ done \in 0 .. Len(typed)
      /\ Len(u) = Len(typed) - done /\ u \in Texts /\ Len(ran) \in Nat
      /\ DOMAIN ran = 1 .. Len(ran)
      /\ \A i \in 1 .. Len(ran) + 1 : From(ran, i) \in 0 .. Len(typed)
  BY LenNat, FromType DEF Types
<1>6. Len(u) = Len(g) + Len(rest)
  BY <1>1, Joining DEF Types
<1> HIDE DEF k
<1>7. k - 1 \in 0 .. Len(rest)
  BY <1>4, <1>5
<1>8. Behind = After(rest, k - 1) /\ Behind \in Texts /\ Len(Behind) = Len(rest) - (k - 1)
  BY <1>7, AfterType DEF Behind, k, Types
<1>9. new.to = done + Len(g) + (k - 1) /\ new.to \in 0 .. Len(typed)
  BY <1>4, <1>5, <1>6, <1>8
<1>10. new \in Entry
  BY <1>5, <1>9 DEF Entry, Next1, Types
<1> HIDE DEF new, done, u
<1>11. /\ ran' \in Seq(Entry) /\ Len(ran') = Len(ran) + 1
       /\ ran'[Len(ran) + 1] = new /\ \A i \in 1 .. Len(ran) : ran'[i] = ran[i]
       /\ DOMAIN ran' = 1 .. Len(ran) + 1
  BY <1>2, <1>10 DEF Types
<1>12. Types'
  <2>1. \A i \in DOMAIN ran' : ran'[i].to \in 0 .. Len(typed)
    BY <1>5, <1>9, <1>11 DEF Types
  <2> QED BY <1>2, <1>8, <1>11, <2>1 DEF Types
<1>13. /\ \A i \in 1 .. Len(ran) + 1 : From(ran', i) = From(ran, i)
       /\ From(ran', Len(ran) + 2) = new.to
  <2>1. \A i \in 1 .. Len(ran) + 1 : i # 1 => i - 1 \in 1 .. Len(ran)
    BY <1>5
  <2>2. Len(ran) + 2 # 1 /\ (Len(ran) + 2) - 1 = Len(ran) + 1
    BY <1>5
  <2> QED BY <1>11, <2>1, <2>2 DEF From
<1>14. Evaluated(typed, ran')
  <2>1. ASSUME NEW i \in DOMAIN ran'
        PROVE  LET r == ReadOne(After(typed, From(ran', i)))
               IN /\ r.is = "datum" /\ r.v = ran'[i].v /\ r.v \notin Failing \cup Exiting
                  /\ From(ran', i) + r.to = ran'[i].to + 1
    <3>1. CASE i \in 1 .. Len(ran)
      <4>1. i \in DOMAIN ran /\ From(ran', i) = From(ran, i) /\ ran'[i] = ran[i]
        BY <1>5, <1>11, <1>13, <3>1
      <4> QED BY <4>1 DEF Evaluated
    <3>2. CASE i = Len(ran) + 1
      <4>1. From(ran', i) = done /\ ran'[i] = new /\ After(typed, done) = u
        BY <1>5, <1>11, <1>13, <3>2 DEF done, u, Unread
      <4>2. ReadOne(u).is = "datum" /\ ReadOne(u).v = Next1.v /\ ReadOne(u).to = k + Len(g)
        BY <1>2, <1>3 DEF Same, k
      <4>3. new.v = Next1.v
        BY DEF new
      <4>4. done + (k + Len(g)) = new.to + 1
        BY <1>4, <1>5, <1>9
      <4> QED BY <1>2, <4>1, <4>2, <4>3, <4>4
    <3> QED BY <1>5, <1>11, <3>1, <3>2
  <2> QED BY <2>1 DEF Evaluated
<1>15. Unread(typed, ran') = <<>> \o Behind
  <2>1. Unread(typed, ran') = After(typed, done + (Len(g) + (k - 1)))
    BY <1>4, <1>5, <1>9, <1>11, <1>13 DEF Unread
  <2>2. Len(g) + (k - 1) \in 0 .. Len(typed) - done
    BY <1>5, <1>6, <1>7
  <2>3. After(typed, done + (Len(g) + (k - 1))) = After(u, Len(g) + (k - 1))
    BY <1>5, <2>2, AfterAfter DEF Types, u, Unread, done
  <2>4. After(u, Len(g) + (k - 1)) = Behind
    BY <1>1, <1>7, <1>8, AfterFirst DEF u, Types
  <2> QED BY <1>8, <2>1, <2>3, <2>4 DEF Texts
<1>16. LeftToRun(rest)'
  BY <1>2, <1>15, NewlineText DEF LeftToRun, Gap
<1> QED BY <1>2, <1>12, <1>14, <1>16

\* The end of a line extends the text typed; what has been evaluated stays
\* read as it was.
LEMMA LineTyped ==
  ASSUME ReaderLaws, Types, Evaluated(typed, ran), NEW line \in Texts
  PROVE  LET longer == typed \o <<Newline>> \o line
         IN /\ longer \in Texts /\ Len(longer) = Len(typed) + 1 + Len(line)
            /\ Evaluated(longer, ran)
            /\ Unread(longer, ran) = Unread(typed, ran) \o <<Newline>> \o line
<1> DEFINE more == typed \o <<Newline>>   longer == more \o line
<1>1. /\ more \in Texts /\ Len(more) = Len(typed) + 1
      /\ longer \in Texts /\ Len(longer) = Len(typed) + 1 + Len(line)
      /\ Len(typed) \in Nat
  <2>1. more \in Texts /\ Len(more) = Len(typed) + 1 /\ Len(typed) \in Nat
    BY NewlineText, Joining, LenNat DEF Types
  <2> HIDE DEF more
  <2>2. longer \in Texts /\ Len(longer) = Len(more) + Len(line)
    BY <2>1, Joining
  <2> QED BY <2>1, <2>2
<1>2. ASSUME NEW n \in 0 .. Len(typed)
      PROVE  After(longer, n) = After(typed, n) \o <<Newline>> \o line
  <2>1. After(longer, n) = After(more, n) \o line
    <3>1. n \in 0 .. Len(more)
      BY <1>1
    <3> HIDE DEF more
    <3> QED BY <1>1, <3>1, AfterJoined
  <2>2. After(more, n) = After(typed, n) \o <<Newline>>
    BY NewlineText, AfterJoined DEF Types
  <2> QED BY <2>1, <2>2
<1> HIDE DEF more, longer
<1>3. Evaluated(longer, ran)
  <2>1. ASSUME NEW i \in DOMAIN ran
        PROVE  LET r == ReadOne(After(longer, From(ran, i)))
               IN /\ r.is = "datum" /\ r.v = ran[i].v /\ r.v \notin Failing \cup Exiting
                  /\ From(ran, i) + r.to = ran[i].to + 1
    <3> DEFINE t == After(typed, From(ran, i))
    <3>1. From(ran, i) \in 0 .. Len(typed)
      BY FromType
    <3>2. t \in Texts
      BY <3>1, AfterType DEF Types
    <3>3. /\ ReadOne(t).is = "datum" /\ ReadOne(t).v = ran[i].v
          /\ ReadOne(t).v \notin Failing \cup Exiting
          /\ From(ran, i) + ReadOne(t).to = ran[i].to + 1
      BY DEF Evaluated
    <3>4. After(longer, From(ran, i)) = t \o <<Newline>> \o line
      BY <1>2, <3>1
    <3> HIDE DEF t
    <3>5. Same(ReadOne(t \o <<Newline>> \o line), ReadOne(t), 0) /\ ReadOne(t).to \in Nat
      BY <3>2, <3>3, LenNat DEF ReaderLaws, LineBehind, EndsInside, Texts
    <3> QED BY <3>3, <3>4, <3>5 DEF Same
  <2> QED BY <2>1 DEF Evaluated
<1>4. Unread(longer, ran) = Unread(typed, ran) \o <<Newline>> \o line
  <2>1. From(ran, Len(ran) + 1) \in 0 .. Len(typed)
    BY FromType
  <2> QED BY <1>2, <2>1 DEF Unread
<1> QED BY <1>1, <1>3, <1>4 DEF more, longer

LEMMA Assoc ==
  ASSUME NEW t \in Texts, NEW u \in Texts, NEW w \in Texts
  PROVE  (t \o u) \o w = t \o (u \o w)
BY ConcatAssociative DEF Texts

\* A line is added to the buffer, or begins a new one.
LEMMA LineStep ==
  ASSUME ReaderLaws, IInv, NEW line \in Lines, Line(line)
  PROVE  Types' /\ Evaluated(typed, ran)' /\ LeftToRun(rest)'
<1>1. line \in Texts
  BY ReplAssumption DEF Texts
<1>2. /\ pc = "prompt" /\ pc' = "repl" /\ UNCHANGED <<args, incomplete, ran>>
      /\ input' = Joined(input, line) /\ rest' = Joined(input, line)
      /\ typed' = IF typed = <<>> THEN line ELSE typed \o <<Newline>> \o line
  BY DEF Line, Call
<1>3. Types /\ Evaluated(typed, ran) /\ Left
  BY DEF IInv
<1>4. Joined(input, line) \in Texts
  <2>1. input \in Texts /\ input \o <<Newline>> \in Texts
    BY <1>3, NewlineText, Joining DEF Types
  <2>2. (input \o <<Newline>>) \o line \in Texts
    BY <1>1, <2>1, Joining
  <2> QED BY <1>1, <2>2 DEF Joined
<1>5. CASE typed = <<>>
  <2>1. ran = <<>>
    <3>1. SUFFICES ASSUME ran # <<>> PROVE FALSE
      OBVIOUS
    <3>2. 1 \in DOMAIN ran
      BY <1>3, <3>1 DEF Types
    <3>3. From(ran, 1) = 0
      BY DEF From
    <3>4. After(typed, 0) = <<>>
      BY <1>5, NewlineText, AfterNone
    <3>5. ReadOne(<<>>).is = "datum"
      BY <1>3, <3>2, <3>3, <3>4 DEF Evaluated
    <3> QED BY <3>5, ReplAssumption
  <2>2. Unread(typed, ran) = <<>>
    BY <1>5, <2>1, NewlineText, NothingRun
  <2>3. ~incomplete
    <3>1. SUFFICES ASSUME incomplete PROVE FALSE
      OBVIOUS
    <3>2. PICK g \in Texts : <<>> = g \o input /\ ReadOne(input).is = "incomplete"
      BY <1>2, <1>3, <2>2, <3>1 DEF Left, LeftToRun
    <3>3. input = <<>>
      <4>1. Len(g) + Len(input) = 0 /\ Len(g) \in Nat /\ Len(input) \in Nat /\ input \in Texts
        BY <1>3, <3>2, Joining, LenNat DEF Types
      <4> QED BY <4>1 DEF Texts
    <3> QED BY <3>2, <3>3, ReplAssumption
  <2>4. input = <<>>
    BY <1>2, <1>3, <2>3, ReplAssumption DEF Left, Types
  <2>5. typed' = line /\ rest' = line /\ ran' = <<>> /\ input' = line
    BY <1>2, <1>5, <2>1, <2>4 DEF Joined
  <2>6. Unread(typed, ran)' = <<>> \o line /\ Evaluated(typed, ran)'
    BY <1>1, <2>5, NothingRun DEF Texts
  <2>7. Types'
    BY <1>1, <1>2, <1>3, <2>5, NothingRun DEF Types
  <2> QED BY <2>5, <2>6, <2>7, NewlineText DEF LeftToRun, Gap
<1>6. CASE typed # <<>>
  <2> DEFINE u == Unread(typed, ran)
  <2>1. /\ typed' \in Texts /\ Len(typed') = Len(typed) + 1 + Len(line)
        /\ Evaluated(typed', ran)
        /\ Unread(typed', ran) = u \o <<Newline>> \o line
    BY <1>1, <1>2, <1>3, <1>6, LineTyped
  <2>2. Types'
    <3>1. Len(typed) \in Nat /\ Len(line) \in Nat
      BY <1>1, <1>3, LenNat DEF Types
    <3>2. \A n \in 0 .. Len(typed) : n \in 0 .. Len(typed')
      BY <2>1, <3>1
    <3>3. \A i \in DOMAIN ran : ran[i].to \in 0 .. Len(typed')
      BY <1>3, <3>2 DEF Types
    <3> QED BY <1>2, <1>3, <1>4, <2>1, <3>3 DEF Types
  <2>3. LeftToRun(rest)'
    <3>1. u \in Texts
      BY <1>3, FromType
    <3> HIDE DEF u
    <3>2. CASE incomplete
      <4>1. PICK g \in Texts : Gap(g) /\ u = g \o input /\ ReadOne(input).is = "incomplete"
        BY <1>2, <1>3, <3>2 DEF Left, LeftToRun, u
      <4>2. rest' = input \o <<Newline>> \o line
        BY <1>2, <4>1, ReplAssumption DEF Joined
      <4>3. u \o <<Newline>> \o line = g \o rest'
        <5>1. input \in Texts /\ input \o <<Newline>> \in Texts
          BY <1>3, NewlineText, Joining DEF Types
        <5>2. (g \o input) \o <<Newline>> = g \o (input \o <<Newline>>)
          BY <5>1, NewlineText, Assoc
        <5>3. (g \o (input \o <<Newline>>)) \o line = g \o ((input \o <<Newline>>) \o line)
          BY <1>1, <5>1, Assoc
        <5> QED BY <4>1, <4>2, <5>2, <5>3
      <4> QED BY <1>2, <2>1, <4>1, <4>3 DEF LeftToRun
    <3>3. CASE ~incomplete
      <4>1. input = <<>> /\ ReadOne(u).is = "end"
        BY <1>2, <1>3, <3>3 DEF Left, u
      <4>2. rest' = line
        BY <1>2, <4>1 DEF Joined
      <4>3. u \o <<Newline>> \in Texts /\ Gap(u \o <<Newline>>)
        BY <3>1, <4>1, NewlineText, Joining DEF Gap
      <4> QED BY <1>2, <2>1, <4>2, <4>3 DEF LeftToRun
    <3> QED BY <3>2, <3>3
  <2> QED BY <1>2, <2>1, <2>2, <2>3
<1> QED BY <1>5, <1>6

\* A step that ends the run or the program where the source is, and leaves
\* what was typed and evaluated.
LEMMA OutcomeOfRest ==
  ASSUME ReaderLaws, Types, LeftToRun(rest)
  PROVE  Outcome(ReadOne(Unread(typed, ran))) = Outcome(Next1)
         /\ ReadOne(Unread(typed, ran)).is = Next1.is
<1>1. PICK g \in Texts : Gap(g) /\ Unread(typed, ran) = g \o rest
  BY DEF LeftToRun
<1>2. Same(ReadOne(Unread(typed, ran)), Next1, Len(g))
  BY <1>1, ReadBehindGap DEF Next1, Types
<1> QED BY <1>2, SameOutcome DEF Same

LEMMA InitPieces == Init => IInv
<1> SUFFICES ASSUME Init PROVE IInv
  OBVIOUS
<1>1. Types
  <2>1. <<>> \in Texts /\ <<>> \in Seq(Entry) /\ DOMAIN <<>> = {}
    BY NewlineText
  <2> QED BY <2>1 DEF Init, Types
<1>2. Evaluated(typed, ran)
  BY NewlineText, NothingRun DEF Init
<1> QED BY <1>1, <1>2 DEF IInv, Init, Left, Modes, BatchStatus, Running

\* A call of run with all that has been typed, nothing of it evaluated.
LEMMA CallAnew ==
  ASSUME NEW t \in Texts, typed' = t, rest' = t, ran' = <<>>
  PROVE  Evaluated(typed, ran)' /\ LeftToRun(rest)'
<1>1. Unread(t, <<>>) = <<>> \o t
  BY NothingRun DEF Texts
<1> QED BY <1>1, NothingRun, NewlineText DEF LeftToRun, Gap

\* A prompt with nothing typed.
LEMMA PromptAnew ==
  ASSUME typed' = <<>>, ran' = <<>>, input' = <<>>, ~incomplete', pc' = "prompt"
  PROVE  Evaluated(typed, ran)' /\ Left'
<1>1. Unread(<<>>, <<>>) = <<>> /\ Evaluated(<<>>, <<>>)
  BY NothingRun, NewlineText
<1>2. ReadOne(<<>>).is = "end"
  BY ReplAssumption
<1> QED BY <1>1, <1>2 DEF Left, Running

\* An exception that is reported: a new prompt, or status 1.
LEMMA ThrowStep ==
  ASSUME IInv, Running, Throw, UNCHANGED args,
         Outcome(ReadOne(Unread(typed, ran))) \in {"error", "incomplete"}
  PROVE  IInv'
<1> USE DEF IInv
<1>1. CASE pc = "repl"
  <2>1. /\ pc' = "prompt" /\ input' = <<>> /\ ~incomplete' /\ typed' = <<>> /\ ran' = <<>>
        /\ rest' = rest /\ incomplete' \in BOOLEAN
    BY <1>1 DEF Throw
  <2>2. Evaluated(typed, ran)' /\ Left'
    BY <2>1, PromptAnew
  <2>3. Types'
    BY <2>1, NewlineText, NothingRun DEF Types
  <2> QED BY <1>1, <2>1, <2>2, <2>3 DEF Modes, BatchStatus, Interactive
<1>2. CASE pc = "batch"
  <2>1. pc' = "end" /\ status' = 1 /\ UNCHANGED <<input, rest, incomplete, typed, ran>>
    BY <1>2 DEF Throw, Exit
  <2>2. BatchStatus'
    BY <1>2, <2>1 DEF Modes, BatchStatus, RunsAs
  <2> QED BY <2>1, <2>2 DEF Types, Left, Modes, Running
<1> QED BY <1>1, <1>2 DEF Running

LEMMA PiecesStep ==
  ASSUME ReaderLaws, IInv, [Next]_vars
  PROVE  IInv'
<1> USE DEF IInv
<1>1. CASE Start
  <2>1. /\ pc = "main" /\ typed = <<>> /\ ran = <<>> /\ ~incomplete
        /\ UNCHANGED <<args, incomplete, ran, lines>>
    BY <1>1 DEF Start, Modes
  <2>2. CASE Executes /\ args.text = NoText
    <3>1. pc' = "end" /\ UNCHANGED <<input, rest, typed>>
      BY <1>1, <2>2 DEF Start, Exit
    <3> QED BY <2>1, <2>2, <3>1 DEF Types, Left, Modes, BatchStatus, Running
  <2>3. CASE Executes /\ args.text # NoText
    <3>1. pc' = "batch" /\ input' = args.text /\ rest' = args.text /\ typed' = args.text
      BY <1>1, <2>3 DEF Start, Call
    <3>2. args.text \in Texts
      BY <2>3, ReplAssumption DEF Types, Invocation, Texts
    <3>3. Evaluated(typed, ran)' /\ LeftToRun(rest)'
      BY <2>1, <3>1, <3>2, CallAnew
    <3>4. Types'
      BY <2>1, <3>1, <3>2, NothingRun DEF Types
    <3> QED BY <2>1, <2>3, <3>1, <3>3, <3>4
            DEF Left, Modes, BatchStatus, Running, Executes
  <2>4. CASE ~Executes
    <3>1. pc' = "repl" /\ input' = <<>> /\ rest' = <<>> /\ typed' = <<>>
      BY <1>1, <2>1, <2>4 DEF Start, Call
    <3>2. Interactive'
      BY <2>1, <2>4, ReplAssumption DEF Executes, Interactive, Types, Invocation
    <3>3. Evaluated(typed, ran)' /\ LeftToRun(rest)'
      BY <2>1, <3>1, NewlineText, CallAnew
    <3>4. Types'
      BY <2>1, <3>1, NewlineText, NothingRun DEF Types
    <3> QED BY <2>1, <2>4, <3>1, <3>2, <3>3, <3>4 DEF Left, Modes, BatchStatus, Running
  <2> QED BY <2>2, <2>3, <2>4
<1>2. CASE RunForm
  <2>1. Running /\ UNCHANGED <<pc, args, input, incomplete, status, typed, lines>>
    BY <1>2 DEF RunForm, Found
  <2>2. Types' /\ Evaluated(typed, ran)' /\ LeftToRun(rest)'
    BY <1>2, <2>1, DatumRun DEF Left
  <2> QED BY <2>1, <2>2 DEF Left, Modes, BatchStatus, Running, Executes, Interactive
<1>3. CASE Error
  <2>1. Running /\ Outcome(Next1) = "error" /\ Throw /\ UNCHANGED <<args, lines>>
    BY <1>3, ReplAssumption DEF Error, Found, Datum, Outcome
  <2> QED BY <2>1, OutcomeOfRest, ThrowStep DEF Left
<1>4. CASE ExitForm
  <2>1. /\ Running /\ Outcome(Next1) = "exit" /\ pc' = "end" /\ status' = ExitStatus
        /\ UNCHANGED <<args, input, rest, incomplete, typed, ran>>
    BY <1>4, ReplAssumption DEF ExitForm, Exit, Found, Datum, Outcome
  <2>2. Outcome(ReadOne(Unread(typed, ran))) = "exit"
    BY <2>1, OutcomeOfRest DEF Left
  <2>3. BatchStatus'
    <3>1. CASE pc = "batch"
      BY <2>1, <2>2, <3>1 DEF Modes, BatchStatus, RunsAs
    <3>2. CASE pc = "repl"
      BY <2>1, <3>2 DEF Modes, BatchStatus, Interactive
    <3> QED BY <2>1, <3>1, <3>2 DEF Running
  <2> QED BY <2>1, <2>3 DEF Types, Left, Modes, Running
<1>5. CASE RunEnd
  <2>1. /\ Running /\ Next1.is = "end" /\ Outcome(Next1) = "end" /\ UNCHANGED <<args, lines>>
    BY <1>5 DEF RunEnd, Found, Outcome
  <2>2. /\ Outcome(ReadOne(Unread(typed, ran))) = "end"
        /\ ReadOne(Unread(typed, ran)).is = "end"
    BY <2>1, OutcomeOfRest DEF Left
  <2>3. CASE pc = "batch" /\ Interactive
    <3>1. /\ pc' = "repl" /\ input' = <<>> /\ rest' = <<>> /\ typed' = <<>> /\ ran' = <<>>
          /\ incomplete' = incomplete
      BY <1>5, <2>3 DEF RunEnd, AfterBatch, Call
    <3>2. Evaluated(typed, ran)' /\ LeftToRun(rest)'
      BY <3>1, NewlineText, CallAnew
    <3>3. Types'
      BY <2>1, <3>1, NewlineText, NothingRun DEF Types
    <3> QED BY <2>1, <2>3, <3>1, <3>2, <3>3 DEF Left, Modes, BatchStatus, Running, Interactive
  <2>4. CASE pc = "batch" /\ ~Interactive
    <3>1. pc' = "end" /\ status' = 0 /\ UNCHANGED <<input, rest, incomplete, typed, ran>>
      BY <1>5, <2>4 DEF RunEnd, AfterBatch, Exit
    <3>2. BatchStatus'
      BY <2>1, <2>2, <2>4, <3>1 DEF Modes, BatchStatus, RunsAs
    <3> QED BY <2>1, <3>1, <3>2 DEF Types, Left, Modes, Running
  <2>5. CASE pc = "repl"
    <3>1. /\ pc' = "prompt" /\ input' = <<>> /\ ~incomplete' /\ incomplete' \in BOOLEAN
          /\ UNCHANGED <<rest, status, typed, ran>>
      BY <1>5, <2>5 DEF RunEnd
    <3>2. Types'
      BY <2>1, <3>1, NewlineText DEF Types
    <3> QED BY <2>1, <2>2, <2>5, <3>1, <3>2
            DEF Left, Modes, BatchStatus, Running, Interactive
  <2> QED BY <2>1, <2>3, <2>4, <2>5 DEF Running
<1>6. CASE RunIncomplete
  <2>1. /\ Running /\ Next1.is = "incomplete" /\ Outcome(Next1) = "incomplete"
        /\ Unfinished /\ UNCHANGED <<args, lines>>
    BY <1>6 DEF RunIncomplete, Found, Outcome
  <2>2. CASE pc = "batch"
    BY <2>1, <2>2, OutcomeOfRest, ThrowStep DEF Left, Unfinished
  <2>3. CASE pc = "repl"
    <3>1. /\ pc' = "prompt" /\ input' = rest /\ incomplete' = TRUE
          /\ UNCHANGED <<rest, status, typed, ran>>
      BY <2>1, <2>3 DEF Unfinished
    <3>2. Types'
      BY <2>1, <3>1 DEF Types
    <3>3. Left'
      BY <2>1, <3>1 DEF Left, LeftToRun, Next1, Running
    <3> QED BY <2>1, <2>3, <3>1, <3>2, <3>3 DEF Modes, BatchStatus, Interactive
  <2> QED BY <2>1, <2>2, <2>3 DEF Running
<1>7. ASSUME NEW line \in Lines, Line(line) PROVE IInv'
  <2>1. pc = "prompt" /\ pc' = "repl" /\ args' = args
    BY <1>7 DEF Line, Call
  <2>2. Types' /\ Evaluated(typed, ran)' /\ LeftToRun(rest)'
    BY <1>7, LineStep
  <2> QED BY <2>1, <2>2 DEF Left, Modes, BatchStatus, Running, Interactive
<1>8. CASE CtrlC
  <2>1. /\ pc = "prompt" /\ pc' = "repl" /\ input' = <<>> /\ rest' = <<>> /\ incomplete' = FALSE
        /\ typed' = <<>> /\ ran' = <<>> /\ args' = args
    BY <1>8 DEF CtrlC, Call
  <2>2. Evaluated(typed, ran)' /\ LeftToRun(rest)'
    BY <2>1, NewlineText, CallAnew
  <2>3. Types'
    <3>1. <<>> \in Texts /\ <<>> \in Seq(Entry) /\ DOMAIN <<>> = {}
      BY NewlineText
    <3> QED BY <2>1, <3>1 DEF Types
  <2> QED BY <2>1, <2>2, <2>3 DEF Left, Modes, BatchStatus, Running, Interactive
<1>9. CASE CtrlD
  <2>1. /\ pc = "prompt" /\ pc' = "end" /\ UNCHANGED <<args, input, rest, incomplete, typed, ran>>
    BY <1>9 DEF CtrlD, Exit
  <2> QED BY <2>1 DEF Types, Left, Modes, BatchStatus, Running, Interactive
<1>10. CASE UNCHANGED vars
  BY <1>10 DEF vars, Types, Left, LeftToRun, Modes, BatchStatus, Running, Executes, Interactive
<1> QED BY <1>1, <1>2, <1>3, <1>4, <1>5, <1>6, <1>7, <1>8, <1>9, <1>10 DEF Next

(***************************************************************************)
(* Under the laws of reading, in every session the data evaluated line by  *)
(* line are those of the lines joined into one text, each once and in      *)
(* order, and the prompt waits exactly when that text ends inside a datum  *)
(* (cli/main.cpp:64-95).                                                   *)
(***************************************************************************)
THEOREM PiecesMakeTheWhole == ASSUME ReaderLaws PROVE Spec => []PiecesAreTheWhole
<1>1. IInv => PiecesAreTheWhole
  <2> SUFFICES ASSUME IInv, pc = "prompt"
               PROVE  RunsAs(typed, ran, IF incomplete THEN "incomplete" ELSE "end")
    BY DEF PiecesAreTheWhole
  <2>1. CASE incomplete
    <3>1. PICK g \in Texts : Gap(g) /\ Unread(typed, ran) = g \o input
      BY <2>1 DEF IInv, Left, LeftToRun
    <3>2. Same(ReadOne(Unread(typed, ran)), ReadOne(input), Len(g))
      BY <3>1, ReadBehindGap DEF IInv, Types
    <3>3. ReadOne(Unread(typed, ran)).is = "incomplete"
      BY <2>1, <3>2 DEF IInv, Left, Same
    <3> QED BY <2>1, <3>3 DEF IInv, RunsAs, Outcome
  <2>2. CASE ~incomplete
    BY <2>2 DEF IInv, Left, RunsAs, Outcome
  <2> QED BY <2>1, <2>2
<1> QED BY <1>1, InitPieces, PiecesStep, PTL DEF Spec

(***************************************************************************)
(* A file, or a program on standard input, is executed datum after datum   *)
(* up to the first that throws, and the exit status tells how that came    *)
(* to its end (cli/main.cpp:28-44).                                        *)
(***************************************************************************)
THEOREM StatusTells == ASSUME ReaderLaws PROVE Spec => []BatchStatus
BY InitPieces, PiecesStep, PTL DEF Spec, IInv
-----------------------------------------------------------------------------
(***************************************************************************)
(* The reader keeps the laws.  A text is looked at inside another one,     *)
(* where nothing or the end of a line follows it (Follows): what skipping, *)
(* the lexer and read_datum come to from a position on in the one they     *)
(* come to from the same place on in the other, but that a text at its end *)
(* inside a datum may be continued there.  What is recursive in the reader *)
(* looks only at positions further on, so this, and that the recursive     *)
(* functions satisfy their equations, is shown from the end of the text    *)
(* back to its beginning (Backwards).                                      *)
(***************************************************************************)

\* A set of numbers that is not empty has a least element.
LEMMA LeastElement ==
  ASSUME NEW T, T \subseteq Nat, T # {} PROVE \E n \in T : \A m \in T : n <= m
<1> DEFINE Initials == {1 .. n : n \in T}
<1>1. Initials \subseteq FiniteSubsetsOf(Nat) /\ Initials # {}
  <2>1. \A n \in T : 1 .. n \in SUBSET Nat /\ IsFiniteSet(1 .. n)
    BY FS_Interval
  <2> QED BY <2>1 DEF FiniteSubsetsOf
<1>2. IsWellFoundedOn(StrictSubsetOrdering(Nat), FiniteSubsetsOf(Nat))
  BY FS_StrictSubsetOrderingWellFounded
<1>3. PICK B \in Initials : \A A \in Initials : <<A, B>> \notin StrictSubsetOrdering(Nat)
  <2> HIDE DEF Initials
  <2> QED BY <1>1, <1>2, WFMin
<1>4. PICK n \in T : B = 1 .. n
  BY <1>3
<1>5. ASSUME NEW m \in T, m < n PROVE FALSE
  <2>1. 1 .. m \in Initials
    OBVIOUS
  <2>2. 1 .. m \subseteq 1 .. n /\ n \in 1 .. n /\ n \notin 1 .. m
    BY <1>5
  <2>3. <<1 .. m, B>> \in StrictSubsetOrdering(Nat)
    BY <2>2, <1>4 DEF StrictSubsetOrdering
  <2> QED BY <2>1, <2>3, <1>3
<1> QED BY <1>5

\* What holds at the end of a text of n characters, and at every position
\* before one where it holds, holds everywhere.
LEMMA Backwards ==
  ASSUME NEW n \in Nat, NEW T, n + 2 \in T, \A i \in 1 .. n + 1 : i + 1 \in T => i \in T
  PROVE  1 .. n + 2 \subseteq T
<1> DEFINE F == {m \in Nat : m <= n + 1 /\ n + 2 - m \notin T}
<1>1. SUFFICES ASSUME NEW i \in 1 .. n + 2, i \notin T PROVE FALSE
  OBVIOUS
<1>2. n + 2 - i \in F
  <2>1. n + 2 - (n + 2 - i) = i /\ n + 2 - i \in Nat /\ n + 2 - i <= n + 1
    OBVIOUS
  <2> QED BY <1>1, <2>1
<1>3. PICK m \in F : \A k \in F : m <= k
  <2>1. F \subseteq Nat /\ F # {}
    BY <1>2
  <2> HIDE DEF F
  <2> QED BY <2>1, LeastElement
<1>4. m # 0
  BY <1>3
<1>5. m - 1 \in Nat /\ m - 1 \notin F /\ m - 1 <= n + 1
  BY <1>3, <1>4
<1>6. n + 2 - (m - 1) \in T /\ n + 2 - (m - 1) = n + 2 - m + 1 /\ n + 2 - m \in 1 .. n + 1
  BY <1>3, <1>4, <1>5
<1> QED BY <1>3, <1>6

\* Where the first character of S is.
LEMMA UptoLaw ==
  ASSUME NEW t, Len(t) \in Nat, NEW S, NEW i \in 1 .. Len(t) + 1
  PROVE  /\ Upto(t, i, S) \in i .. Len(t) + 1
         /\ \A j \in i .. Upto(t, i, S) - 1 : t[j] \notin S
         /\ Upto(t, i, S) <= Len(t) => t[Upto(t, i, S)] \in S
<1> DEFINE P == {Len(t) + 1} \cup {j \in i .. Len(t) : t[j] \in S}
<1>1. P \subseteq Nat /\ P # {}
  OBVIOUS
<1>2. PICK n \in P : \A m \in P : n <= m
  <2> HIDE DEF P
  <2> QED BY <1>1, LeastElement
<1>3. Upto(t, i, S) = CHOOSE x \in P : \A y \in P : x <= y
  BY DEF Upto, Min
<1>4. Upto(t, i, S) \in P /\ \A y \in P : Upto(t, i, S) <= y
  <2> HIDE DEF P
  <2> QED BY <1>2, <1>3
<1>5. Upto(t, i, S) \in i .. Len(t) + 1
  BY <1>4
<1>6. ASSUME NEW j \in i .. Upto(t, i, S) - 1 PROVE t[j] \notin S
  BY <1>4, <1>5
<1> QED BY <1>4, <1>5, <1>6

\* It is the only place of which those laws hold.
LEMMA UptoIs ==
  ASSUME NEW t, Len(t) \in Nat, NEW S, NEW i \in 1 .. Len(t) + 1, NEW n \in i .. Len(t) + 1,
         \A j \in i .. n - 1 : t[j] \notin S, n <= Len(t) => t[n] \in S
  PROVE  Upto(t, i, S) = n
<1> DEFINE u == Upto(t, i, S)
<1>1. /\ u \in i .. Len(t) + 1 /\ \A j \in i .. u - 1 : t[j] \notin S
      /\ u <= Len(t) => t[u] \in S
  BY UptoLaw
<1> HIDE DEF u
<1>2. ~(u < n) /\ ~(n < u)
  BY <1>1
<1> QED BY <1>1, <1>2 DEF u

\* Skipping at one position, and from one on to the end.
SkipRow(t, h, i) == [d \in Nat |-> skip(t, h, i, d)]
SkipsFrom(t, i, h) == h = [j \in i .. Len(t) + 1 |-> SkipRow(t, h, j)]

\* Characters that begin different things.
LEMMA Signs ==
  /\ LineEnd \notin {Semicolon, Bar, "#"}
  /\ Bar \notin {Semicolon, LineEnd, "#"} /\ Semicolon # "#"
BY Zenon DEF LineEnd, Bar, Semicolon

\* What skip finds at a position.
AtOpen(t, i) == AtWord(t, i, "#", Bar)
AtClose(t, i, d) == AtWord(t, i, Bar, "#") /\ d > 0
AtLine(t, i, d) == i <= Len(t) /\ t[i] = Semicolon /\ d = 0
Elsewhere(t, i, d) ==
  i <= Len(t) /\ ~AtOpen(t, i) /\ ~AtClose(t, i, d) /\ ~AtLine(t, i, d)

\* The five cases of skip exclude one another, and one of them holds.
LEMMA SkipCases ==
  ASSUME NEW t, Len(t) \in Nat, NEW i \in 1 .. Len(t) + 1, NEW d \in Nat
  PROVE  /\ i > Len(t) => ~AtOpen(t, i) /\ ~AtClose(t, i, d) /\ ~AtLine(t, i, d)
         /\ AtOpen(t, i) => ~AtClose(t, i, d) /\ ~AtLine(t, i, d)
         /\ AtClose(t, i, d) => ~AtLine(t, i, d)
         /\ i > Len(t) \/ AtOpen(t, i) \/ AtClose(t, i, d) \/ AtLine(t, i, d) \/ Elsewhere(t, i, d)
BY Signs DEF AtOpen, AtClose, AtLine, Elsewhere, AtWord

\* skip at the end of the text, where an open comment has no end.
LEMMA SkipEnds ==
  ASSUME NEW t, Len(t) \in Nat, NEW i \in 1 .. Len(t) + 1, NEW d \in Nat, NEW h, i > Len(t)
  PROVE  skip(t, h, i, d) = IF d = 0 THEN i ELSE 0
<1>1. skip(t, h, i, d) = CASE i > Len(t) -> IF d = 0 THEN i ELSE 0
                           [] AtOpen(t, i) -> h[i + 2][d + 1]
                           [] AtClose(t, i, d) -> h[i + 2][d - 1]
                           [] AtLine(t, i, d) -> h[Upto(t, i, {LineEnd})][d]
                           [] OTHER -> IF d > 0 \/ t[i] \in Space THEN h[i + 1][d] ELSE i
  BY DEF skip, AtOpen, AtClose, AtLine
<1>2. /\ i > Len(t) => ~AtOpen(t, i) /\ ~AtClose(t, i, d) /\ ~AtLine(t, i, d)
      /\ AtOpen(t, i) => ~AtClose(t, i, d) /\ ~AtLine(t, i, d)
      /\ AtClose(t, i, d) => ~AtLine(t, i, d)
      /\ Elsewhere(t, i, d) => ~(i > Len(t))
  BY SkipCases DEF Elsewhere
<1> QED BY <1>1, <1>2 DEF Elsewhere

\* skip where a block comment opens (src/lexer.cpp:95-107).
LEMMA SkipOpen ==
  ASSUME NEW t, Len(t) \in Nat, NEW i \in 1 .. Len(t) + 1, NEW d \in Nat, NEW h, AtOpen(t, i)
  PROVE  skip(t, h, i, d) = h[i + 2][d + 1]
<1>1. skip(t, h, i, d) = CASE i > Len(t) -> IF d = 0 THEN i ELSE 0
                           [] AtOpen(t, i) -> h[i + 2][d + 1]
                           [] AtClose(t, i, d) -> h[i + 2][d - 1]
                           [] AtLine(t, i, d) -> h[Upto(t, i, {LineEnd})][d]
                           [] OTHER -> IF d > 0 \/ t[i] \in Space THEN h[i + 1][d] ELSE i
  BY DEF skip, AtOpen, AtClose, AtLine
<1>2. /\ i > Len(t) => ~AtOpen(t, i) /\ ~AtClose(t, i, d) /\ ~AtLine(t, i, d)
      /\ AtOpen(t, i) => ~AtClose(t, i, d) /\ ~AtLine(t, i, d)
      /\ AtClose(t, i, d) => ~AtLine(t, i, d)
      /\ Elsewhere(t, i, d) => ~(i > Len(t))
  BY SkipCases DEF Elsewhere
<1> QED BY <1>1, <1>2 DEF Elsewhere

\* skip where the innermost open comment is closed.
LEMMA SkipClose ==
  ASSUME NEW t, Len(t) \in Nat, NEW i \in 1 .. Len(t) + 1, NEW d \in Nat, NEW h, AtClose(t, i, d)
  PROVE  skip(t, h, i, d) = h[i + 2][d - 1]
<1>1. skip(t, h, i, d) = CASE i > Len(t) -> IF d = 0 THEN i ELSE 0
                           [] AtOpen(t, i) -> h[i + 2][d + 1]
                           [] AtClose(t, i, d) -> h[i + 2][d - 1]
                           [] AtLine(t, i, d) -> h[Upto(t, i, {LineEnd})][d]
                           [] OTHER -> IF d > 0 \/ t[i] \in Space THEN h[i + 1][d] ELSE i
  BY DEF skip, AtOpen, AtClose, AtLine
<1>2. /\ i > Len(t) => ~AtOpen(t, i) /\ ~AtClose(t, i, d) /\ ~AtLine(t, i, d)
      /\ AtOpen(t, i) => ~AtClose(t, i, d) /\ ~AtLine(t, i, d)
      /\ AtClose(t, i, d) => ~AtLine(t, i, d)
      /\ Elsewhere(t, i, d) => ~(i > Len(t))
  BY SkipCases DEF Elsewhere
<1> QED BY <1>1, <1>2 DEF Elsewhere

\* skip where a comment up to the end of the line begins.
LEMMA SkipLine ==
  ASSUME NEW t, Len(t) \in Nat, NEW i \in 1 .. Len(t) + 1, NEW d \in Nat, NEW h, AtLine(t, i, d)
  PROVE  skip(t, h, i, d) = h[Upto(t, i, {LineEnd})][d]
<1>1. skip(t, h, i, d) = CASE i > Len(t) -> IF d = 0 THEN i ELSE 0
                           [] AtOpen(t, i) -> h[i + 2][d + 1]
                           [] AtClose(t, i, d) -> h[i + 2][d - 1]
                           [] AtLine(t, i, d) -> h[Upto(t, i, {LineEnd})][d]
                           [] OTHER -> IF d > 0 \/ t[i] \in Space THEN h[i + 1][d] ELSE i
  BY DEF skip, AtOpen, AtClose, AtLine
<1>2. /\ i > Len(t) => ~AtOpen(t, i) /\ ~AtClose(t, i, d) /\ ~AtLine(t, i, d)
      /\ AtOpen(t, i) => ~AtClose(t, i, d) /\ ~AtLine(t, i, d)
      /\ AtClose(t, i, d) => ~AtLine(t, i, d)
      /\ Elsewhere(t, i, d) => ~(i > Len(t))
  BY SkipCases DEF Elsewhere
<1> QED BY <1>1, <1>2 DEF Elsewhere

\* skip at any other character.
LEMMA SkipOne ==
  ASSUME NEW t, Len(t) \in Nat, NEW i \in 1 .. Len(t) + 1, NEW d \in Nat, NEW h, Elsewhere(t, i, d)
  PROVE  skip(t, h, i, d) = IF d > 0 \/ t[i] \in Space THEN h[i + 1][d] ELSE i
<1>1. skip(t, h, i, d) = CASE i > Len(t) -> IF d = 0 THEN i ELSE 0
                           [] AtOpen(t, i) -> h[i + 2][d + 1]
                           [] AtClose(t, i, d) -> h[i + 2][d - 1]
                           [] AtLine(t, i, d) -> h[Upto(t, i, {LineEnd})][d]
                           [] OTHER -> IF d > 0 \/ t[i] \in Space THEN h[i + 1][d] ELSE i
  BY DEF skip, AtOpen, AtClose, AtLine
<1>2. /\ i > Len(t) => ~AtOpen(t, i) /\ ~AtClose(t, i, d) /\ ~AtLine(t, i, d)
      /\ AtOpen(t, i) => ~AtClose(t, i, d) /\ ~AtLine(t, i, d)
      /\ AtClose(t, i, d) => ~AtLine(t, i, d)
      /\ Elsewhere(t, i, d) => ~(i > Len(t))
  BY SkipCases DEF Elsewhere
<1> QED BY <1>1, <1>2 DEF Elsewhere

\* Skipping looks only further on.
LEMMA SkipLooksOn ==
  ASSUME NEW t, Len(t) \in Nat, NEW i \in 1 .. Len(t) + 1, NEW g, NEW h,
         \A j \in i + 1 .. Len(t) + 1 : g[j] = h[j]
  PROVE  SkipRow(t, g, i) = SkipRow(t, h, i)
<1> DEFINE u == Upto(t, i, {LineEnd})
<1>1. i <= Len(t) => g[i + 1] = h[i + 1]
  OBVIOUS
<1>2. AtWord(t, i, "#", Bar) \/ AtWord(t, i, Bar, "#") => g[i + 2] = h[i + 2]
  BY DEF AtWord
<1>3. i <= Len(t) /\ t[i] = Semicolon => g[u] = h[u]
  <2>1. u \in i .. Len(t) + 1 /\ (u <= Len(t) => t[u] = LineEnd)
    BY UptoLaw
  <2> HIDE DEF u
  <2> QED BY <2>1, Signs
<1> HIDE DEF u
<1>4. ASSUME NEW d \in Nat PROVE skip(t, g, i, d) = skip(t, h, i, d)
  <2>1. CASE i > Len(t)
    BY <2>1, SkipEnds
  <2>2. CASE AtOpen(t, i)
    <3>1. skip(t, g, i, d) = g[i + 2][d + 1] /\ skip(t, h, i, d) = h[i + 2][d + 1]
      BY <2>2, SkipOpen
    <3>2. g[i + 2] = h[i + 2]
      BY <1>2, <2>2 DEF AtOpen
    <3> QED BY <3>1, <3>2
  <2>3. CASE AtClose(t, i, d)
    BY <1>2, <2>3, SkipClose DEF AtClose
  <2>4. CASE AtLine(t, i, d)
    <3>1. skip(t, g, i, d) = g[u][d] /\ skip(t, h, i, d) = h[u][d]
      BY <2>4, SkipLine DEF u
    <3> QED BY <1>3, <2>4, <3>1 DEF AtLine
  <2>5. CASE Elsewhere(t, i, d)
    BY <1>1, <2>5, SkipOne DEF Elsewhere
  <2> QED BY <2>1, <2>2, <2>3, <2>4, <2>5, SkipCases
<1> QED BY <1>4 DEF SkipRow

\* The equations of Skipping have a solution.
LEMMA SkippingExists == ASSUME NEW t, Len(t) \in Nat PROVE \E h : SkipsFrom(t, 1, h)
<1> DEFINE T == {i \in 1 .. Len(t) + 2 : \E h : SkipsFrom(t, i, h)}
<1>1. Len(t) + 2 \in T
  <2> DEFINE none == [j \in Len(t) + 2 .. Len(t) + 1 |-> {}]
  <2>1. Len(t) + 2 .. Len(t) + 1 = {}
    OBVIOUS
  <2>2. none = [j \in Len(t) + 2 .. Len(t) + 1 |-> SkipRow(t, none, j)]
    BY <2>1
  <2> HIDE DEF none
  <2> QED BY <2>2 DEF SkipsFrom
<1>2. ASSUME NEW i \in 1 .. Len(t) + 1, i + 1 \in T PROVE i \in T
  <2>1. PICK h : SkipsFrom(t, i + 1, h)
    BY <1>2
  <2> DEFINE g == [j \in i .. Len(t) + 1 |-> IF j = i THEN SkipRow(t, h, i) ELSE h[j]]
  <2>2. g[i] = SkipRow(t, h, i) /\ \A j \in i + 1 .. Len(t) + 1 : g[j] = h[j]
    OBVIOUS
  <2>3. g = [j \in i .. Len(t) + 1 |-> g[j]]
    OBVIOUS
  <2> HIDE DEF g
  <2>4. ASSUME NEW j \in i .. Len(t) + 1 PROVE g[j] = SkipRow(t, g, j)
    <3>1. SkipRow(t, g, j) = SkipRow(t, h, j)
      <4>1. j \in 1 .. Len(t) + 1 /\ \A k \in j + 1 .. Len(t) + 1 : g[k] = h[k]
        BY <2>2
      <4> QED BY <4>1, SkipLooksOn
    <3>2. j # i => h[j] = SkipRow(t, h, j)
      BY <2>1 DEF SkipsFrom
    <3> QED BY <2>2, <3>1, <3>2
  <2>5. SkipsFrom(t, i, g)
    BY <2>3, <2>4, Zenon DEF SkipsFrom
  <2> QED BY <2>5
<1>3. 1 .. Len(t) + 2 \subseteq T
  <2> HIDE DEF T
  <2> QED BY <1>1, <1>2, Backwards
<1>4. 1 \in T
  BY <1>3
<1> QED BY <1>4

\* Skipping is what skip says of it.
LEMMA SkippingLaw ==
  ASSUME NEW t, Len(t) \in Nat, NEW i \in 1 .. Len(t) + 1, NEW d \in Nat
  PROVE  Skipping(t)[i][d] = skip(t, Skipping(t), i, d)
<1> DEFINE H == CHOOSE h : h = [j \in 1 .. Len(t) + 1 |-> [e \in Nat |-> skip(t, h, j, e)]]
<1>1. \E h : h = [j \in 1 .. Len(t) + 1 |-> [e \in Nat |-> skip(t, h, j, e)]]
  <2>1. PICK h : SkipsFrom(t, 1, h)
    BY SkippingExists
  <2> QED BY <2>1 DEF SkipsFrom, SkipRow
<1>2. H = [j \in 1 .. Len(t) + 1 |-> [e \in Nat |-> skip(t, H, j, e)]]
  BY <1>1
<1>3. Skipping(t) = H
  BY DEF Skipping
<1> HIDE DEF H
<1>4. H[i] = [e \in Nat |-> skip(t, H, i, e)]
  BY <1>2, Zenon
<1>5. H[i][d] = skip(t, H, i, d)
  BY <1>4
<1> QED BY <1>3, <1>5

(***************************************************************************)
(* A text inside another one, k characters into it: nothing follows it     *)
(* there, or the end of a line.                                            *)
(***************************************************************************)
Follows(t, u, k) ==
  /\ t \in Texts /\ u \in Texts /\ k \in Nat /\ Len(u) >= Len(t) + k
  /\ \A i \in 1 .. Len(t) : u[i + k] = t[i]
  /\ Len(u) > Len(t) + k => u[Len(t) + k + 1] = LineEnd
Whole(t, u, k) == Len(u) = Len(t) + k

\* Where a text is, and its positions are, inside another one.
LEMMA Lengths ==
  ASSUME NEW t, NEW u, NEW k, Follows(t, u, k)
  PROVE  /\ Len(t) \in Nat /\ Len(u) \in Nat /\ k \in Nat /\ t \in Texts /\ u \in Texts
         /\ \A i \in 1 .. Len(t) + 1 : i + k \in 1 .. Len(u) + 1
BY LenNat DEF Follows

\* Two characters that stand together do so inside another text.
LEMMA WordMoved ==
  ASSUME NEW t, NEW u, NEW k, Follows(t, u, k), NEW i \in 1 .. Len(t), NEW a, NEW b, b # LineEnd
  PROVE  AtWord(u, i + k, a, b) <=> AtWord(t, i, a, b)
<1>1. Len(t) \in Nat /\ Len(u) \in Nat /\ k \in Nat /\ u[i + k] = t[i]
  BY Lengths DEF Follows
<1>2. CASE i < Len(t)
  <2>1. (i + 1) + k = (i + k) + 1 /\ i + 1 \in 1 .. Len(t) /\ i + k < Len(u)
    BY <1>1, <1>2 DEF Follows
  <2>2. u[(i + k) + 1] = t[i + 1]
    BY <2>1 DEF Follows
  <2> QED BY <1>1, <1>2, <2>1, <2>2 DEF AtWord
<1>3. CASE i = Len(t)
  <2>1. ~AtWord(t, i, a, b)
    BY <1>1, <1>3 DEF AtWord
  <2>2. i + k < Len(u) => u[(i + k) + 1] = LineEnd
    BY <1>1, <1>3 DEF Follows
  <2> QED BY <2>1, <2>2 DEF AtWord
<1> QED BY <1>1, <1>2, <1>3

\* The first character of S is found inside another text if the end of a line
\* is one.
LEMMA UptoMoved ==
  ASSUME NEW t, NEW u, NEW k, Follows(t, u, k), NEW i \in 1 .. Len(t) + 1, NEW S, LineEnd \in S
  PROVE  Upto(u, i + k, S) = Upto(t, i, S) + k
<1> DEFINE n == Upto(t, i, S)
<1>1. /\ Len(t) \in Nat /\ Len(u) \in Nat /\ k \in Nat /\ i + k \in 1 .. Len(u) + 1
      /\ Len(u) >= Len(t) + k
  BY Lengths DEF Follows
<1>2. /\ n \in i .. Len(t) + 1 /\ \A j \in i .. n - 1 : t[j] \notin S
      /\ n <= Len(t) => t[n] \in S
  BY <1>1, UptoLaw
<1> HIDE DEF n
<1>3. n + k \in i + k .. Len(u) + 1
  BY <1>1, <1>2
<1>4. ASSUME NEW j \in i + k .. (n + k) - 1 PROVE u[j] \notin S
  <2>1. j - k \in i .. n - 1 /\ j - k \in 1 .. Len(t) /\ (j - k) + k = j
    BY <1>1, <1>2
  <2>2. u[j] = t[j - k]
    BY <2>1 DEF Follows
  <2> QED BY <1>2, <2>1, <2>2
<1>5. ASSUME n + k <= Len(u) PROVE u[n + k] \in S
  <2>1. CASE n <= Len(t)
    BY <1>1, <1>2, <2>1 DEF Follows
  <2>2. CASE n = Len(t) + 1
    <3>1. Len(u) > Len(t) + k /\ n + k = Len(t) + k + 1
      BY <1>1, <1>5, <2>2
    <3> QED BY <3>1 DEF Follows
  <2> QED BY <1>1, <1>2, <2>1, <2>2
<1>6. Upto(u, i + k, S) = n + k
  BY <1>1, <1>3, <1>4, <1>5, UptoIs
<1> QED BY <1>6 DEF n

\* Skipping ends in the text, before something that is not skipped, or nowhere.
LEMMA SkipType ==
  ASSUME NEW t, Len(t) \in Nat, NEW i \in 1 .. Len(t) + 1, NEW d \in Nat
  PROVE  /\ Skipping(t)[i][d] \in {0} \cup i .. Len(t) + 1
         /\ Skipping(t)[i][d] \in 1 .. Len(t) => t[Skipping(t)[i][d]] \notin Space \cup {Semicolon}
<1> DEFINE s == Skipping(t)
           Q(j, n) == /\ n \in {0} \cup j .. Len(t) + 1
                      /\ n \in 1 .. Len(t) => t[n] \notin Space \cup {Semicolon}
           P(j) == \A e \in Nat : Q(j, s[j][e])
           T == {j \in 1 .. Len(t) + 2 : \A l \in j .. Len(t) + 1 : P(l)}
<1>1. Len(t) + 2 \in T
  OBVIOUS
<1>2. ASSUME NEW j \in 1 .. Len(t) + 1, j + 1 \in T PROVE j \in T
  <2>1. \A l \in j + 1 .. Len(t) + 1 : P(l)
    BY <1>2
  <2>2. ASSUME NEW e \in Nat PROVE Q(j, s[j][e])
    <3>1. s[j][e] = skip(t, s, j, e)
      BY SkippingLaw
    <3> HIDE DEF s
    <3>2. CASE j > Len(t)
      BY <3>1, <3>2, SkipEnds
    <3>3. CASE AtOpen(t, j)
      <4>1. j + 2 \in j + 1 .. Len(t) + 1
        BY <3>3 DEF AtOpen, AtWord
      <4>2. s[j][e] = s[j + 2][e + 1]
        BY <3>1, <3>3, SkipOpen
      <4> QED BY <2>1, <4>1, <4>2
    <3>4. CASE AtClose(t, j, e)
      <4>1. j + 2 \in j + 1 .. Len(t) + 1 /\ e - 1 \in Nat
        BY <3>4 DEF AtClose, AtWord
      <4>2. s[j][e] = s[j + 2][e - 1]
        BY <3>1, <3>4, SkipClose
      <4> QED BY <2>1, <4>1, <4>2
    <3>5. CASE AtLine(t, j, e)
      <4> DEFINE u == Upto(t, j, {LineEnd})
      <4>1. u \in j .. Len(t) + 1 /\ (u <= Len(t) => t[u] = LineEnd)
        BY UptoLaw
      <4>2. s[j][e] = s[u][e]
        BY <3>1, <3>5, SkipLine
      <4> HIDE DEF u
      <4>3. u \in j + 1 .. Len(t) + 1
        BY <3>5, <4>1, Signs DEF AtLine
      <4> QED BY <2>1, <4>2, <4>3
    <3>6. CASE Elsewhere(t, j, e)
      <4>1. s[j][e] = IF e > 0 \/ t[j] \in Space THEN s[j + 1][e] ELSE j
        BY <3>1, <3>6, SkipOne
      <4>2. j + 1 \in j + 1 .. Len(t) + 1
        BY <3>6 DEF Elsewhere
      <4>3. CASE e > 0 \/ t[j] \in Space
        BY <2>1, <4>1, <4>2, <4>3
      <4>4. CASE ~(e > 0 \/ t[j] \in Space)
        BY <3>6, <4>1, <4>2, <4>4 DEF Elsewhere, AtLine
      <4> QED BY <4>3, <4>4
    <3> QED BY <3>2, <3>3, <3>4, <3>5, <3>6, SkipCases
  <2>3. P(j)
    BY <2>2
  <2> QED BY <2>1, <2>3
<1>3. 1 .. Len(t) + 2 \subseteq T
  <2> HIDE DEF T
  <2> QED BY <1>1, <1>2, Backwards
<1>4. P(i)
  BY <1>3
<1> QED BY <1>4

\* Where skipping comes to inside another text.
LEMMA SkipMoved ==
  ASSUME NEW t, NEW u, NEW k, Follows(t, u, k), NEW i \in 1 .. Len(t) + 1, NEW d \in Nat
  PROVE  /\ Skipping(t)[i][d] \in 1 .. Len(t)
              => Skipping(u)[i + k][d] = Skipping(t)[i][d] + k
         /\ Skipping(t)[i][d] = Len(t) + 1
              => Skipping(u)[i + k][d] = Skipping(u)[(Len(t) + 1) + k][0]
         /\ Skipping(t)[i][d] = 0 /\ Whole(t, u, k) => Skipping(u)[i + k][d] = 0
<1> DEFINE s == Skipping(t)   v == Skipping(u)
           Moved(x, y) == /\ x \in 1 .. Len(t) => y = x + k
                          /\ x = Len(t) + 1 => y = v[(Len(t) + 1) + k][0]
                          /\ x = 0 /\ Whole(t, u, k) => y = 0
           P(j) == \A e \in Nat : Moved(s[j][e], v[j + k][e])
           T == {j \in 1 .. Len(t) + 2 : \A l \in j .. Len(t) + 1 : P(l)}
<1>0. /\ Len(t) \in Nat /\ Len(u) \in Nat /\ k \in Nat
      /\ \A j \in 1 .. Len(t) + 1 : j + k \in 1 .. Len(u) + 1
      /\ \A j \in 1 .. Len(t) : u[j + k] = t[j] /\ j + k <= Len(u)
  BY Lengths DEF Follows
<1>1. Len(t) + 2 \in T
  BY <1>0
<1>2. ASSUME NEW j \in 1 .. Len(t) + 1, j + 1 \in T PROVE j \in T
  <2>1. \A l \in j + 1 .. Len(t) + 1 : P(l)
    BY <1>2
  <2>2. ASSUME NEW e \in Nat PROVE Moved(s[j][e], v[j + k][e])
    <3>1. s[j][e] = skip(t, s, j, e) /\ v[j + k][e] = skip(u, v, j + k, e)
      BY <1>0, SkippingLaw
    <3>2. \A l \in j + 1 .. Len(t) + 1, f \in Nat :
            s[j][e] = s[l][f] /\ v[j + k][e] = v[l + k][f] => Moved(s[j][e], v[j + k][e])
      BY <2>1
    <3> HIDE DEF s, v, P, T
    <3>3. CASE j > Len(t)
      <4>1. s[j][e] = IF e = 0 THEN j ELSE 0
        BY <1>0, <3>1, <3>3, SkipEnds
      <4>2. j = Len(t) + 1
        BY <1>0, <3>3
      <4>3. Whole(t, u, k) => v[j + k][e] = IF e = 0 THEN j + k ELSE 0
        <5>1. ASSUME Whole(t, u, k) PROVE j + k > Len(u)
          BY <1>0, <4>2, <5>1 DEF Whole
        <5> QED BY <1>0, <3>1, <5>1, SkipEnds
      <4> QED BY <1>0, <4>1, <4>2, <4>3
    <3>4. CASE j <= Len(t)
      <4>1. /\ AtOpen(u, j + k) <=> AtOpen(t, j)
            /\ AtClose(u, j + k, e) <=> AtClose(t, j, e)
            /\ AtLine(u, j + k, e) <=> AtLine(t, j, e)
            /\ Elsewhere(u, j + k, e) <=> Elsewhere(t, j, e)
        <5>1. AtOpen(u, j + k) <=> AtOpen(t, j)
          BY <3>4, Signs, WordMoved DEF AtOpen
        <5>2. AtClose(u, j + k, e) <=> AtClose(t, j, e)
          BY <3>4, Signs, WordMoved DEF AtClose
        <5>3. AtLine(u, j + k, e) <=> AtLine(t, j, e)
          BY <1>0, <3>4 DEF AtLine
        <5> QED BY <1>0, <3>4, <5>1, <5>2, <5>3 DEF Elsewhere
      <4>2. CASE AtOpen(t, j)
        <5>1. j + 2 \in j + 1 .. Len(t) + 1 /\ (j + k) + 2 = (j + 2) + k
          BY <1>0, <4>2 DEF AtOpen, AtWord
        <5>2. s[j][e] = s[j + 2][e + 1]
          BY <1>0, <3>1, <4>2, SkipOpen
        <5>3. v[j + k][e] = v[(j + k) + 2][e + 1]
          <6>1. AtOpen(u, j + k) /\ j + k \in 1 .. Len(u) + 1
            BY <1>0, <4>1, <4>2
          <6> DEFINE l == j + k
          <6> HIDE DEF l
          <6>2. skip(u, v, l, e) = v[l + 2][e + 1]
            BY <1>0, <6>1, SkipOpen DEF l
          <6> QED BY <3>1, <6>2 DEF l
        <5> QED BY <3>2, <5>1, <5>2, <5>3
      <4>3. CASE AtClose(t, j, e)
        <5>1. j + 2 \in j + 1 .. Len(t) + 1 /\ (j + k) + 2 = (j + 2) + k /\ e - 1 \in Nat
          BY <1>0, <4>3 DEF AtClose, AtWord
        <5>2. s[j][e] = s[j + 2][e - 1]
          BY <1>0, <3>1, <4>3, SkipClose
        <5>3. v[j + k][e] = v[(j + k) + 2][e - 1]
          BY <1>0, <3>1, <4>1, <4>3, SkipClose
        <5> QED BY <3>2, <5>1, <5>2, <5>3
      <4>4. CASE AtLine(t, j, e)
        <5> DEFINE n == Upto(t, j, {LineEnd})
        <5>1. n \in j .. Len(t) + 1 /\ (n <= Len(t) => t[n] = LineEnd)
          BY <1>0, UptoLaw
        <5>2. Upto(u, j + k, {LineEnd}) = n + k
          BY UptoMoved
        <5>3. s[j][e] = s[n][e]
          BY <1>0, <3>1, <4>4, SkipLine
        <5>4. v[j + k][e] = v[n + k][e]
          <6>1. AtLine(u, j + k, e) /\ j + k \in 1 .. Len(u) + 1
            BY <1>0, <4>1, <4>4
          <6> DEFINE l == j + k
          <6> HIDE DEF l, n
          <6>2. skip(u, v, l, e) = v[Upto(u, l, {LineEnd})][e]
            BY <1>0, <6>1, SkipLine DEF l
          <6> QED BY <3>1, <5>2, <6>2 DEF l
        <5> HIDE DEF n
        <5>5. n \in j + 1 .. Len(t) + 1
          BY <1>0, <4>4, <5>1, Signs DEF AtLine
        <5> QED BY <3>2, <5>3, <5>4, <5>5
      <4>5. CASE Elsewhere(t, j, e)
        <5>1. s[j][e] = IF e > 0 \/ t[j] \in Space THEN s[j + 1][e] ELSE j
          BY <1>0, <3>1, <4>5, SkipOne
        <5>2. v[j + k][e] = IF e > 0 \/ u[j + k] \in Space THEN v[(j + k) + 1][e] ELSE j + k
          BY <1>0, <3>1, <4>1, <4>5, SkipOne
        <5>3. u[j + k] = t[j] /\ j + 1 \in j + 1 .. Len(t) + 1 /\ (j + k) + 1 = (j + 1) + k
          BY <1>0, <3>4
        <5>4. CASE e > 0 \/ t[j] \in Space
          BY <3>2, <5>1, <5>2, <5>3, <5>4
        <5>5. CASE ~(e > 0 \/ t[j] \in Space)
          <6>1. s[j][e] = j /\ v[j + k][e] = j + k
            BY <5>1, <5>2, <5>3, <5>5
          <6>2. j \in 1 .. Len(t) /\ j # Len(t) + 1 /\ j # 0
            BY <1>0, <3>4
          <6> QED BY <6>1, <6>2
        <5> QED BY <5>4, <5>5
      <4> QED BY <1>0, <3>4, <4>2, <4>3, <4>4, <4>5, SkipCases
    <3> QED BY <1>0, <3>3, <3>4
  <2>3. P(j)
    BY <2>2
  <2> QED BY <2>1, <2>3
<1>3. 1 .. Len(t) + 2 \subseteq T
  <2> HIDE DEF T
  <2> QED BY <1>0, <1>1, <1>2, Backwards
<1>4. i \in T
  <2> HIDE DEF T
  <2> QED BY <1>0, <1>3
<1>5. P(i)
  BY <1>4
<1> QED BY <1>5

(***************************************************************************)
(* Strings.  The equations of StringEnd, at one position and from one on.  *)
(***************************************************************************)
EndAt(t, h, j) == IF j > Len(t) THEN 0
                  ELSE IF t[j] = DoubleQuote THEN j
                  ELSE h[IF t[j] = Backslash THEN j + 2 ELSE j + 1]
EndsFrom(t, i, h) == h = [j \in i .. Len(t) + 2 |-> EndAt(t, h, j)]

\* The equations of StringEnd have a solution.
LEMMA StringEndsExist == ASSUME NEW t, Len(t) \in Nat PROVE \E h : EndsFrom(t, 1, h)
<1> DEFINE T == {i \in 1 .. Len(t) + 2 : \E h : EndsFrom(t, i, h)}
<1>1. Len(t) + 2 \in T
  <2> DEFINE h == [j \in Len(t) + 2 .. Len(t) + 2 |-> 0]
  <2>1. \A j \in Len(t) + 2 .. Len(t) + 2 : EndAt(t, h, j) = 0
    BY DEF EndAt
  <2>2. EndsFrom(t, Len(t) + 2, h)
    BY <2>1 DEF EndsFrom
  <2> QED BY <2>2
<1>2. ASSUME NEW i \in 1 .. Len(t) + 1, i + 1 \in T PROVE i \in T
  <2>1. PICK h : EndsFrom(t, i + 1, h)
    BY <1>2
  <2> DEFINE g == [j \in i .. Len(t) + 2 |-> IF j = i THEN EndAt(t, h, i) ELSE h[j]]
  <2>2. g[i] = EndAt(t, h, i) /\ \A j \in i + 1 .. Len(t) + 2 : g[j] = h[j]
    OBVIOUS
  <2>3. g = [j \in i .. Len(t) + 2 |-> g[j]]
    OBVIOUS
  <2> HIDE DEF g
  <2>4. ASSUME NEW j \in i .. Len(t) + 2 PROVE g[j] = EndAt(t, g, j)
    <3>1. j <= Len(t) => g[j + 1] = h[j + 1] /\ g[j + 2] = h[j + 2]
      BY <2>2
    <3>2. EndAt(t, g, j) = EndAt(t, h, j)
      BY <3>1 DEF EndAt
    <3>3. j # i => h[j] = EndAt(t, h, j)
      BY <2>1 DEF EndsFrom
    <3> QED BY <2>2, <3>2, <3>3
  <2>5. EndsFrom(t, i, g)
    BY <2>3, <2>4, Zenon DEF EndsFrom
  <2> QED BY <2>5
<1>3. 1 .. Len(t) + 2 \subseteq T
  <2> HIDE DEF T
  <2> QED BY <1>1, <1>2, Backwards
<1>4. 1 \in T
  BY <1>3
<1> QED BY <1>4

\* StringEnd is what they say (src/lexer.cpp:133-150).
LEMMA StringEndLaw ==
  ASSUME NEW t, Len(t) \in Nat, NEW i \in 1 .. Len(t) + 2
  PROVE  /\ i > Len(t) => StringEnd(t, i) = 0
         /\ i <= Len(t) /\ t[i] = DoubleQuote => StringEnd(t, i) = i
         /\ i <= Len(t) /\ t[i] # DoubleQuote /\ t[i] = Backslash
              => StringEnd(t, i) = StringEnd(t, i + 2)
         /\ i <= Len(t) /\ t[i] # DoubleQuote /\ t[i] # Backslash
              => StringEnd(t, i) = StringEnd(t, i + 1)
<1> DEFINE H == CHOOSE h : h = [j \in 1 .. Len(t) + 2 |->
                  IF j > Len(t) THEN 0
                  ELSE IF t[j] = DoubleQuote THEN j
                  ELSE h[IF t[j] = Backslash THEN j + 2 ELSE j + 1]]
<1>1. \E h : h = [j \in 1 .. Len(t) + 2 |->
                  IF j > Len(t) THEN 0
                  ELSE IF t[j] = DoubleQuote THEN j
                  ELSE h[IF t[j] = Backslash THEN j + 2 ELSE j + 1]]
  <2>1. PICK h : EndsFrom(t, 1, h)
    BY StringEndsExist
  <2> QED BY <2>1 DEF EndsFrom, EndAt
<1>2. H = [j \in 1 .. Len(t) + 2 |->
                  IF j > Len(t) THEN 0
                  ELSE IF t[j] = DoubleQuote THEN j
                  ELSE H[IF t[j] = Backslash THEN j + 2 ELSE j + 1]]
  BY <1>1
<1>3. \A j : StringEnd(t, j) = H[j]
  BY DEF StringEnd
<1> HIDE DEF H
<1>4. H[i] = IF i > Len(t) THEN 0
             ELSE IF t[i] = DoubleQuote THEN i
             ELSE H[IF t[i] = Backslash THEN i + 2 ELSE i + 1]
  BY <1>2
<1> QED BY <1>3, <1>4

\* A string is closed at the same place inside another text.
LEMMA StringMoved ==
  ASSUME NEW t, NEW u, NEW k, Follows(t, u, k), NEW i \in 1 .. Len(t) + 2
  PROVE  /\ StringEnd(t, i) \in {0} \cup i .. Len(t)
         /\ StringEnd(t, i) # 0 => StringEnd(u, i + k) = StringEnd(t, i) + k
         /\ Whole(t, u, k) /\ StringEnd(t, i) = 0 => StringEnd(u, i + k) = 0
<1> DEFINE P(j) == /\ StringEnd(t, j) \in {0} \cup j .. Len(t)
                   /\ StringEnd(t, j) # 0 => StringEnd(u, j + k) = StringEnd(t, j) + k
                   /\ Whole(t, u, k) /\ StringEnd(t, j) = 0 => StringEnd(u, j + k) = 0
           T == {j \in 1 .. Len(t) + 2 : \A l \in j .. Len(t) + 2 : P(l)}
<1>0. /\ Len(t) \in Nat /\ Len(u) \in Nat /\ k \in Nat
      /\ \A j \in 1 .. Len(t) + 1 : j + k \in 1 .. Len(u) + 1
      /\ \A j \in 1 .. Len(t) : u[j + k] = t[j] /\ j + k <= Len(u)
  BY Lengths DEF Follows
<1>1. ASSUME NEW j \in Len(t) + 1 .. Len(t) + 2 PROVE P(j)
  <2>1. StringEnd(t, j) = 0
    BY <1>0, StringEndLaw
  <2>2. ASSUME Whole(t, u, k) PROVE StringEnd(u, j + k) = 0
    <3> DEFINE l == j + k
    <3>1. l \in 1 .. Len(u) + 2 /\ l > Len(u)
      BY <1>0, <2>2 DEF Whole
    <3> HIDE DEF l
    <3>2. StringEnd(u, l) = 0
      BY <1>0, <3>1, StringEndLaw
    <3> QED BY <3>2 DEF l
  <2> QED BY <2>1, <2>2
<1>2. Len(t) + 2 \in T
  BY <1>0, <1>1
<1>3. ASSUME NEW j \in 1 .. Len(t) + 1, j + 1 \in T PROVE j \in T
  <2>1. \A l \in j + 1 .. Len(t) + 2 : P(l)
    BY <1>3
  <2>2. CASE j > Len(t)
    BY <1>0, <1>1, <2>1, <2>2
  <2>3. CASE j <= Len(t)
    <3> DEFINE l == j + k
    <3>1. l \in 1 .. Len(u) + 2 /\ l <= Len(u) /\ u[l] = t[j]
      BY <1>0, <2>3
    <3> HIDE DEF l
    <3>2. CASE t[j] = DoubleQuote
      <4>1. StringEnd(t, j) = j /\ StringEnd(u, l) = l
        BY <1>0, <2>3, <3>1, <3>2, StringEndLaw
      <4>2. P(j)
        BY <1>0, <2>3, <4>1 DEF l
      <4> QED BY <2>1, <4>2
    <3>3. ASSUME NEW n \in j + 1 .. Len(t) + 2, StringEnd(t, j) = StringEnd(t, n),
                 StringEnd(u, l) = StringEnd(u, n + k)
          PROVE  j \in T
      <4>1. P(n)
        BY <2>1
      <4>2. P(j)
        BY <3>3, <4>1 DEF l
      <4> QED BY <2>1, <4>2
    <3>4. CASE t[j] # DoubleQuote /\ t[j] = Backslash
      <4>1. j + 2 \in j + 1 .. Len(t) + 2 /\ l + 2 = (j + 2) + k
        BY <1>0, <2>3 DEF l
      <4>2. StringEnd(t, j) = StringEnd(t, j + 2)
        BY <1>0, <2>3, <3>4, StringEndLaw
      <4>3. StringEnd(u, l) = StringEnd(u, l + 2)
        BY <1>0, <3>1, <3>4, StringEndLaw
      <4> QED BY <3>3, <4>1, <4>2, <4>3
    <3>5. CASE t[j] # DoubleQuote /\ t[j] # Backslash
      <4>1. j + 1 \in j + 1 .. Len(t) + 2 /\ l + 1 = (j + 1) + k
        BY <1>0, <2>3 DEF l
      <4>2. StringEnd(t, j) = StringEnd(t, j + 1)
        BY <1>0, <2>3, <3>5, StringEndLaw
      <4>3. StringEnd(u, l) = StringEnd(u, l + 1)
        BY <1>0, <3>1, <3>5, StringEndLaw
      <4> QED BY <3>3, <4>1, <4>2, <4>3
    <3> QED BY <3>2, <3>4, <3>5
  <2> QED BY <1>0, <2>2, <2>3
<1>4. 1 .. Len(t) + 2 \subseteq T
  <2> HIDE DEF T
  <2> QED BY <1>0, <1>2, <1>3, Backwards
<1>5. i \in T
  <2> HIDE DEF T
  <2> QED BY <1>0, <1>4
<1> QED BY <1>5

(***************************************************************************)
(* Tokens.  What is read at a position, k characters further on.           *)
(***************************************************************************)
MovedBy(k, r) == IF r.is = "token" THEN Token(r.type, r.v, r.to + k)
                 ELSE IF r.is = "datum" THEN Read(r.v, r.to + k) ELSE r

\* A token that begins at i ends in the text; an error or an incomplete one
\* does not.
Opening(r) == r.type \in {"list", "vector"} => r.v \in {")", "]"}
TokenIn(t, i, r) ==
  \/ r \in {Fail, Incomplete}
  \/ /\ r = Token(r.type, r.v, r.to) /\ r.to \in i + 1 .. Len(t) + 1
     /\ r.type \in {"atom", "list", "vector", "close", "quote", "dot"} /\ Opening(r)

\* What tokens, data and failures are made of.
LEMMA TokenFields ==
  ASSUME NEW type, NEW v, NEW to
  PROVE  /\ Token(type, v, to).is = "token" /\ Token(type, v, to).type = type
         /\ Token(type, v, to).v = v /\ Token(type, v, to).to = to
         /\ Read(v, to).is = "datum" /\ Read(v, to).v = v /\ Read(v, to).to = to
         /\ Fail.is = "error" /\ Incomplete.is = "incomplete" /\ End.is = "end"
BY DEF Token, Read, Fail, Incomplete, End

\* Atoms are tokens.
LEMMA AtomIn ==
  ASSUME NEW t, NEW i, NEW v, NEW to \in i + 1 .. Len(t) + 1
  PROVE  TokenIn(t, i, Atom(v, to))
BY TokenFields DEF TokenIn, Atom, Opening

\* A token moved is that token further on.
LEMMA TokenMoved ==
  ASSUME NEW type, NEW v, NEW to, NEW k
  PROVE  MovedBy(k, Token(type, v, to)) = Token(type, v, to + k)
BY TokenFields DEF MovedBy

\* What stands between two positions is the same in both texts.
Piece(t, i, j) == SubSeq(t, i, j - 1)

\* Pieces of a text are the same inside another one.
LEMMA PieceMoved ==
  ASSUME NEW t, NEW u, NEW k, Follows(t, u, k), NEW i \in 1 .. Len(t) + 1, NEW j \in i .. Len(t) + 1
  PROVE  Piece(u, i + k, j + k) = Piece(t, i, j)
<1>0. /\ Len(t) \in Nat /\ Len(u) \in Nat /\ k \in Nat /\ t \in Seq(Char) /\ u \in Seq(Char)
      /\ \A l \in 1 .. Len(t) : u[l + k] = t[l] /\ l + k \in 1 .. Len(u)
      /\ Len(u) >= Len(t) + k
  BY Lengths DEF Follows, Texts
<1> DEFINE a == SubSeq(t, i, j - 1)   b == SubSeq(u, i + k, (j + k) - 1)
<1>1. /\ a \in Seq(Char) /\ Len(a) = j - i /\ \A l \in 1 .. j - i : a[l] = t[i + l - 1]
  BY <1>0
<1>2. /\ b \in Seq(Char) /\ Len(b) = j - i /\ \A l \in 1 .. j - i : b[l] = u[(i + k) + l - 1]
  BY <1>0
<1> HIDE DEF a, b
<1>3. ASSUME NEW l \in 1 .. j - i PROVE a[l] = b[l]
  <2>1. i + l - 1 \in 1 .. Len(t) /\ (i + k) + l - 1 = (i + l - 1) + k
    BY <1>0
  <2>2. u[(i + l - 1) + k] = t[i + l - 1]
    BY <1>0, <2>1
  <2> QED BY <1>1, <1>2, <2>1, <2>2
<1>4. a = b
  BY <1>0, <1>1, <1>2, <1>3, SeqEqual
<1> QED BY <1>4 DEF a, b, Piece

\* A token in one text, and what is at its place in the other one.
TokenMoves(t, u, k, i, r, q) ==
  TokenIn(t, i, r) /\ (r.is = "token" \/ Whole(t, u, k) => q = MovedBy(k, r))

\* An atom that is the same in both texts.
LEMMA AtomMoves ==
  ASSUME NEW t, NEW u, NEW k, NEW i, NEW v, NEW to \in i + 1 .. Len(t) + 1
  PROVE  TokenMoves(t, u, k, i, Atom(v, to), Atom(v, to + k))
<1>1. TokenIn(t, i, Atom(v, to))
  BY AtomIn
<1>2. MovedBy(k, Atom(v, to)) = Atom(v, to + k)
  BY TokenMoved DEF Atom
<1> QED BY <1>1, <1>2 DEF TokenMoves

\* A failure in both texts.
LEMMA FailureMoves ==
  ASSUME NEW t, NEW u, NEW k, NEW i
  PROVE  TokenMoves(t, u, k, i, Fail, Fail) /\ TokenMoves(t, u, k, i, Incomplete, Incomplete)
BY TokenFields DEF TokenMoves, TokenIn, MovedBy

\* Words end at the same places, as the end of a line is a boundary.
LEMMA BoundaryMoved ==
  ASSUME NEW t, NEW u, NEW k, Follows(t, u, k), NEW i \in 1 .. Len(t) + 1
  PROVE  at_boundary(u, i + k) <=> at_boundary(t, i)
<1>0. /\ Len(t) \in Nat /\ Len(u) \in Nat /\ k \in Nat /\ Len(u) >= Len(t) + k
      /\ \A j \in 1 .. Len(t) : u[j + k] = t[j] /\ j + k <= Len(u)
      /\ Len(u) > Len(t) + k => u[Len(t) + k + 1] = LineEnd
  BY Lengths DEF Follows
<1>1. LineEnd \in Boundaries
  BY DEF Boundaries, Space
<1>2. CASE i <= Len(t)
  BY <1>0, <1>2 DEF at_boundary
<1>3. CASE i = Len(t) + 1
  <2>1. i + k = Len(t) + k + 1
    BY <1>0, <1>3
  <2> QED BY <1>0, <1>1, <1>3, <2>1 DEF at_boundary
<1> QED BY <1>0, <1>2, <1>3

\* Strings, with their escapes (src/lexer.cpp:133-150).
LEMMA StringTokenMoves ==
  ASSUME NEW t, NEW u, NEW k, Follows(t, u, k), NEW i \in 1 .. Len(t)
  PROVE  TokenMoves(t, u, k, i, string_token(t, i + 1), string_token(u, i + k + 1))
<1> DEFINE e == StringEnd(t, i + 1)   f == StringEnd(u, i + k + 1)
<1>0. Len(t) \in Nat /\ Len(u) \in Nat /\ k \in Nat /\ i + 1 \in 1 .. Len(t) + 2
      /\ (i + 1) + k = i + k + 1
  BY Lengths
<1>1. /\ e \in {0} \cup i + 1 .. Len(t)
      /\ e # 0 => f = e + k
      /\ Whole(t, u, k) /\ e = 0 => f = 0
  BY <1>0, StringMoved
<1> HIDE DEF e, f
<1>2. CASE e = 0
  <2>1. string_token(t, i + 1) = Incomplete
    BY <1>2 DEF string_token, StringUpto, e
  <2>2. Whole(t, u, k) => string_token(u, i + k + 1) = Incomplete
    BY <1>1, <1>2 DEF string_token, StringUpto, f
  <2> QED BY <2>1, <2>2, TokenFields DEF TokenMoves, TokenIn, MovedBy
<1>3. CASE e # 0
  <2> DEFINE v(x, a, b) == LET cs == Decoded(SubSeq(x, a, b))
                           IN IF BadEscape \in ToSet(cs) THEN Invalid ELSE Text(cs)
  <2>1. string_token(t, i + 1) = Atom(v(t, i + 1, e - 1), e + 1)
    BY <1>3 DEF string_token, StringUpto, StringAtom, e
  <2>2. f # 0 /\ f = e + k
    BY <1>0, <1>1, <1>3
  <2>3. string_token(u, i + k + 1) = Atom(v(u, i + k + 1, f - 1), f + 1)
    BY <2>2 DEF string_token, StringUpto, StringAtom, f
  <2>4. SubSeq(u, i + k + 1, f - 1) = SubSeq(t, i + 1, e - 1)
    <3>1. i + 1 \in 1 .. Len(t) + 1 /\ e \in i + 1 .. Len(t) + 1
      BY <1>0, <1>1, <1>3
    <3>2. SubSeq(u, (i + 1) + k, (e + k) - 1) = SubSeq(t, i + 1, e - 1)
      <4> DEFINE l == i + 1
      <4> HIDE DEF l
      <4>1. SubSeq(u, l + k, (e + k) - 1) = SubSeq(t, l, e - 1)
        <5>1. l \in 1 .. Len(t) + 1 /\ e \in l .. Len(t) + 1
          BY <3>1 DEF l
        <5>2. Piece(u, l + k, e + k) = Piece(t, l, e)
          BY <5>1, PieceMoved
        <5> QED BY <5>2 DEF Piece
      <4> QED BY <4>1 DEF l
    <3> QED BY <1>0, <2>2, <3>2
  <2>5. v(u, i + k + 1, f - 1) = v(t, i + 1, e - 1)
    BY <2>4
  <2>6. e + 1 \in i + 1 .. Len(t) + 1 /\ f + 1 = (e + 1) + k
    BY <1>0, <1>1, <1>3, <2>2
  <2> HIDE DEF v
  <2> QED BY <2>1, <2>3, <2>5, <2>6, AtomMoves
<1> QED BY <1>2, <1>3

\* Characters (src/lexer.cpp:186-195).
LEMMA CharTokenMoves ==
  ASSUME NEW t, NEW u, NEW k, Follows(t, u, k), NEW i \in 1 .. Len(t), i < Len(t)
  PROVE  TokenMoves(t, u, k, i, char_token(t, i + 2), char_token(u, i + k + 2))
<1>0. /\ Len(t) \in Nat /\ Len(u) \in Nat /\ k \in Nat
      /\ \A j \in 1 .. Len(t) : u[j + k] = t[j] /\ j + k <= Len(u)
      /\ i + 2 \in 1 .. Len(t) + 1 /\ (i + 2) + k = i + k + 2
  BY Lengths DEF Follows
<1>1. CASE i + 2 > Len(t)
  <2>1. char_token(t, i + 2) = Fail
    BY <1>1 DEF char_token
  <2>2. Whole(t, u, k) => char_token(u, i + k + 2) = Fail
    <3>1. Whole(t, u, k) => i + k + 2 > Len(u)
      BY <1>0, <1>1 DEF Whole
    <3> QED BY <3>1 DEF char_token
  <2> QED BY <2>1, <2>2, TokenFields DEF TokenMoves, TokenIn, MovedBy
<1>2. CASE i + 2 <= Len(t)
  <2> DEFINE n == Upto(t, i + 3, Boundaries)
  <2>1. LineEnd \in Boundaries /\ i + 3 \in 1 .. Len(t) + 1 /\ (i + 3) + k = i + k + 3
    BY <1>0, <1>2 DEF Boundaries, Space
  <2>2. n \in i + 3 .. Len(t) + 1
    BY <1>0, <2>1, UptoLaw
  <2>3. Upto(u, i + k + 3, Boundaries) = n + k
    BY <2>1, UptoMoved
  <2>4. char_token(t, i + 2) = Atom(read_char(SubSeq(t, i + 2, n - 1)), n)
    <3>1. (i + 2) + 1 = i + 3
      BY <1>0
    <3> QED BY <1>0, <1>2, <3>1 DEF char_token, CharAtom
  <2> HIDE DEF n
  <2>5. char_token(u, i + k + 2) = Atom(read_char(SubSeq(u, i + k + 2, (n + k) - 1)), n + k)
    <3>1. ~(i + k + 2 > Len(u)) /\ (i + k + 2) + 1 = i + k + 3
      BY <1>0, <1>2
    <3> QED BY <2>3, <3>1 DEF char_token, CharAtom
  <2>6. SubSeq(u, i + k + 2, (n + k) - 1) = SubSeq(t, i + 2, n - 1)
    <3>1. n \in i + 2 .. Len(t) + 1
      BY <1>0, <2>2
    <3>2. Piece(u, (i + 2) + k, n + k) = Piece(t, i + 2, n)
      <4> DEFINE l == i + 2
      <4>1. l \in 1 .. Len(t) + 1 /\ n \in l .. Len(t) + 1
        BY <1>0, <3>1
      <4> HIDE DEF l
      <4>2. Piece(u, l + k, n + k) = Piece(t, l, n)
        BY <4>1, PieceMoved
      <4> QED BY <4>2 DEF l
    <3> QED BY <1>0, <3>2 DEF Piece
  <2>7. n \in i + 1 .. Len(t) + 1
    BY <1>0, <2>2
  <2> QED BY <2>4, <2>5, <2>6, <2>7, AtomMoves
<1> QED BY <1>0, <1>1, <1>2

\* Symbols (src/lexer.cpp:152-157).
LEMMA SymbolTokenMoves ==
  ASSUME NEW t, NEW u, NEW k, Follows(t, u, k), NEW i \in 1 .. Len(t), t[i] \notin Boundaries
  PROVE  TokenMoves(t, u, k, i, symbol_token(t, i), symbol_token(u, i + k))
<1> DEFINE n == Upto(t, i, Boundaries)
           v(w) == IF w = <<".", ".">> THEN Invalid ELSE Symbol(w)
<1>0. Len(t) \in Nat /\ Len(u) \in Nat /\ k \in Nat /\ LineEnd \in Boundaries
  BY Lengths DEF Boundaries, Space
<1>1. n \in i .. Len(t) + 1 /\ (n <= Len(t) => t[n] \in Boundaries)
  BY <1>0, UptoLaw
<1>2. Upto(u, i + k, Boundaries) = n + k
  BY <1>0, UptoMoved
<1>3. symbol_token(t, i) = Atom(v(SubSeq(t, i, n - 1)), n)
  BY DEF symbol_token, WordUpto, WordAtom
<1> HIDE DEF n
<1>4. symbol_token(u, i + k) = Atom(v(SubSeq(u, i + k, (n + k) - 1)), n + k)
  BY <1>2 DEF symbol_token, WordUpto, WordAtom
<1>5. n \in i + 1 .. Len(t) + 1
  BY <1>0, <1>1
<1>6. SubSeq(u, i + k, (n + k) - 1) = SubSeq(t, i, n - 1)
  <2>1. i \in 1 .. Len(t) + 1 /\ n \in i .. Len(t) + 1
    BY <1>0, <1>1
  <2>2. Piece(u, i + k, n + k) = Piece(t, i, n)
    BY <2>1, PieceMoved
  <2> QED BY <2>2 DEF Piece
<1> HIDE DEF v
<1> QED BY <1>3, <1>4, <1>5, <1>6, AtomMoves

\* Brackets, quotes and dots.
LEMMA SimpleTokenMoves ==
  ASSUME NEW t, NEW u, NEW k, NEW i, NEW type, NEW v, NEW to \in i + 1 .. Len(t) + 1,
         type \in {"list", "vector", "close", "quote", "dot"},
         type \in {"list", "vector"} => v \in {")", "]"}
  PROVE  TokenMoves(t, u, k, i, Token(type, v, to), Token(type, v, to + k))
<1>1. TokenIn(t, i, Token(type, v, to))
  BY TokenFields DEF TokenIn, Opening
<1>2. MovedBy(k, Token(type, v, to)) = Token(type, v, to + k)
  BY TokenMoved
<1> QED BY <1>1, <1>2 DEF TokenMoves

\* Tokens that begin with # (src/lexer.cpp:197-211).
LEMMA HashTokenMoves ==
  ASSUME NEW t, NEW u, NEW k, Follows(t, u, k), NEW i \in 1 .. Len(t)
  PROVE  TokenMoves(t, u, k, i, hash_token(t, i + 1), hash_token(u, i + k + 1))
<1> DEFINE a == i + 1   b == i + k + 1
           truth(w, l) == l <= Len(w) /\ w[l] \in {"t", "f"} /\ at_boundary(w, l + 1)
           vector(w, l) == l <= Len(w) /\ w[l] = "("
           char(w, l) == l <= Len(w) /\ w[l] = Backslash
<1>0. /\ Len(t) \in Nat /\ Len(u) \in Nat /\ k \in Nat /\ Len(u) >= Len(t) + k
      /\ \A j \in 1 .. Len(t) : u[j + k] = t[j] /\ j + k <= Len(u)
      /\ Len(u) > Len(t) + k => u[Len(t) + k + 1] = LineEnd
      /\ a \in 1 .. Len(t) + 1 /\ a + k = b /\ a + 1 = i + 2 /\ b + 1 = i + k + 2
  BY Lengths DEF Follows
<1>1. \A w, l : hash_token(w, l) = CASE truth(w, l) -> Atom(Truth(w[l]), l + 1)
                                     [] vector(w, l) -> Token("vector", ")", l + 1)
                                     [] char(w, l) -> char_token(w, l + 1)
                                     [] OTHER -> Fail
  BY DEF hash_token
<1>2. \A w, l : /\ truth(w, l) => ~vector(w, l) /\ ~char(w, l)
                /\ vector(w, l) => ~char(w, l)
  BY Zenon DEF Backslash
<1>3. a <= Len(t) => /\ truth(u, b) <=> truth(t, a)
                     /\ vector(u, b) <=> vector(t, a)
                     /\ char(u, b) <=> char(t, a)
                     /\ u[b] = t[a]
  <2>1. ASSUME a <= Len(t) PROVE at_boundary(u, (a + 1) + k) <=> at_boundary(t, a + 1)
    <3>1. a + 1 \in 1 .. Len(t) + 1
      BY <1>0, <2>1
    <3> QED BY <3>1, BoundaryMoved
  <2>2. (a + 1) + k = b + 1
    BY <1>0
  <2> QED BY <1>0, <2>1, <2>2
<1>4. a > Len(t) => /\ ~truth(t, a) /\ ~vector(t, a) /\ ~char(t, a)
                    /\ Whole(t, u, k) => ~truth(u, b) /\ ~vector(u, b) /\ ~char(u, b)
  BY <1>0 DEF Whole
<1>5. /\ i + 2 \in i + 1 .. Len(t) + 1 \/ a > Len(t)
      /\ i + k + 2 = (i + 2) + k
      /\ a <= Len(t) => i < Len(t)
  BY <1>0
<1> HIDE DEF truth, vector, char, a, b
<1>6. CASE truth(t, a)
  <2>1. a <= Len(t)
    BY <1>0, <1>4, <1>6
  <2>2. hash_token(t, a) = Atom(Truth(t[a]), i + 2)
    BY <1>0, <1>1, <1>2, <1>6
  <2>3. hash_token(u, b) = Atom(Truth(t[a]), (i + 2) + k)
    BY <1>0, <1>1, <1>2, <1>3, <1>5, <1>6, <2>1
  <2>4. i + 2 \in i + 1 .. Len(t) + 1
    BY <1>0, <1>5, <2>1
  <2> HIDE DEF a, b
  <2>5. TokenMoves(t, u, k, i, hash_token(t, a), hash_token(u, b))
    BY <2>2, <2>3, <2>4, AtomMoves
  <2> QED BY <2>5 DEF a, b
<1>7. CASE vector(t, a)
  <2>1. a <= Len(t)
    BY <1>0, <1>4, <1>7
  <2>2. hash_token(t, a) = Token("vector", ")", i + 2)
    BY <1>0, <1>1, <1>2, <1>7
  <2>3. hash_token(u, b) = Token("vector", ")", (i + 2) + k)
    BY <1>0, <1>1, <1>2, <1>3, <1>5, <1>7, <2>1
  <2>4. i + 2 \in i + 1 .. Len(t) + 1
    BY <1>0, <1>5, <2>1
  <2>5. TokenMoves(t, u, k, i, hash_token(t, a), hash_token(u, b))
    BY <2>2, <2>3, <2>4, SimpleTokenMoves
  <2> QED BY <2>5 DEF a, b
<1>8. CASE char(t, a)
  <2>1. a <= Len(t)
    BY <1>0, <1>4, <1>8
  <2>2. hash_token(t, a) = char_token(t, i + 2)
    BY <1>0, <1>1, <1>2, <1>8
  <2>3. hash_token(u, b) = char_token(u, i + k + 2)
    BY <1>0, <1>1, <1>2, <1>3, <1>5, <1>8, <2>1
  <2>4. TokenMoves(t, u, k, i, hash_token(t, a), hash_token(u, b))
    BY <1>5, <2>1, <2>2, <2>3, CharTokenMoves
  <2> QED BY <2>4 DEF a, b
<1>9. CASE ~truth(t, a) /\ ~vector(t, a) /\ ~char(t, a)
  <2>1. hash_token(t, a) = Fail
    BY <1>1, <1>9
  <2>2. Whole(t, u, k) => hash_token(u, b) = Fail
    <3>1. Whole(t, u, k) => ~truth(u, b) /\ ~vector(u, b) /\ ~char(u, b)
      BY <1>0, <1>3, <1>4, <1>9
    <3> QED BY <1>1, <3>1
  <2>3. TokenMoves(t, u, k, i, hash_token(t, a), hash_token(u, b))
    BY <2>1, <2>2, TokenFields DEF TokenMoves, TokenIn, MovedBy
  <2> QED BY <2>3 DEF a, b
<1> QED BY <1>6, <1>7, <1>8, <1>9

\* More characters that begin different things.
LEMMA Characters == /\ Comma # "'" /\ Backtick # "'" /\ Backtick # Comma
                    /\ \A c \in {"(", "[", ")", "]", ".", "#"} : c \notin {"'", Backtick, Comma, DoubleQuote}
                    /\ DoubleQuote \notin {"'", Backtick, Comma}
                    /\ "@" # LineEnd
BY Zenon DEF Comma, Backtick, DoubleQuote, LineEnd

\* Whatever token it is (src/lexer.cpp:213-282).
LEMMA NextTokenMoves ==
  ASSUME NEW t, NEW u, NEW k, Follows(t, u, k), NEW i \in 1 .. Len(t),
         t[i] \notin Space \cup {Semicolon}
  PROVE  TokenMoves(t, u, k, i, next_token(t, i, t[i]), next_token(u, i + k, t[i]))
<1> DEFINE c == t[i]
           splice(w, l) == AtWord(w, l, Comma, "@")
           quote(w, l) == c \in DOMAIN Quote /\ ~splice(w, l)
           dot(w, l) == c = "." /\ at_boundary(w, l + 1)
           open == c \in {"(", "["}
           close == c \in {")", "]"}
           hash == c = "#"
           string == c = DoubleQuote
           r == next_token(t, i, c)
           q == next_token(u, i + k, c)
<1>0. /\ Len(t) \in Nat /\ Len(u) \in Nat /\ k \in Nat /\ u[i + k] = c
      /\ i + 1 \in i + 1 .. Len(t) + 1 /\ (i + k) + 1 = (i + 1) + k /\ (i + k) + 2 = (i + 2) + k
  BY Lengths DEF Follows
<1>1. \A w, l : next_token(w, l, c) =
         CASE open -> Token("list", IF c = "(" THEN ")" ELSE "]", l + 1)
           [] close -> Token("close", c, l + 1)
           [] splice(w, l) -> Token("quote", "unquote-splicing", l + 2)
           [] quote(w, l) -> Token("quote", Quote[c], l + 1)
           [] dot(w, l) -> Token("dot", c, l + 1)
           [] hash -> hash_token(w, l + 1)
           [] string -> string_token(w, l + 1)
           [] OTHER -> symbol_token(w, l)
  BY DEF next_token
<1>2. /\ splice(u, i + k) <=> splice(t, i)
      /\ quote(u, i + k) <=> quote(t, i)
      /\ dot(u, i + k) <=> dot(t, i)
  <2>1. splice(u, i + k) <=> splice(t, i)
    BY WordMoved, Characters
  <2>2. at_boundary(u, (i + k) + 1) <=> at_boundary(t, i + 1)
    <3> DEFINE l == i + 1
    <3>1. l \in 1 .. Len(t) + 1 /\ (i + k) + 1 = l + k
      BY <1>0
    <3> HIDE DEF l
    <3>2. at_boundary(u, l + k) <=> at_boundary(t, l)
      BY <3>1, BoundaryMoved
    <3> QED BY <3>1, <3>2 DEF l
  <2> QED BY <2>1, <2>2
<1>3. /\ DOMAIN Quote = {"'", Backtick, Comma}
      /\ splice(t, i) => c = Comma /\ i + 2 \in i + 1 .. Len(t) + 1
  BY <1>0 DEF Quote, AtWord
<1>4. /\ open => ~close /\ ~splice(t, i) /\ ~quote(t, i) /\ ~dot(t, i) /\ ~hash /\ ~string
      /\ close => ~splice(t, i) /\ ~quote(t, i) /\ ~dot(t, i) /\ ~hash /\ ~string
      /\ splice(t, i) => ~quote(t, i) /\ ~dot(t, i) /\ ~hash /\ ~string
      /\ quote(t, i) => ~dot(t, i) /\ ~hash /\ ~string
      /\ dot(t, i) => ~hash /\ ~string
      /\ hash => ~string
  BY <1>3, Characters
<1>5. /\ open => TokenMoves(t, u, k, i, r, q)
      /\ close => TokenMoves(t, u, k, i, r, q)
  <2> DEFINE v == IF c = "(" THEN ")" ELSE "]"
  <2>1. open => r = Token("list", v, i + 1) /\ q = Token("list", v, (i + 1) + k)
    <3> HIDE DEF splice, quote, dot, hash, string, v
    <3> QED BY <1>0, <1>1, <1>2, <1>4 DEF v
  <2>2. close => r = Token("close", c, i + 1) /\ q = Token("close", c, (i + 1) + k)
    <3> HIDE DEF open, splice, quote, dot, hash, string
    <3> QED BY <1>0, <1>1, <1>2, <1>4
  <2>3. v \in {")", "]"}
    OBVIOUS
  <2> HIDE DEF r, q, v
  <2>4. open => TokenMoves(t, u, k, i, r, q)
    BY <1>0, <2>1, <2>3, SimpleTokenMoves
  <2>5. close => TokenMoves(t, u, k, i, r, q)
    BY <1>0, <2>2, SimpleTokenMoves
  <2> QED BY <2>4, <2>5
<1>6. /\ splice(t, i) => TokenMoves(t, u, k, i, r, q)
      /\ quote(t, i) => TokenMoves(t, u, k, i, r, q)
      /\ dot(t, i) => TokenMoves(t, u, k, i, r, q)
  <2>1. splice(t, i) => r = Token("quote", "unquote-splicing", i + 2)
                        /\ q = Token("quote", "unquote-splicing", (i + 2) + k)
    <3> HIDE DEF open, close, splice, quote, dot, hash, string
    <3> QED BY <1>0, <1>1, <1>2, <1>4
  <2>2. quote(t, i) => r = Token("quote", Quote[c], i + 1) /\ q = Token("quote", Quote[c], (i + 1) + k)
    <3> HIDE DEF open, close, splice, quote, dot, hash, string
    <3> QED BY <1>0, <1>1, <1>2, <1>4
  <2>3. dot(t, i) => r = Token("dot", c, i + 1) /\ q = Token("dot", c, (i + 1) + k)
    <3> HIDE DEF open, close, splice, quote, dot, hash, string
    <3> QED BY <1>0, <1>1, <1>2, <1>4
  <2> HIDE DEF r, q, splice, quote, dot
  <2>4. splice(t, i) => TokenMoves(t, u, k, i, r, q)
    BY <1>3, <2>1, SimpleTokenMoves
  <2>5. quote(t, i) => TokenMoves(t, u, k, i, r, q)
    BY <1>0, <2>2, SimpleTokenMoves
  <2>6. dot(t, i) => TokenMoves(t, u, k, i, r, q)
    BY <1>0, <2>3, SimpleTokenMoves
  <2> QED BY <2>4, <2>5, <2>6
<1>7. /\ hash => TokenMoves(t, u, k, i, r, q)
      /\ string => TokenMoves(t, u, k, i, r, q)
  <2>1. hash => r = hash_token(t, i + 1) /\ q = hash_token(u, (i + k) + 1)
    <3> HIDE DEF open, close, splice, quote, dot, hash, string
    <3> QED BY <1>0, <1>1, <1>2, <1>4
  <2>2. string => r = string_token(t, i + 1) /\ q = string_token(u, (i + k) + 1)
    <3> HIDE DEF open, close, splice, quote, dot, hash, string
    <3> QED BY <1>0, <1>1, <1>2, <1>4
  <2> HIDE DEF r, q
  <2> QED BY <2>1, <2>2, HashTokenMoves, StringTokenMoves
<1>8. ~open /\ ~close /\ ~splice(t, i) /\ ~quote(t, i) /\ ~dot(t, i) /\ ~hash /\ ~string
        => TokenMoves(t, u, k, i, r, q)
  <2> SUFFICES ASSUME ~open, ~close, ~splice(t, i), ~quote(t, i), ~dot(t, i), ~hash, ~string
               PROVE  TokenMoves(t, u, k, i, r, q)
    OBVIOUS
  <2>1. r = symbol_token(t, i) /\ q = symbol_token(u, i + k)
    <3> HIDE DEF open, close, splice, quote, dot, hash, string
    <3> QED BY <1>1, <1>2
  <2>2. c \notin Boundaries
    <3>1. c \notin {"'", Backtick, Comma}
      BY <1>3
    <3> QED BY <3>1 DEF Boundaries, Special
  <2> HIDE DEF r, q
  <2> QED BY <2>1, <2>2, SymbolTokenMoves
<1> QED BY <1>5, <1>6, <1>7, <1>8

\* Nothing is skipped at the end of a text.
LEMMA NothingBehind ==
  ASSUME NEW t, Len(t) \in Nat PROVE Skip(t, Len(t) + 1) = Len(t) + 1
<1> DEFINE l == Len(t) + 1
<1>1. l \in 1 .. Len(t) + 1 /\ l > Len(t)
  OBVIOUS
<1> HIDE DEF l
<1>2. Skipping(t)[l][0] = skip(t, Skipping(t), l, 0)
  BY <1>1, SkippingLaw
<1>3. skip(t, Skipping(t), l, 0) = l
  BY <1>1, SkipEnds
<1> QED BY <1>2, <1>3 DEF Skip, l

\* The next token inside another text.
LEMMA TokenAtMoves ==
  ASSUME NEW t, NEW u, NEW k, Follows(t, u, k), NEW i \in 1 .. Len(t) + 1, NEW end
  PROVE  /\ Skip(t, i) \in {0} \cup i .. Len(t) + 1
         /\ Skip(t, i) = 0 => TokenAt(t, Skip(t, i), end) = Incomplete
                              /\ (Whole(t, u, k) => TokenAt(u, Skip(u, i + k), end) = Incomplete)
         /\ Skip(t, i) \in 1 .. Len(t)
              => TokenMoves(t, u, k, i, TokenAt(t, Skip(t, i), end), TokenAt(u, Skip(u, i + k), end))
         /\ Skip(t, i) = Len(t) + 1
              => /\ TokenAt(t, Skip(t, i), end) = end
                 /\ Skip(u, i + k) = Skip(u, (Len(t) + 1) + k)
                 /\ Whole(t, u, k) => TokenAt(u, Skip(u, i + k), end) = end
<1> DEFINE s == Skip(t, i)   v == Skip(u, i + k)
<1>0. /\ Len(t) \in Nat /\ Len(u) \in Nat /\ k \in Nat
      /\ \A j \in 1 .. Len(t) : u[j + k] = t[j] /\ j + k \in 1 .. Len(u)
  BY Lengths DEF Follows
<1>1. /\ s \in {0} \cup i .. Len(t) + 1
      /\ s \in 1 .. Len(t) => t[s] \notin Space \cup {Semicolon}
  BY <1>0, SkipType DEF Skip
<1>2. /\ s \in 1 .. Len(t) => v = s + k
      /\ s = Len(t) + 1 => v = Skip(u, (Len(t) + 1) + k)
      /\ s = 0 /\ Whole(t, u, k) => v = 0
  BY SkipMoved DEF Skip
<1> HIDE DEF s, v
<1>3. s = 0 => TokenAt(t, s, end) = Incomplete
               /\ (Whole(t, u, k) => TokenAt(u, v, end) = Incomplete)
  BY <1>2 DEF TokenAt
<1>4. ASSUME s \in 1 .. Len(t) PROVE TokenMoves(t, u, k, i, TokenAt(t, s, end), TokenAt(u, v, end))
  <2>1. TokenAt(t, s, end) = next_token(t, s, t[s])
    BY <1>0, <1>4 DEF TokenAt
  <2>2. TokenAt(u, v, end) = next_token(u, s + k, t[s])
    BY <1>0, <1>2, <1>4 DEF TokenAt
  <2>3. TokenMoves(t, u, k, s, TokenAt(t, s, end), TokenAt(u, v, end))
    BY <1>1, <1>4, <2>1, <2>2, NextTokenMoves
  <2>4. s >= i
    BY <1>0, <1>1, <1>4
  <2>5. ASSUME NEW r, TokenIn(t, s, r) PROVE TokenIn(t, i, r)
    BY <1>0, <1>4, <2>4, <2>5 DEF TokenIn
  <2> QED BY <2>3, <2>5 DEF TokenMoves
<1>5. ASSUME s = Len(t) + 1 PROVE TokenAt(t, s, end) = end /\ (Whole(t, u, k) => TokenAt(u, v, end) = end)
  <2>1. TokenAt(t, s, end) = end
    BY <1>0, <1>5 DEF TokenAt
  <2>2. ASSUME Whole(t, u, k) PROVE v = Len(u) + 1
    <3>1. (Len(t) + 1) + k = Len(u) + 1
      BY <1>0, <2>2 DEF Whole
    <3> QED BY <1>0, <1>2, <1>5, <3>1, NothingBehind
  <2>3. Whole(t, u, k) => TokenAt(u, v, end) = end
    BY <1>0, <2>2 DEF TokenAt
  <2> QED BY <2>1, <2>3
<1> QED BY <1>1, <1>2, <1>3, <1>4, <1>5 DEF s, v

\* The next token where one has to follow.
LEMMA PeekMoves ==
  ASSUME NEW t, NEW u, NEW k, Follows(t, u, k), NEW i \in 1 .. Len(t) + 1
  PROVE  TokenMoves(t, u, k, i, peek(t, i), peek(u, i + k))
<1>0. Len(t) \in Nat
  BY Lengths
<1>1. CASE Skip(t, i) \in 1 .. Len(t)
  BY <1>1, TokenAtMoves DEF peek
<1>2. CASE Skip(t, i) = 0 \/ Skip(t, i) = Len(t) + 1
  <2>1. peek(t, i) = Incomplete /\ (Whole(t, u, k) => peek(u, i + k) = Incomplete)
    BY <1>2, TokenAtMoves DEF peek
  <2> QED BY <2>1, TokenFields DEF TokenMoves, TokenIn, MovedBy
<1>3. Skip(t, i) \in {0} \cup i .. Len(t) + 1
  BY TokenAtMoves
<1> QED BY <1>0, <1>1, <1>2, <1>3

(***************************************************************************)
(* Data.  What was read from i on ends in the text; a datum, and in the    *)
(* same text anything, is read k characters further on as well.            *)
(***************************************************************************)
DatumIn(t, i, r) ==
  r \in {Fail, Incomplete} \/ (r = Read(r.v, r.to) /\ r.to \in i + 1 .. Len(t) + 1)
DatumMoves(t, u, k, i, r, q) ==
  DatumIn(t, i, r) /\ (r.is = "datum" \/ Whole(t, u, k) => q = MovedBy(k, r))
RowMoves(t, u, k, i, a, b) ==
  /\ \A d \in 0 .. MaxNesting : DatumMoves(t, u, k, i, a.datum[d], b.datum[d])
  /\ \A x \in Rests : DatumMoves(t, u, k, i, a.rest[x], b.rest[x])
RowsMove(t, u, k, i, g, h) ==
  \A j \in i + 1 .. Len(t) + 1 : RowMoves(t, u, k, j, g[j], h[j + k])

\* Reading fails in both texts.
LEMMA FailureReads ==
  ASSUME NEW t, NEW u, NEW k, NEW i
  PROVE  DatumMoves(t, u, k, i, Fail, Fail) /\ DatumMoves(t, u, k, i, Incomplete, Incomplete)
BY TokenFields DEF DatumMoves, DatumIn, MovedBy

\* The same datum is read in both texts.
LEMMA DatumReads ==
  ASSUME NEW t, NEW u, NEW k, NEW i, NEW v, NEW to \in i + 1 .. Len(t) + 1
  PROVE  DatumMoves(t, u, k, i, Read(v, to), Read(v, to + k))
<1>1. DatumIn(t, i, Read(v, to))
  BY TokenFields DEF DatumIn
<1>2. MovedBy(k, Read(v, to)) = Read(v, to + k)
  BY TokenFields DEF MovedBy
<1> QED BY <1>1, <1>2 DEF DatumMoves

\* What holds of a datum read from a position on holds from one before it.
LEMMA ReadsEarlier ==
  ASSUME NEW t, Len(t) \in Nat, NEW u, NEW k, NEW i \in Nat, NEW j \in i .. Len(t) + 1, NEW r, NEW q,
         DatumMoves(t, u, k, j, r, q)
  PROVE  DatumMoves(t, u, k, i, r, q)
<1>1. DatumIn(t, j, r) => DatumIn(t, i, r)
  BY DEF DatumIn
<1> QED BY <1>1 DEF DatumMoves

\* A token that is none, and what it comes to.
LEMMA NoTokenReads ==
  ASSUME NEW t, NEW u, NEW k, NEW i, NEW r, NEW q, TokenMoves(t, u, k, i, r, q), r.is # "token"
  PROVE  DatumMoves(t, u, k, i, r, q) /\ r \in {Fail, Incomplete} /\ (Whole(t, u, k) => q = r)
<1>1. r \in {Fail, Incomplete}
  BY TokenFields DEF TokenMoves, TokenIn
<1>2. MovedBy(k, r) = r /\ r.is # "datum"
  BY <1>1, TokenFields DEF MovedBy
<1> QED BY <1>1, <1>2 DEF TokenMoves, DatumMoves, DatumIn

\* A token that is one, and what is at its place in the other text.
LEMMA ATokenReads ==
  ASSUME NEW t, NEW u, NEW k, NEW i, NEW r, NEW q, TokenMoves(t, u, k, i, r, q), r.is = "token"
  PROVE  /\ q = Token(r.type, r.v, r.to + k) /\ r.to \in i + 1 .. Len(t) + 1
         /\ r.type \in {"atom", "list", "vector", "close", "quote", "dot"} /\ Opening(r)
         /\ q.is = "token" /\ q.type = r.type /\ q.v = r.v /\ q.to = r.to + k
<1>1. r \notin {Fail, Incomplete}
  BY TokenFields
<1>2. q = Token(r.type, r.v, r.to + k)
  BY DEF TokenMoves, MovedBy
<1> QED BY <1>1, <1>2, TokenFields DEF TokenMoves, TokenIn

\* A datum that was read, in both texts.
LEMMA ADatumReads ==
  ASSUME NEW t, NEW u, NEW k, NEW i, NEW r, NEW q, DatumMoves(t, u, k, i, r, q), r.is = "datum"
  PROVE  /\ r.to \in i + 1 .. Len(t) + 1 /\ q = Read(r.v, r.to + k)
         /\ q.is = "datum" /\ q.v = r.v /\ q.to = r.to + k
<1>1. r \notin {Fail, Incomplete}
  BY TokenFields
<1>2. q = Read(r.v, r.to + k)
  BY TokenFields DEF DatumMoves, MovedBy
<1> QED BY <1>1, <1>2, TokenFields DEF DatumMoves, DatumIn

\* Reading that fails, and what it comes to in the other text.
LEMMA NoDatumReads ==
  ASSUME NEW t, NEW u, NEW k, NEW i, NEW r, NEW q, DatumMoves(t, u, k, i, r, q), r.is # "datum"
  PROVE  r \in {Fail, Incomplete} /\ (Whole(t, u, k) => q = r)
<1>1. r \in {Fail, Incomplete}
  BY TokenFields DEF DatumMoves, DatumIn
<1>2. MovedBy(k, r) = r
  BY <1>1, TokenFields DEF MovedBy
<1> QED BY <1>1, <1>2 DEF DatumMoves

\* What fails in both texts where they are the same does so everywhere it matters.
LEMMA FailureMovesOn ==
  ASSUME NEW t, NEW u, NEW k, NEW i, NEW r, NEW q, r \in {Fail, Incomplete},
         Whole(t, u, k) => q = r
  PROVE  DatumMoves(t, u, k, i, r, q)
BY TokenFields DEF DatumMoves, DatumIn, MovedBy

\* read_quoted of a datum that is the same in both texts.
LEMMA QuotedMoves ==
  ASSUME NEW t, NEW u, NEW k, NEW i, NEW name, NEW r, NEW q, DatumMoves(t, u, k, i, r, q)
  PROVE  DatumMoves(t, u, k, i, read_quoted(name, r), read_quoted(name, q))
<1>1. CASE r.is # "datum"
  <2>1. read_quoted(name, r) = r
    BY <1>1 DEF read_quoted
  <2>2. r \in {Fail, Incomplete} /\ (Whole(t, u, k) => q = r)
    BY <1>1, NoDatumReads
  <2>3. Whole(t, u, k) => read_quoted(name, q) = r
    BY <2>1, <2>2
  <2> QED BY <2>1, <2>2, <2>3, FailureMovesOn
<1>2. CASE r.is = "datum"
  <2> DEFINE v == list_from(<<Symbol(<<name>>), r.v>>, Nil)
  <2>1. /\ r.to \in i + 1 .. Len(t) + 1
        /\ q.is = "datum" /\ q.v = r.v /\ q.to = r.to + k
    BY <1>2, ADatumReads
  <2>2. read_quoted(name, r) = Read(v, r.to)
    BY <1>2 DEF read_quoted
  <2>3. read_quoted(name, q) = Read(v, r.to + k)
    BY <2>1 DEF read_quoted
  <2> HIDE DEF v
  <2> QED BY <2>1, <2>2, <2>3, DatumReads
<1> QED BY <1>1, <1>2

\* A datum, from its first token on, if those that begin further on move.
LEMMA DatumFromMoves ==
  ASSUME NEW t, NEW u, NEW k, Follows(t, u, k), NEW i \in 1 .. Len(t) + 1, NEW g, NEW h,
         RowsMove(t, u, k, i, g, h), NEW d \in 0 .. MaxNesting, NEW r, NEW q,
         TokenMoves(t, u, k, i, r, q)
  PROVE  DatumMoves(t, u, k, i, DatumFrom(g, d, r), DatumFrom(h, d, q))
<1>0. Len(t) \in Nat /\ k \in Nat
  BY Lengths
<1>1. CASE r.is # "token"
  <2>1. DatumMoves(t, u, k, i, r, q) /\ r \in {Fail, Incomplete} /\ (Whole(t, u, k) => q = r)
    BY <1>1, NoTokenReads
  <2>2. DatumFrom(g, d, r) = r
    BY <1>1 DEF DatumFrom
  <2>3. Whole(t, u, k) => DatumFrom(h, d, q) = r
    BY <1>1, <2>1 DEF DatumFrom
  <2> QED BY <2>1, <2>2, <2>3, FailureMovesOn
<1>2. CASE r.is = "token"
  <2>1. /\ r.to \in i + 1 .. Len(t) + 1
        /\ r.type \in {"atom", "list", "vector", "close", "quote", "dot"} /\ Opening(r)
        /\ q.is = "token" /\ q.type = r.type /\ q.v = r.v /\ q.to = r.to + k
    BY <1>2, ATokenReads
  <2>2. RowMoves(t, u, k, r.to, g[r.to], h[q.to])
    BY <2>1 DEF RowsMove
  <2>3. ASSUME NEW a, NEW b, DatumMoves(t, u, k, r.to, a, b) PROVE DatumMoves(t, u, k, i, a, b)
    <3>1. i \in Nat /\ r.to \in i .. Len(t) + 1
      BY <1>0, <2>1
    <3> QED BY <1>0, <2>3, <3>1, ReadsEarlier
  <2>4. CASE r.type = "atom"
    <3>1. /\ DatumFrom(g, d, r) = IF r.v = Invalid THEN Fail ELSE Read(r.v, r.to)
          /\ DatumFrom(h, d, q) = IF r.v = Invalid THEN Fail ELSE Read(r.v, r.to + k)
      BY <1>2, <2>1, <2>4 DEF DatumFrom
    <3> QED BY <2>1, <3>1, DatumReads, FailureReads
  <2>5. CASE r.type \in {"list", "vector"}
    <3>1. RestOf(d, q) = RestOf(d, r) /\ RestOf(d, r) \in Rests
      BY <2>1, <2>5 DEF RestOf, Rests, Opening
    <3>2. DatumFrom(g, d, r) = g[r.to].rest[RestOf(d, r)]
      BY <1>2, <2>5 DEF DatumFrom
    <3>3. DatumFrom(h, d, q) = h[q.to].rest[RestOf(d, q)]
      BY <2>1, <2>5 DEF DatumFrom
    <3>4. DatumMoves(t, u, k, r.to, g[r.to].rest[RestOf(d, r)], h[q.to].rest[RestOf(d, r)])
      BY <2>2, <3>1 DEF RowMoves
    <3> QED BY <2>3, <3>1, <3>2, <3>3, <3>4
  <2>6. CASE r.type \in {"close", "dot"}
    <3>1. DatumFrom(g, d, r) = Fail /\ DatumFrom(h, d, q) = Fail
      BY <1>2, <2>1, <2>6 DEF DatumFrom
    <3> QED BY <3>1, FailureReads
  <2>7. CASE r.type = "quote"
    <3>1. DatumFrom(g, d, r) = read_quoted(r.v, g[r.to].datum[d])
      BY <1>2, <2>7 DEF DatumFrom
    <3>2. DatumFrom(h, d, q) = read_quoted(r.v, h[q.to].datum[d])
      BY <2>1, <2>7 DEF DatumFrom
    <3>3. DatumMoves(t, u, k, i, g[r.to].datum[d], h[q.to].datum[d])
      BY <2>2, <2>3 DEF RowMoves
    <3> QED BY <3>1, <3>2, <3>3, QuotedMoves
  <2> QED BY <2>1, <2>4, <2>5, <2>6, <2>7
<1> QED BY <1>1, <1>2

\* The same within the DepthGuard of read_datum.
LEMMA GuardedMoves ==
  ASSUME NEW t, NEW u, NEW k, Follows(t, u, k), NEW i \in 1 .. Len(t) + 1, NEW g, NEW h,
         RowsMove(t, u, k, i, g, h), NEW d \in 0 .. MaxNesting, NEW r, NEW q,
         TokenMoves(t, u, k, i, r, q)
  PROVE  DatumMoves(t, u, k, i, Guarded(g, d, r), Guarded(h, d, q))
<1>1. CASE d >= MaxNesting
  <2>1. Guarded(g, d, r) = Fail /\ Guarded(h, d, q) = Fail
    BY <1>1 DEF Guarded
  <2> QED BY <2>1, FailureReads
<1>2. CASE ~(d >= MaxNesting)
  <2> DEFINE e == d + 1
  <2>1. e \in 0 .. MaxNesting
    BY <1>2, NestingAssumption
  <2>2. Guarded(g, d, r) = DatumFrom(g, e, r) /\ Guarded(h, d, q) = DatumFrom(h, e, q)
    BY <1>2 DEF Guarded
  <2> HIDE DEF e
  <2> QED BY <2>1, <2>2, DatumFromMoves
<1> QED BY <1>1, <1>2

\* The bracket that closes, an exception, or End where something else is.
LEMMA ClosingMoves ==
  ASSUME NEW t, NEW u, NEW k, NEW i, NEW r, NEW q, TokenMoves(t, u, k, i, r, q), NEW c
  PROVE  LET m == match_closing(r, c)   n == match_closing(q, c)
         IN \/ /\ m.is = "token" /\ m.to \in i + 1 .. Len(t) + 1
               /\ n.is = "token" /\ n.to = m.to + k
            \/ m \in {Fail, Incomplete} /\ (Whole(t, u, k) => n = m)
            \/ m = End /\ n = End /\ r.is = "token"
<1> DEFINE m == match_closing(r, c)   n == match_closing(q, c)
<1>1. CASE r.is # "token"
  <2>1. r \in {Fail, Incomplete} /\ (Whole(t, u, k) => q = r)
    BY <1>1, NoTokenReads
  <2>2. m = r
    BY <1>1 DEF match_closing
  <2>3. Whole(t, u, k) => n = m
    BY <2>1
  <2> QED BY <2>1, <2>2, <2>3
<1>2. CASE r.is = "token"
  <2>1. /\ r.to \in i + 1 .. Len(t) + 1
        /\ q.is = "token" /\ q.type = r.type /\ q.v = r.v /\ q.to = r.to + k
    BY <1>2, ATokenReads
  <2>2. CASE r.type = "close" /\ r.v = c
    <3>1. m = r /\ n = q
      BY <1>2, <2>1, <2>2 DEF match_closing
    <3> QED BY <1>2, <2>1, <3>1
  <2>3. CASE r.type = "close" /\ r.v # c
    <3>1. m = Fail /\ n = Fail
      BY <1>2, <2>1, <2>3 DEF match_closing
    <3> QED BY <3>1
  <2>4. CASE r.type # "close"
    <3>1. m = End /\ n = End
      BY <1>2, <2>1, <2>4 DEF match_closing
    <3> QED BY <1>2, <3>1
  <2> QED BY <2>2, <2>3, <2>4
<1> QED BY <1>1, <1>2

\* An element and the rest of its list.
LEMMA WithRestMoves ==
  ASSUME NEW t, NEW u, NEW k, NEW i, NEW x, NEW v, NEW r, NEW q, DatumMoves(t, u, k, i, r, q)
  PROVE  DatumMoves(t, u, k, i, WithRest(x, v, r), WithRest(x, v, q))
<1>1. CASE r.is # "datum"
  <2>1. WithRest(x, v, r) = r
    BY <1>1 DEF WithRest
  <2>2. r \in {Fail, Incomplete} /\ (Whole(t, u, k) => q = r)
    BY <1>1, NoDatumReads
  <2>3. Whole(t, u, k) => WithRest(x, v, q) = r
    BY <2>1, <2>2
  <2> QED BY <2>1, <2>2, <2>3, FailureMovesOn
<1>2. CASE r.is = "datum"
  <2> DEFINE w == IF x.type = "list" THEN list_from(<<v>>, r.v) ELSE Vector(<<v>> \o r.v.elements)
  <2>1. /\ r.to \in i + 1 .. Len(t) + 1
        /\ q.is = "datum" /\ q.v = r.v /\ q.to = r.to + k
    BY <1>2, ADatumReads
  <2>2. WithRest(x, v, r) = Read(w, r.to)
    BY <1>2 DEF WithRest
  <2>3. WithRest(x, v, q) = Read(w, r.to + k)
    BY <2>1 DEF WithRest
  <2> HIDE DEF w
  <2> QED BY <2>1, <2>2, <2>3, DatumReads
<1> QED BY <1>1, <1>2

\* The same where the element may be none.
LEMMA WithElementMoves ==
  ASSUME NEW t, NEW u, NEW k, Follows(t, u, k), NEW i \in 1 .. Len(t) + 1, NEW g, NEW h,
         RowsMove(t, u, k, i, g, h), NEW x \in Rests, NEW r, NEW q, DatumMoves(t, u, k, i, r, q)
  PROVE  DatumMoves(t, u, k, i, WithElement(g, x, r), WithElement(h, x, q))
<1>0. Len(t) \in Nat /\ k \in Nat
  BY Lengths
<1>1. CASE r.is # "datum"
  <2>1. WithElement(g, x, r) = r
    BY <1>1 DEF WithElement
  <2>2. r \in {Fail, Incomplete} /\ (Whole(t, u, k) => q = r)
    BY <1>1, NoDatumReads
  <2>3. Whole(t, u, k) => WithElement(h, x, q) = r
    BY <1>1, <2>2 DEF WithElement
  <2> QED BY <2>1, <2>2, <2>3, FailureMovesOn
<1>2. CASE r.is = "datum"
  <2> DEFINE y == [x EXCEPT !.empty = FALSE]
  <2>1. /\ r.to \in i + 1 .. Len(t) + 1
        /\ q.is = "datum" /\ q.v = r.v /\ q.to = r.to + k
    BY <1>2, ADatumReads
  <2>2. y \in Rests
    BY DEF Rests
  <2>3. WithElement(g, x, r) = WithRest(x, r.v, g[r.to].rest[y])
    BY <1>2 DEF WithElement
  <2>4. WithElement(h, x, q) = WithRest(x, r.v, h[q.to].rest[y])
    BY <2>1 DEF WithElement
  <2> HIDE DEF y
  <2>5. DatumMoves(t, u, k, r.to, g[r.to].rest[y], h[q.to].rest[y])
    BY <2>1, <2>2 DEF RowsMove, RowMoves
  <2>6. i \in Nat /\ r.to \in i .. Len(t) + 1
    BY <1>0, <2>1
  <2>7. DatumMoves(t, u, k, i, g[r.to].rest[y], h[q.to].rest[y])
    BY <1>0, <2>5, <2>6, ReadsEarlier
  <2> QED BY <2>3, <2>4, <2>7, WithRestMoves
<1> QED BY <1>1, <1>2

\* The datum behind a dot, and what closes the list.
LEMMA WithTailMoves ==
  ASSUME NEW t, NEW u, NEW k, Follows(t, u, k), NEW i \in 1 .. Len(t) + 1,
         NEW x, NEW r, NEW q, DatumMoves(t, u, k, i, r, q)
  PROVE  DatumMoves(t, u, k, i, WithTail(t, x, r), WithTail(u, x, q))
<1>0. Len(t) \in Nat /\ k \in Nat
  BY Lengths
<1>1. CASE r.is # "datum"
  <2>1. WithTail(t, x, r) = r
    BY <1>1 DEF WithTail
  <2>2. r \in {Fail, Incomplete} /\ (Whole(t, u, k) => q = r)
    BY <1>1, NoDatumReads
  <2>3. Whole(t, u, k) => WithTail(u, x, q) = r
    BY <1>1, <2>2 DEF WithTail
  <2> QED BY <2>1, <2>2, <2>3, FailureMovesOn
<1>2. CASE r.is = "datum"
  <2> DEFINE j == r.to
             m == match_closing(peek(t, j), x.closing)
             n == match_closing(peek(u, j + k), x.closing)
  <2>1. /\ j \in i + 1 .. Len(t) + 1
        /\ q.is = "datum" /\ q.v = r.v /\ q.to = j + k
    BY <1>2, ADatumReads
  <2>2. WithTail(t, x, r) = CloseDotted(r.v, m)
    BY <1>2 DEF WithTail
  <2>3. WithTail(u, x, q) = CloseDotted(r.v, n)
    BY <2>1 DEF WithTail
  <2>4. \/ /\ m.is = "token" /\ m.to \in j + 1 .. Len(t) + 1
           /\ n.is = "token" /\ n.to = m.to + k
        \/ m \in {Fail, Incomplete} /\ (Whole(t, u, k) => n = m)
        \/ m = End /\ n = End
    <3>1. j \in 1 .. Len(t) + 1
      BY <1>0, <2>1
    <3> HIDE DEF j
    <3>2. TokenMoves(t, u, k, j, peek(t, j), peek(u, j + k))
      BY <3>1, PeekMoves
    <3> QED BY <3>2, ClosingMoves
  <2> HIDE DEF m, n
  <2>5. CASE m.is = "token" /\ m.to \in j + 1 .. Len(t) + 1
             /\ n.is = "token" /\ n.to = m.to + k
    <3>1. m # End /\ n # End
      BY <2>5, TokenFields
    <3>2. CloseDotted(r.v, m) = Read(r.v, m.to) /\ CloseDotted(r.v, n) = Read(r.v, m.to + k)
      BY <2>5, <3>1 DEF CloseDotted
    <3>3. m.to \in i + 1 .. Len(t) + 1
      BY <1>0, <2>1, <2>5
    <3> QED BY <2>2, <2>3, <3>2, <3>3, DatumReads
  <2>6. CASE m \in {Fail, Incomplete} /\ (Whole(t, u, k) => n = m)
    <3>1. m # End /\ m.is \in {"incomplete", "error"}
      BY <2>6, TokenFields
    <3>2. CloseDotted(r.v, m) = m
      BY <3>1 DEF CloseDotted
    <3>3. Whole(t, u, k) => CloseDotted(r.v, n) = m
      BY <2>6, <3>2
    <3> QED BY <2>2, <2>3, <2>6, <3>2, <3>3, FailureMovesOn
  <2>7. CASE m = End /\ n = End
    <3>1. CloseDotted(r.v, m) = Fail /\ CloseDotted(r.v, n) = Fail
      BY <2>7, TokenFields DEF CloseDotted
    <3> QED BY <2>2, <2>3, <3>1, FailureReads
  <2> QED BY <2>4, <2>5, <2>6, <2>7
<1> QED BY <1>1, <1>2

\* The rest of a list or a vector (src/reader.cpp:84-108).
LEMMA RestFromMoves ==
  ASSUME NEW t, NEW u, NEW k, Follows(t, u, k), NEW i \in 1 .. Len(t) + 1, NEW g, NEW h,
         RowsMove(t, u, k, i, g, h), NEW x \in Rests, NEW r, NEW q, TokenMoves(t, u, k, i, r, q)
  PROVE  DatumMoves(t, u, k, i, RestFrom(t, g, x, r, match_closing(r, x.closing)),
                                RestFrom(u, h, x, q, match_closing(q, x.closing)))
<1> DEFINE m == match_closing(r, x.closing)   n == match_closing(q, x.closing)
           a == RestFrom(t, g, x, r, m)   b == RestFrom(u, h, x, q, n)
<1>0. Len(t) \in Nat /\ k \in Nat /\ x.d \in 0 .. MaxNesting
  BY Lengths DEF Rests
<1>1. \/ /\ m.is = "token" /\ m.to \in i + 1 .. Len(t) + 1
         /\ n.is = "token" /\ n.to = m.to + k
      \/ m \in {Fail, Incomplete} /\ (Whole(t, u, k) => n = m)
      \/ m = End /\ n = End /\ r.is = "token"
  BY ClosingMoves
<1> HIDE DEF m, n
<1>2. CASE m.is = "token" /\ m.to \in i + 1 .. Len(t) + 1 /\ n.is = "token" /\ n.to = m.to + k
  <2> DEFINE v == IF x.type = "list" THEN Nil ELSE Vector(<<>>)
  <2>1. a = Read(v, m.to) /\ b = Read(v, m.to + k)
    BY <1>2 DEF RestFrom
  <2> HIDE DEF v, a, b
  <2>2. DatumMoves(t, u, k, i, a, b)
    BY <1>2, <2>1, DatumReads
  <2> QED BY <2>2 DEF a, b, m, n
<1>3. CASE m \in {Fail, Incomplete} /\ (Whole(t, u, k) => n = m)
  <2>1. m.is \in {"incomplete", "error"}
    BY <1>3, TokenFields
  <2>2. \A w, f, y, z : RestFrom(w, f, y, z, m) = m
    BY <2>1 DEF RestFrom
  <2>3. a = m /\ (Whole(t, u, k) => b = m)
    BY <1>3, <2>2
  <2> HIDE DEF a, b
  <2>4. DatumMoves(t, u, k, i, a, b)
    BY <1>3, <2>3, FailureMovesOn
  <2> QED BY <2>4 DEF a, b, m, n
<1>4. CASE m = End /\ n = End /\ r.is = "token"
  <2>1. /\ r.to \in i + 1 .. Len(t) + 1
        /\ q.is = "token" /\ q.type = r.type /\ q.v = r.v /\ q.to = r.to + k
    BY <1>4, ATokenReads
  <2>2. \A w, f, z : RestFrom(w, f, x, z, End) =
          IF z.type # "dot" \/ x.type = "vector" THEN WithElement(f, x, Guarded(f, x.d, z))
          ELSE IF x.empty THEN Fail ELSE WithTail(w, x, f[z.to].datum[x.d])
    BY TokenFields DEF RestFrom
  <2>3. CASE r.type # "dot" \/ x.type = "vector"
    <3>1. a = WithElement(g, x, Guarded(g, x.d, r)) /\ b = WithElement(h, x, Guarded(h, x.d, q))
      BY <1>4, <2>1, <2>2, <2>3
    <3> HIDE DEF a, b
    <3>2. DatumMoves(t, u, k, i, Guarded(g, x.d, r), Guarded(h, x.d, q))
      BY <1>0, GuardedMoves
    <3>3. DatumMoves(t, u, k, i, a, b)
      BY <3>1, <3>2, WithElementMoves
    <3> QED BY <3>3 DEF a, b, m, n
  <2>4. CASE ~(r.type # "dot" \/ x.type = "vector") /\ x.empty
    <3>1. a = Fail /\ b = Fail
      BY <1>4, <2>1, <2>2, <2>4
    <3> HIDE DEF a, b
    <3>2. DatumMoves(t, u, k, i, a, b)
      BY <3>1, FailureReads
    <3> QED BY <3>2 DEF a, b, m, n
  <2>5. CASE ~(r.type # "dot" \/ x.type = "vector") /\ ~x.empty
    <3>1. a = WithTail(t, x, g[r.to].datum[x.d]) /\ b = WithTail(u, x, h[q.to].datum[x.d])
      BY <1>4, <2>1, <2>2, <2>5
    <3> HIDE DEF a, b
    <3>2. DatumMoves(t, u, k, r.to, g[r.to].datum[x.d], h[q.to].datum[x.d])
      BY <1>0, <2>1 DEF RowsMove, RowMoves
    <3>3. i \in Nat /\ r.to \in i .. Len(t) + 1
      BY <1>0, <2>1
    <3>4. DatumMoves(t, u, k, i, g[r.to].datum[x.d], h[q.to].datum[x.d])
      BY <1>0, <3>2, <3>3, ReadsEarlier
    <3>5. DatumMoves(t, u, k, i, a, b)
      BY <3>1, <3>4, WithTailMoves
    <3> QED BY <3>5 DEF a, b, m, n
  <2> QED BY <2>3, <2>4, <2>5
<1> QED BY <1>1, <1>2, <1>3, <1>4

\* All that reading comes to from a position on, if it does further on.
LEMMA RowMoved ==
  ASSUME NEW t, NEW u, NEW k, Follows(t, u, k), NEW i \in 1 .. Len(t) + 1, NEW g, NEW h,
         RowsMove(t, u, k, i, g, h)
  PROVE  RowMoves(t, u, k, i, Row(t, g, peek(t, i)), Row(u, h, peek(u, i + k)))
<1> DEFINE r == peek(t, i)   q == peek(u, i + k)
<1>1. TokenMoves(t, u, k, i, r, q)
  BY PeekMoves
<1> HIDE DEF r, q
<1>2. /\ \A d \in 0 .. MaxNesting : Row(t, g, r).datum[d] = Guarded(g, d, r)
      /\ \A x \in Rests : Row(t, g, r).rest[x] = RestFrom(t, g, x, r, match_closing(r, x.closing))
      /\ \A d \in 0 .. MaxNesting : Row(u, h, q).datum[d] = Guarded(h, d, q)
      /\ \A x \in Rests : Row(u, h, q).rest[x] = RestFrom(u, h, x, q, match_closing(q, x.closing))
  BY DEF Row
<1>3. ASSUME NEW d \in 0 .. MaxNesting
      PROVE  DatumMoves(t, u, k, i, Row(t, g, r).datum[d], Row(u, h, q).datum[d])
  <2>1. DatumMoves(t, u, k, i, Guarded(g, d, r), Guarded(h, d, q))
    BY <1>1, GuardedMoves
  <2> QED BY <1>2, <2>1
<1>4. ASSUME NEW x \in Rests
      PROVE  DatumMoves(t, u, k, i, Row(t, g, r).rest[x], Row(u, h, q).rest[x])
  <2>1. DatumMoves(t, u, k, i, RestFrom(t, g, x, r, match_closing(r, x.closing)),
                               RestFrom(u, h, x, q, match_closing(q, x.closing)))
    BY <1>1, RestFromMoves
  <2> QED BY <1>2, <2>1
<1> QED BY <1>3, <1>4 DEF RowMoves, r, q

\* A text is inside itself, as a whole.
LEMMA Itself == ASSUME NEW t \in Texts PROVE Follows(t, t, 0) /\ Whole(t, t, 0)
BY LenNat DEF Follows, Whole

\* Reads at one position, and from one on to the end.
ReadRow(t, h, i) == Row(t, h, peek(t, i))
FineRow(t, i, row) == RowMoves(t, t, 0, i, row, row)
ReadsFrom(t, i, h) ==
  /\ h = [j \in i .. Len(t) + 1 |-> ReadRow(t, h, j)]
  /\ \A j \in i .. Len(t) + 1 : FineRow(t, j, h[j])

\* Reading looks only further on, as long as every datum ends in the text.
LEMMA ReadLooksOn ==
  ASSUME NEW t \in Texts, NEW i \in 1 .. Len(t) + 1, NEW g, NEW h,
         \A j \in i + 1 .. Len(t) + 1 : g[j] = h[j] /\ FineRow(t, j, h[j])
  PROVE  ReadRow(t, g, i) = ReadRow(t, h, i) /\ FineRow(t, i, ReadRow(t, h, i))
<1> DEFINE r == peek(t, i)
<1>0. Follows(t, t, 0) /\ Whole(t, t, 0) /\ Len(t) \in Nat
  BY Itself, LenNat
<1>1. i + 0 = i /\ \A j \in i + 1 .. Len(t) + 1 : j + 0 = j
  BY <1>0
<1>2. RowsMove(t, t, 0, i, g, h) /\ RowsMove(t, t, 0, i, h, h)
  BY <1>1 DEF RowsMove, FineRow
<1>3. /\ RowMoves(t, t, 0, i, Row(t, g, r), Row(t, h, r))
      /\ RowMoves(t, t, 0, i, Row(t, h, r), Row(t, h, r))
  <2>1. /\ RowMoves(t, t, 0, i, Row(t, g, peek(t, i)), Row(t, h, peek(t, i + 0)))
        /\ RowMoves(t, t, 0, i, Row(t, h, peek(t, i)), Row(t, h, peek(t, i + 0)))
    BY <1>0, <1>2, RowMoved
  <2> QED BY <1>1, <2>1
<1> HIDE DEF r
<1>4. ASSUME NEW a, NEW b, DatumMoves(t, t, 0, i, a, b) PROVE a = b
  <2>1. b = MovedBy(0, a) /\ DatumIn(t, i, a)
    BY <1>0, <1>4 DEF DatumMoves
  <2>2. CASE a \in {Fail, Incomplete}
    BY <2>1, <2>2, TokenFields DEF MovedBy
  <2>3. CASE a = Read(a.v, a.to) /\ a.to \in i + 1 .. Len(t) + 1
    <3>1. a.to + 0 = a.to /\ a.is = "datum"
      BY <1>0, <2>3, TokenFields
    <3> QED BY <2>1, <2>3, <3>1 DEF MovedBy
  <2> QED BY <2>1, <2>2, <2>3 DEF DatumIn
<1>5. \A d \in 0 .. MaxNesting : Row(t, g, r).datum[d] = Row(t, h, r).datum[d]
  BY <1>3, <1>4 DEF RowMoves
<1>6. \A x \in Rests : Row(t, g, r).rest[x] = Row(t, h, r).rest[x]
  BY <1>3, <1>4 DEF RowMoves
<1>7. Row(t, g, r) = Row(t, h, r)
  BY <1>5, <1>6 DEF Row
<1> QED BY <1>3, <1>7 DEF ReadRow, FineRow, r

\* The equations of Reads have a solution.
LEMMA ReadsExist == ASSUME NEW t \in Texts PROVE \E h : ReadsFrom(t, 1, h)
<1> DEFINE T == {i \in 1 .. Len(t) + 2 : \E h : ReadsFrom(t, i, h)}
<1>0. Len(t) \in Nat
  BY LenNat
<1>1. Len(t) + 2 \in T
  <2> DEFINE none == [j \in Len(t) + 2 .. Len(t) + 1 |-> {}]
  <2>1. Len(t) + 2 .. Len(t) + 1 = {}
    BY <1>0
  <2>2. none = [j \in Len(t) + 2 .. Len(t) + 1 |-> ReadRow(t, none, j)]
    BY <2>1
  <2> HIDE DEF none
  <2>3. ReadsFrom(t, Len(t) + 2, none)
    BY <2>1, <2>2 DEF ReadsFrom
  <2> QED BY <1>0, <2>3
<1>2. ASSUME NEW i \in 1 .. Len(t) + 1, i + 1 \in T PROVE i \in T
  <2>1. PICK h : ReadsFrom(t, i + 1, h)
    BY <1>2
  <2> DEFINE g == [j \in i .. Len(t) + 1 |-> IF j = i THEN ReadRow(t, h, i) ELSE h[j]]
  <2>2. g[i] = ReadRow(t, h, i) /\ \A j \in i + 1 .. Len(t) + 1 : g[j] = h[j]
    BY <1>0
  <2>3. g = [j \in i .. Len(t) + 1 |-> g[j]]
    OBVIOUS
  <2> HIDE DEF g
  <2>4. \A j \in i + 1 .. Len(t) + 1 : FineRow(t, j, h[j])
    BY <2>1 DEF ReadsFrom
  <2>5. ASSUME NEW j \in i .. Len(t) + 1 PROVE g[j] = ReadRow(t, g, j) /\ FineRow(t, j, g[j])
    <3>1. ReadRow(t, g, j) = ReadRow(t, h, j) /\ FineRow(t, j, ReadRow(t, h, j))
      <4>1. j \in 1 .. Len(t) + 1
        BY <1>0
      <4>2. \A l \in j + 1 .. Len(t) + 1 : l \in i + 1 .. Len(t) + 1
        BY <1>0
      <4>3. \A l \in j + 1 .. Len(t) + 1 : g[l] = h[l] /\ FineRow(t, l, h[l])
        BY <2>2, <2>4, <4>2
      <4> QED BY <4>1, <4>3, ReadLooksOn
    <3>2. j # i => j \in i + 1 .. Len(t) + 1
      BY <1>0
    <3>3. j # i => h[j] = ReadRow(t, h, j)
      BY <2>1, <3>2 DEF ReadsFrom
    <3> QED BY <2>2, <3>1, <3>2, <3>3
  <2>6. ReadsFrom(t, i, g)
    <3>1. g = [j \in i .. Len(t) + 1 |-> ReadRow(t, g, j)]
      BY <2>3, <2>5, Zenon
    <3> QED BY <2>5, <3>1 DEF ReadsFrom
  <2> QED BY <2>6
<1>3. 1 .. Len(t) + 2 \subseteq T
  <2> HIDE DEF T
  <2> QED BY <1>0, <1>1, <1>2, Backwards
<1>4. 1 \in T
  <2> HIDE DEF T
  <2> QED BY <1>0, <1>3
<1> QED BY <1>4

\* Reads is what Row says of it, and every datum it holds ends in the text.
LEMMA ReadsLaw ==
  ASSUME NEW t \in Texts
  PROVE  /\ \A i \in 1 .. Len(t) + 1 : Reads(t)[i] = Row(t, Reads(t), peek(t, i))
         /\ \A i \in 1 .. Len(t) + 1 : FineRow(t, i, Reads(t)[i])
<1> DEFINE H == CHOOSE h : h = [i \in 1 .. Len(t) + 1 |-> Row(t, h, peek(t, i))]
           R == Reads(t)
           T == {i \in 1 .. Len(t) + 2 : \A j \in i .. Len(t) + 1 : FineRow(t, j, R[j])}
<1>0. Len(t) \in Nat
  BY LenNat
<1>1. \E h : h = [i \in 1 .. Len(t) + 1 |-> Row(t, h, peek(t, i))]
  <2>1. PICK h : ReadsFrom(t, 1, h)
    BY ReadsExist
  <2> QED BY <2>1 DEF ReadsFrom, ReadRow
<1>2. H = [i \in 1 .. Len(t) + 1 |-> Row(t, H, peek(t, i))]
  BY <1>1
<1>3. R = H
  BY DEF Reads
<1> HIDE DEF H
<1>4. \A i \in 1 .. Len(t) + 1 : R[i] = ReadRow(t, R, i)
  BY <1>2, <1>3 DEF ReadRow
<1> HIDE DEF R
<1>5. Len(t) + 2 \in T
  BY <1>0
<1>6. ASSUME NEW i \in 1 .. Len(t) + 1, i + 1 \in T PROVE i \in T
  <2>1. \A j \in i + 1 .. Len(t) + 1 : FineRow(t, j, R[j])
    BY <1>6
  <2>2. FineRow(t, i, ReadRow(t, R, i))
    BY <2>1, ReadLooksOn
  <2>3. FineRow(t, i, R[i])
    BY <1>4, <2>2
  <2> QED BY <1>0, <2>1, <2>3
<1>7. 1 .. Len(t) + 2 \subseteq T
  <2> HIDE DEF T
  <2> QED BY <1>0, <1>5, <1>6, Backwards
<1>8. 1 \in T
  <2> HIDE DEF T
  <2> QED BY <1>0, <1>7
<1> QED BY <1>4, <1>8 DEF R, ReadRow

\* What is read of a text is read of it inside another one.
LEMMA ReadsMove ==
  ASSUME NEW t, NEW u, NEW k, Follows(t, u, k), NEW i \in 1 .. Len(t) + 1
  PROVE  RowMoves(t, u, k, i, Reads(t)[i], Reads(u)[i + k])
<1> DEFINE g == Reads(t)   h == Reads(u)
           T == {j \in 1 .. Len(t) + 2 :
                   \A l \in j .. Len(t) + 1 : RowMoves(t, u, k, l, g[l], h[l + k])}
<1>0. /\ Len(t) \in Nat /\ Len(u) \in Nat /\ k \in Nat /\ t \in Texts /\ u \in Texts
      /\ \A j \in 1 .. Len(t) + 1 : j + k \in 1 .. Len(u) + 1
  BY Lengths
<1>1. /\ \A j \in 1 .. Len(t) + 1 : g[j] = Row(t, g, peek(t, j))
      /\ \A j \in 1 .. Len(u) + 1 : h[j] = Row(u, h, peek(u, j))
  BY <1>0, ReadsLaw
<1> HIDE DEF g, h
<1>2. Len(t) + 2 \in T
  BY <1>0
<1>3. ASSUME NEW j \in 1 .. Len(t) + 1, j + 1 \in T PROVE j \in T
  <2>1. RowsMove(t, u, k, j, g, h)
    BY <1>3 DEF RowsMove
  <2>2. RowMoves(t, u, k, j, Row(t, g, peek(t, j)), Row(u, h, peek(u, j + k)))
    BY <2>1, RowMoved
  <2>3. g[j] = Row(t, g, peek(t, j)) /\ h[j + k] = Row(u, h, peek(u, j + k))
    BY <1>0, <1>1
  <2>4. RowMoves(t, u, k, j, g[j], h[j + k])
    BY <2>2, <2>3
  <2>5. ASSUME NEW l \in j .. Len(t) + 1 PROVE RowMoves(t, u, k, l, g[l], h[l + k])
    <3>1. l # j => l \in j + 1 .. Len(t) + 1
      BY <1>0
    <3> QED BY <2>4, <3>1, <1>3
  <2> QED BY <1>0, <2>5
<1>4. 1 .. Len(t) + 2 \subseteq T
  <2> HIDE DEF T
  <2> QED BY <1>0, <1>2, <1>3, Backwards
<1>5. i \in T
  <2> HIDE DEF T
  <2> QED BY <1>0, <1>4
<1> QED BY <1>5 DEF g, h

\* The first token of a text, or that there is none.
LEMMA FirstToken ==
  ASSUME NEW t \in Texts
  PROVE  /\ next(t, 1).is = "token" => Skip(t, 1) \in 1 .. Len(t)
         /\ next(t, 1).is # "token" => next(t, 1) \in {Fail, Incomplete, End}
         /\ next(t, 1) = End => Skip(t, 1) = Len(t) + 1
<1> DEFINE s == Skip(t, 1)   k == TokenAt(t, s, End)
<1>0. Follows(t, t, 0) /\ Whole(t, t, 0) /\ Len(t) \in Nat /\ 1 \in 1 .. Len(t) + 1
  BY Itself, LenNat
<1>1. /\ s \in {0} \cup 1 .. Len(t) + 1
      /\ s = 0 => k = Incomplete
      /\ s \in 1 .. Len(t) => TokenIn(t, 1, k)
      /\ s = Len(t) + 1 => k = End
  <2>1. s \in 1 .. Len(t) => TokenMoves(t, t, 0, 1, k, TokenAt(t, Skip(t, 1 + 0), End))
    BY <1>0, TokenAtMoves
  <2>2. /\ s \in {0} \cup 1 .. Len(t) + 1
        /\ s = 0 => k = Incomplete
        /\ s = Len(t) + 1 => k = End
    BY <1>0, TokenAtMoves
  <2> QED BY <2>1, <2>2 DEF TokenMoves
<1> HIDE DEF s, k
<1>2. /\ k.is = "token" => s \in 1 .. Len(t)
      /\ k.is # "token" => k \in {Fail, Incomplete, End}
      /\ k = End => s = Len(t) + 1
  <2>1. CASE s \in {0, Len(t) + 1}
    BY <1>0, <1>1, <2>1, TokenFields
  <2>2. CASE s \in 1 .. Len(t)
    <3>1. k \in {Fail, Incomplete} \/ k.is = "token"
      BY <1>1, <2>2, TokenFields DEF TokenIn
    <3>2. k # End
      BY <3>1, TokenFields
    <3> QED BY <2>2, <3>1, <3>2
  <2> QED BY <1>0, <1>1, <2>1, <2>2
<1> QED BY <1>2 DEF s, k, next

\* What is read of a text.
LEMMA OneRead ==
  ASSUME NEW t \in Texts
  PROVE  /\ next(t, 1).is = "token" => read_one(t) = Reads(t)[1].datum[0]
         /\ next(t, 1).is # "token" => read_one(t) = next(t, 1)
         /\ DatumIn(t, 1, Reads(t)[1].datum[0])
         /\ read_one(t).is = "datum" => next(t, 1).is = "token"
         /\ read_one(t).is = "end" => next(t, 1) = End
<1> DEFINE k == next(t, 1)   r == Reads(t)[1].datum[0]
<1>1. /\ k.is = "token" => read_one(t) = r
      /\ k.is # "token" => read_one(t) = k
  BY DEF read_one, OneFrom
<1>2. DatumIn(t, 1, r)
  <2>1. 1 \in 1 .. Len(t) + 1 /\ 0 \in 0 .. MaxNesting
    BY LenNat, NestingAssumption
  <2>2. FineRow(t, 1, Reads(t)[1])
    BY <2>1, ReadsLaw
  <2> QED BY <2>1, <2>2 DEF FineRow, RowMoves, DatumMoves
<1>3. k.is # "token" => k \in {Fail, Incomplete, End}
  BY FirstToken
<1> HIDE DEF k, r
<1>4. read_one(t).is = "datum" => k.is = "token"
  BY <1>1, <1>3, TokenFields
<1>5. read_one(t).is = "end" => k = End
  <2>1. r.is # "end"
    BY <1>2, TokenFields DEF DatumIn
  <2> QED BY <1>1, <1>3, <2>1, TokenFields
<1> QED BY <1>1, <1>2, <1>4, <1>5 DEF k, r

\* A text, the end of its line, and a line.
WithLine(t, line) == t \o <<LineEnd>> \o line

\* Both the text and the line are inside.
LEMMA LineInside ==
  ASSUME NEW t \in Texts, NEW line \in Texts, LineEnd \in Char
  PROVE  /\ Follows(t, WithLine(t, line), 0)
         /\ Follows(line, WithLine(t, line), Len(t) + 1)
         /\ Whole(line, WithLine(t, line), Len(t) + 1)
         /\ WithLine(t, line)[Len(t) + 1] = LineEnd
<1> DEFINE a == t \o <<LineEnd>>   w == a \o line   n == Len(t)
<1>1. <<LineEnd>> \in Texts /\ Len(<<LineEnd>>) = 1 /\ <<LineEnd>>[1] = LineEnd
  BY DEF Texts
<1>2. n \in Nat /\ Len(line) \in Nat
  BY LenNat
<1>3. a \in Texts /\ Len(a) = n + 1 /\ (\A i \in 1 .. n : a[i] = t[i]) /\ a[n + 1] = LineEnd
  <2>1. /\ a \in Texts /\ Len(a) = n + Len(<<LineEnd>>)
        /\ \A i \in 1 .. n : a[i] = t[i]
        /\ \A i \in 1 .. Len(<<LineEnd>>) : a[n + i] = <<LineEnd>>[i]
    BY <1>1, Joining
  <2>2. 1 \in 1 .. Len(<<LineEnd>>)
    BY <1>1
  <2>3. a[n + 1] = LineEnd
    BY <1>1, <2>1, <2>2
  <2> QED BY <1>1, <2>1, <2>3
<1> HIDE DEF a, n
<1>4. /\ w \in Texts /\ Len(w) = n + 1 + Len(line)
      /\ \A i \in 1 .. n + 1 : w[i] = a[i]
      /\ \A i \in 1 .. Len(line) : w[(n + 1) + i] = line[i]
  <2>1. /\ w \in Texts /\ Len(w) = Len(a) + Len(line)
        /\ \A i \in 1 .. Len(a) : w[i] = a[i]
        /\ \A i \in 1 .. Len(line) : w[Len(a) + i] = line[i]
    BY <1>3, Joining
  <2> HIDE DEF w
  <2> QED BY <1>3, <2>1
<1> HIDE DEF w
<1>5. /\ \A i \in 1 .. n : i + 0 = i /\ w[i] = t[i]
      /\ w[n + 1] = LineEnd
      /\ \A i \in 1 .. Len(line) : w[i + (n + 1)] = line[i]
  <2>1. \A i \in 1 .. n : w[i] = t[i]
    BY <1>2, <1>3, <1>4
  <2>2. w[n + 1] = LineEnd
    BY <1>2, <1>3, <1>4
  <2>3. ASSUME NEW i \in 1 .. Len(line) PROVE w[i + (n + 1)] = line[i]
    <3>1. i + (n + 1) = (n + 1) + i
      BY <1>2
    <3> QED BY <1>4, <3>1
  <2> QED BY <1>2, <2>1, <2>2, <2>3
<1>6. Len(w) >= n + 0 /\ n + 0 + 1 = n + 1 /\ n + 1 \in Nat /\ Len(w) = Len(line) + (n + 1)
  BY <1>2, <1>4
<1>7. Follows(t, w, 0)
  BY <1>4, <1>5, <1>6 DEF Follows, n
<1>8. Follows(line, w, n + 1) /\ Whole(line, w, n + 1)
  BY <1>2, <1>4, <1>5, <1>6 DEF Follows, Whole
<1> QED BY <1>5, <1>7, <1>8 DEF WithLine, w, a, n

\* Neither the end of the line nor what follows it changes a datum before them.
LEMMA DatumStays ==
  ASSUME NEW t \in Texts, NEW line \in Texts, LineEnd \in Char, read_one(t).is = "datum"
  PROVE  Same(read_one(WithLine(t, line)), read_one(t), 0)
<1> DEFINE w == WithLine(t, line)   r == read_one(t)   q == Reads(w)[1].datum[0]
<1>0. 1 \in 1 .. Len(t) + 1 /\ 1 + 0 = 1 /\ 0 \in 0 .. MaxNesting
  BY LenNat, NestingAssumption
<1>1. Follows(t, w, 0) /\ w \in Texts
  BY LineInside DEF Follows
<1>2. next(t, 1).is = "token" /\ r = Reads(t)[1].datum[0]
  BY OneRead
<1>3. next(w, 1).is = "token"
  <2>1. Skip(t, 1) \in 1 .. Len(t)
    BY <1>2, FirstToken
  <2>2. TokenMoves(t, w, 0, 1, TokenAt(t, Skip(t, 1), End), TokenAt(w, Skip(w, 1 + 0), End))
    BY <1>0, <1>1, <2>1, TokenAtMoves
  <2>3. TokenMoves(t, w, 0, 1, next(t, 1), next(w, 1))
    BY <1>0, <2>2 DEF next
  <2> QED BY <1>2, <2>3, ATokenReads
<1>4. read_one(w) = q
  BY <1>1, <1>3, OneRead
<1>5. DatumMoves(t, w, 0, 1, Reads(t)[1].datum[0], q)
  <2>1. RowMoves(t, w, 0, 1, Reads(t)[1], Reads(w)[1 + 0])
    BY <1>0, <1>1, ReadsMove
  <2> QED BY <1>0, <2>1 DEF RowMoves
<1> HIDE DEF w, q
<1>6. q.is = "datum" /\ q.v = r.v /\ q.to = r.to + 0
  BY <1>2, <1>5, ADatumReads
<1> QED BY <1>4, <1>6 DEF Same, w

\* Behind a text in which nothing was found, the end of its line is skipped.
LEMMA NothingSkipped ==
  ASSUME NEW t \in Texts, NEW line \in Texts, LineEnd \in Char, read_one(t).is = "end"
  PROVE  Skip(WithLine(t, line), 1) = Skip(WithLine(t, line), 1 + (Len(t) + 1))
<1> DEFINE w == WithLine(t, line)   n == Len(t) + 1
<1>0. 1 \in 1 .. Len(t) + 1 /\ n \in Nat /\ n + 0 = n /\ 1 + 0 = 1
  BY LenNat
<1>1. /\ Follows(t, w, 0) /\ w \in Texts /\ w[n] = LineEnd
      /\ Len(w) \in Nat /\ n \in 1 .. Len(w)
  <2>1. Follows(t, w, 0) /\ Follows(line, w, n) /\ w[n] = LineEnd
    BY LineInside
  <2>2. w \in Texts /\ Len(w) >= Len(line) + n
    BY <2>1 DEF Follows
  <2> QED BY <1>0, <2>1, <2>2, LenNat
<1>2. Skip(t, 1) = n
  BY OneRead, FirstToken
<1>3. Skip(w, 1) = Skip(w, n)
  BY <1>0, <1>1, <1>2, TokenAtMoves
<1>4. Elsewhere(w, n, 0)
  <2> HIDE DEF n, w
  <2> QED BY <1>1, Signs DEF Elsewhere, AtOpen, AtClose, AtLine, AtWord
<1>5. Skip(w, n) = Skip(w, n + 1)
  <2> HIDE DEF n, w
  <2>1. Skipping(w)[n][0] = skip(w, Skipping(w), n, 0)
    BY <1>1, SkippingLaw
  <2>2. skip(w, Skipping(w), n, 0) = IF 0 > 0 \/ w[n] \in Space THEN Skipping(w)[n + 1][0] ELSE n
    BY <1>1, <1>4, SkipOne
  <2>3. w[n] \in Space
    BY <1>1 DEF Space
  <2> QED BY <2>1, <2>2, <2>3 DEF Skip
<1>6. n + 1 = 1 + n
  BY <1>0
<1> QED BY <1>3, <1>5, <1>6

\* There a line is read as if it stood alone.
LEMMA LineAlone ==
  ASSUME NEW t \in Texts, NEW line \in Texts, LineEnd \in Char, read_one(t).is = "end"
  PROVE  Same(read_one(WithLine(t, line)), read_one(line), Len(t) + 1)
<1> DEFINE w == WithLine(t, line)   n == Len(t) + 1   one == 1 + n
           k == next(line, 1)   r == Reads(line)[1].datum[0]   q == Reads(w)[1].datum[0]
<1>0. /\ 1 \in 1 .. Len(line) + 1 /\ 0 \in 0 .. MaxNesting
  BY LenNat, NestingAssumption
<1>1. Follows(line, w, n) /\ Whole(line, w, n) /\ w \in Texts
  BY LineInside DEF Follows
<1>2. one \in 1 .. Len(w) + 1 /\ 1 \in 1 .. Len(w) + 1
  BY <1>0, <1>1, Lengths
<1>3. Skip(w, 1) = Skip(w, one)
  BY NothingSkipped
<1> HIDE DEF w, n
<1>4. next(w, 1) = MovedBy(n, k)
  <2>1. next(w, 1) = TokenAt(w, Skip(w, 1 + n), End) /\ k = TokenAt(line, Skip(line, 1), End)
    BY <1>3 DEF next
  <2>2. CASE Skip(line, 1) = 0
    BY <1>0, <1>1, <2>1, <2>2, TokenAtMoves, TokenFields DEF MovedBy
  <2>3. CASE Skip(line, 1) \in 1 .. Len(line)
    <3>1. TokenMoves(line, w, n, 1, k, next(w, 1))
      BY <1>0, <1>1, <2>1, <2>3, TokenAtMoves
    <3> QED BY <1>1, <3>1 DEF TokenMoves
  <2>4. CASE Skip(line, 1) = Len(line) + 1
    BY <1>0, <1>1, <2>1, <2>4, TokenAtMoves, TokenFields DEF MovedBy
  <2> QED BY <1>0, <1>1, <2>2, <2>3, <2>4, TokenAtMoves
<1>5. CASE k.is # "token"
  <2>1. k \in {Fail, Incomplete, End}
    BY <1>5, FirstToken
  <2>2. MovedBy(n, k) = k /\ k.is # "datum"
    BY <2>1, TokenFields DEF MovedBy
  <2>3. read_one(line) = k /\ read_one(w) = k
    BY <1>1, <1>4, <1>5, <2>2, OneRead
  <2> QED BY <2>2, <2>3 DEF Same, w, n
<1>6. CASE k.is = "token"
  <2>1. read_one(line) = r /\ DatumIn(line, 1, r)
    BY <1>6, OneRead
  <2>2. next(w, 1).is = "token"
    BY <1>4, <1>6, TokenFields DEF MovedBy
  <2>3. read_one(w) = q
    BY <1>1, <2>2, OneRead
  <2>4. Reads(w)[1] = Reads(w)[one]
    <3>1. peek(w, 1) = peek(w, one)
      BY <1>3 DEF peek
    <3> HIDE DEF one
    <3> QED BY <1>1, <1>2, <3>1, ReadsLaw
  <2>5. DatumMoves(line, w, n, 1, r, q)
    <3>1. RowMoves(line, w, n, 1, Reads(line)[1], Reads(w)[1 + n])
      BY <1>0, <1>1, ReadsMove
    <3> QED BY <1>0, <2>4, <3>1 DEF RowMoves
  <2> HIDE DEF r, q
  <2>6. CASE r.is = "datum"
    <3>1. q.is = "datum" /\ q.v = r.v /\ q.to = r.to + n
      BY <2>5, <2>6, ADatumReads
    <3> QED BY <2>1, <2>3, <2>6, <3>1 DEF Same, w, n
  <2>7. CASE r.is # "datum"
    <3>1. q = r
      BY <1>1, <2>5, <2>7, NoDatumReads
    <3> QED BY <2>1, <2>3, <2>7, <3>1 DEF Same, w, n
  <2> QED BY <2>6, <2>7
<1> QED BY <1>5, <1>6

(***************************************************************************)
(* The reader that Repl is given is that of src/reader.cpp, as it is in    *)
(* the runs.                                                               *)
(***************************************************************************)
TheReader == Newline = LineEnd /\ \A t \in Texts : ReadOne(t) = read_one(t)

(***************************************************************************)
(* Of every text over any characters, and whatever the nesting limit, what *)
(* the lexer and the reader take from it ends in it, is taken from it as   *)
(* well when a line follows, and a line behind blanks and comments is read *)
(* as if it stood alone (src/reader.cpp:161-183, src/lexer.cpp:284-291).   *)
(***************************************************************************)
THEOREM ReaderKeepsLaws == ASSUME TheReader PROVE ReaderLaws
<1>1. LineEnd \in Char
  BY ReplAssumption DEF TheReader
<1>2. SUFFICES ASSUME NEW t \in Texts, NEW line \in Texts
               PROVE  EndsInside(t) /\ LineBehind(t, line)
  BY DEF ReaderLaws, Texts
<1>3. t \o <<Newline>> \o line = WithLine(t, line) /\ WithLine(t, line) \in Texts
  BY <1>1, LineInside DEF WithLine, TheReader, Follows
<1>4. ReadOne(t) = read_one(t) /\ ReadOne(line) = read_one(line)
      /\ ReadOne(WithLine(t, line)) = read_one(WithLine(t, line))
  BY <1>3 DEF TheReader
<1>5. EndsInside(t)
  <2>1. SUFFICES ASSUME read_one(t).is = "datum" PROVE read_one(t).to \in 1 .. Len(t) + 1
    BY <1>4 DEF EndsInside
  <2>2. DatumIn(t, 1, read_one(t))
    BY <2>1, OneRead
  <2>3. read_one(t).to \in 1 + 1 .. Len(t) + 1
    BY <2>1, <2>2, TokenFields DEF DatumIn
  <2> QED BY <2>3, LenNat
<1>6. LineBehind(t, line)
  BY <1>1, <1>3, <1>4, DatumStays, LineAlone DEF LineBehind
<1> QED BY <1>5, <1>6

(***************************************************************************)
(* So a program typed line by line at the prompt is the program of the     *)
(* lines joined into one text, with nothing assumed of the reader          *)
(* (cli/main.cpp:64-95).                                                   *)
(***************************************************************************)
THEOREM ProgramInPieces == ASSUME TheReader PROVE Spec => []PiecesAreTheWhole
BY ReaderKeepsLaws, PiecesMakeTheWhole

(***************************************************************************)
(* And the status of a file tells how reading all of it and evaluating its *)
(* data ends (cli/main.cpp:28-44).                                         *)
(***************************************************************************)
THEOREM ProgramStatus == ASSUME TheReader PROVE Spec => []BatchStatus
BY ReaderKeepsLaws, StatusTells
=============================================================================
