----------------------------- MODULE MCExpander -----------------------------
\* A small instance of Expander for TLC: a macro m, two forms
\* that redefine it or what it stands for, a use.
EXTENDS ExpanderMeaning, TLC

CONSTANTS m, n, a, b

\* What an expander does and stands for.
Bodies ==
  {Quote(Show(a)), Quote(Use(n)), Quote(Call(<<Show(b), Use(n)>>)),
   Quote(Begin(<<DefMacro(n, Quote(Show(b))), Use(n)>>)),
   Begin(<<Show(a), Eval(Quote(DefMacro(n, Quote(Show(b))))), Quote(Use(n))>>),
   Quote(Define(n, Use(m))), Use(n), Raise, Quote(Begin(<<>>)),
   Quote(DefMacro(m, Quote(Show(b))))}
\* Expanders that never come to an end of their own.
Endless ==
  {Quote(Use(m)), Quote(Call(<<Use(m)>>)), Begin(<<Eval(Quote(Use(m))), Quote(Show(a))>>)}

Middles ==
  {DefMacro(n, Quote(Show(b))), DefMacro(n, Begin(<<Show(a), Quote(Use(m))>>)),
   Define(n, Show(b)), Define(n, Use(m)), Use(m),
   Begin(<<Define(n, Quote(Show(b))), Alias(m, n)>>),
   Begin(<<Define(n, Use(m)), DefMacro(n, Quote(Raise)), Show(a)>>)}

Uses ==
  {Use(m), Call(<<Use(m), Use(n), Show(a)>>), Eval(Quote(Begin(<<Use(m), Use(n)>>))),
   Begin(<<Begin(<<Use(n), Raise>>), Use(m)>>), Call(<<DefMacro(n, Quote(Show(b)))>>)}

MCPrograms ==
  {<<DefMacro(m, f), g1, g2, h>> :
     f \in Bodies \cup Endless, g1 \in Middles, g2 \in Middles, h \in Uses}

\* A macro that stands for a begin of itself.
Spiral == {<<DefMacro(m, Quote(Begin(<<Use(m)>>))), Use(m)>>}
=============================================================================
