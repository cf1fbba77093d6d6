-------------------------------- MODULE Repl --------------------------------
(***************************************************************************)
(* The command line program (cli/main.cpp) around a session: a file, or    *)
(* standard input, executed as a whole, and the prompt, where a program    *)
(* arrives in pieces.  The buffer of the prompt keeps what Session::run    *)
(* did not consume; the lines typed since it was last empty make one text. *)
(*                                                                         *)
(* A form is what evaluating it comes to: Failing and Exiting are the data *)
(* whose evaluation throws, all others yield a value.  What run does       *)
(* besides (events, the active flag, the depth) is in Session.             *)
(***************************************************************************)
EXTENDS Integers, Sequences

CONSTANTS
  Char,         \* the characters of texts
  ReadOne(_),   \* read_one: see Reader
  Failing,      \* data whose evaluation throws a SchemeError
  Exiting,      \* data whose evaluation throws an ExitRequest
  ExitStatus,   \* its status
  Newline,      \* the character between two lines
  Invocations,  \* how the program may be called: see Invocation
  NoText,       \* no text to execute, or a file that cannot be opened
  Lines,        \* what may be typed at the prompt
  MaxLines      \* bound on the lines typed in a session

\* -i, whether a file is named, whether standard input is a terminal, and the
\* text of the file or of standard input if it is none.
Invocation(inv) ==
  /\ DOMAIN inv = {"interactive", "named", "tty", "text"}
  /\ {inv.interactive, inv.named, inv.tty} \subseteq BOOLEAN
  /\ inv.text = NoText => inv.named \/ inv.tty
  /\ inv.text # NoText => (inv.named \/ ~inv.tty) /\ inv.text \in Seq(Char)

ASSUME ReplAssumption ==
  /\ \A inv \in Invocations : Invocation(inv)
  /\ Failing \cap Exiting = {} /\ MaxLines \in Nat
  /\ Newline \in Char /\ Lines \subseteq Seq(Char)
  /\ ReadOne(<<>>) = [is |-> "end"]

VARIABLES
  pc,          \* "main", "batch" and "repl" inside run, "prompt", "end"
  args,        \* the arguments and the terminal: one of Invocations
  input,       \* the source of run, at the prompt what is left of it
  rest,        \* remaining in Ctx::run
  incomplete,  \* the flag that selects the prompt
  status,      \* the exit status
  typed,       \* the text typed, or executed, since the buffer was last cleared
  ran,         \* the data that yielded a value since then, and where in typed each ends
  lines        \* the lines typed so far

vars == <<pc, args, input, rest, incomplete, status, typed, ran, lines>>

\* The text behind its first n characters.
After(text, n) == SubSeq(text, n + 1, Len(text))

\* A text is executed: the file, or standard input that is no terminal.
Executes == args.named \/ ~args.tty
Interactive == args.interactive \/ (~args.named /\ args.tty)

Exit(code) == pc' = "end" /\ status' = code
\* Session::run is called with the text.
Call(where, text) == pc' = where /\ input' = text /\ rest' = text

Init == /\ pc = "main" /\ args \in Invocations
        /\ input = <<>> /\ rest = <<>> /\ incomplete = FALSE /\ status = 0
        /\ typed = <<>> /\ ran = <<>> /\ lines = 0

\* main up to the first call of execute or repl.
Start ==
  /\ pc = "main"
  /\ CASE Executes /\ args.text = NoText -> Exit(1) /\ UNCHANGED <<input, rest, typed>>
       [] Executes /\ args.text # NoText ->
            Call("batch", args.text) /\ typed' = args.text /\ UNCHANGED status
       [] OTHER -> Call("repl", <<>>) /\ UNCHANGED <<status, typed>>
  /\ UNCHANGED <<args, incomplete, ran, lines>>

\* The end of execute_batch without an exception.
AfterBatch ==
  IF Interactive THEN Call("repl", <<>>) /\ typed' = <<>> /\ ran' = <<>> /\ UNCHANGED status
  ELSE Exit(0) /\ UNCHANGED <<input, rest, typed, ran>>
-----------------------------------------------------------------------------
Running == pc \in {"batch", "repl"}
Next1 == ReadOne(rest)
Behind == After(rest, Next1.to - 1)
Found(kinds) == Running /\ Next1.is \in kinds
Datum(data) == Found({"datum"}) /\ Next1.v \in data

\* One more form of the source.
RunForm ==
  /\ Found({"datum"}) /\ Next1.v \notin Failing \cup Exiting
  /\ rest' = Behind
  /\ ran' = Append(ran, [v |-> Next1.v, to |-> Len(typed) - Len(Behind)])
  /\ UNCHANGED <<pc, args, input, incomplete, status, typed, lines>>

\* An error at the prompt leaves the flag as it was.
BugThrow ==
  \/ /\ pc = "repl" /\ pc' = "prompt"
     /\ input' = <<>> /\ typed' = <<>> /\ ran' = <<>>
     /\ UNCHANGED <<rest, incomplete, status>>
  \/ /\ pc = "batch" /\ Exit(1)
     /\ UNCHANGED <<input, rest, incomplete, typed, ran>>
\* An exception from run: reported, and then a new prompt or the end.
Throw ==
  \/ /\ pc = "repl" /\ pc' = "prompt"
     /\ input' = <<>> /\ incomplete' = FALSE
     /\ typed' = <<>> /\ ran' = <<>>
     /\ UNCHANGED <<rest, status>>
  \/ /\ pc = "batch" /\ Exit(1)
     /\ UNCHANGED <<input, rest, incomplete, typed, ran>>

Error == /\ Found({"error"}) \/ Datum(Failing)
         /\ Throw /\ UNCHANGED <<args, lines>>

\* An ExitRequest passes the handler of the loop.
ExitForm == /\ Datum(Exiting) /\ Exit(ExitStatus)
            /\ UNCHANGED <<args, input, rest, incomplete, typed, ran, lines>>

\* Everything has been consumed: a buffer without an unfinished datum is
\* cleared.
RunEnd ==
  /\ Found({"end"})
  /\ \/ pc = "batch" /\ AfterBatch /\ UNCHANGED incomplete
     \/ /\ pc = "repl" /\ pc' = "prompt"
        /\ input' = <<>> /\ incomplete' = FALSE
        /\ UNCHANGED <<rest, status, typed, ran>>
  /\ UNCHANGED <<args, lines>>

\* A file that ends in the middle of a datum has been executed.
BugUnfinished ==
  \/ /\ pc = "batch" /\ AfterBatch /\ UNCHANGED incomplete
  \/ /\ pc = "repl" /\ pc' = "prompt"
     /\ input' = rest /\ incomplete' = TRUE
     /\ UNCHANGED <<rest, status, typed, ran>>
\* run stops at an unfinished datum: the buffer keeps it, execute throws.
Unfinished ==
  \/ pc = "batch" /\ Throw
  \/ /\ pc = "repl" /\ pc' = "prompt"
     /\ input' = rest /\ incomplete' = TRUE
     /\ UNCHANGED <<rest, status, typed, ran>>

RunIncomplete == /\ Found({"incomplete"}) /\ Unfinished
                 /\ UNCHANGED <<args, lines>>
-----------------------------------------------------------------------------
\* The end of a line is not the end of a word.
BugJoined(text, line) == text \o line
\* A line is appended to the buffer behind a newline, unless it is empty.
Joined(text, line) == IF text = <<>> THEN line ELSE text \o <<Newline>> \o line

\* rx.input returns a line, which is run with what the buffer holds.
Line(line) ==
  /\ pc = "prompt" /\ args.tty /\ lines < MaxLines
  /\ lines' = lines + 1
  /\ typed' = IF typed = <<>> THEN line ELSE typed \o <<Newline>> \o line
  /\ Call("repl", Joined(input, line))
  /\ UNCHANGED <<args, incomplete, status, ran>>

\* The key clears the line being typed and the buffer, and returns.
CtrlC == /\ pc = "prompt" /\ args.tty
         /\ Call("repl", <<>>) /\ incomplete' = FALSE
         /\ typed' = <<>> /\ ran' = <<>>
         /\ UNCHANGED <<args, status, lines>>

\* No line: Ctrl+D, or standard input that has been read to its end.
CtrlD == /\ pc = "prompt" /\ Exit(0)
         /\ UNCHANGED <<args, input, rest, incomplete, typed, ran, lines>>

Next == \/ Start \/ RunForm \/ Error \/ ExitForm \/ RunEnd \/ RunIncomplete
        \/ (\E line \in Lines : Line(line)) \/ CtrlC \/ CtrlD

Spec == Init /\ [][Next]_vars
-----------------------------------------------------------------------------
\* The laws of reading that typing in pieces rests on.  A datum ends in the
\* text; neither a newline nor what follows it changes a datum before them;
\* behind a text in which nothing was found, a line is read as if it stood
\* alone.
Same(r, q, by) == r.is = q.is /\ (q.is = "datum" => r.v = q.v /\ r.to = q.to + by)
EndsInside(text) == ReadOne(text).is = "datum" => ReadOne(text).to \in 1 .. Len(text) + 1
LineBehind(text, line) ==
  LET r == ReadOne(text)
      both == ReadOne(text \o <<Newline>> \o line)
  IN /\ r.is = "datum" => Same(both, r, 0)
     /\ r.is = "end" => Same(both, ReadOne(line), Len(text) + 1)
ReaderLaws == \A text, line \in Seq(Char) : EndsInside(text) /\ LineBehind(text, line)

\* What the prompt says is so: with ".. " the buffer holds the beginning of a
\* datum, with ">> " nothing that a later line would be read together with
\* (cli/main.cpp:67-71, 78-79).
PromptTells == pc = "prompt" => (incomplete <=> input # <<>>)

\* What running a text comes to, from the datum on that is next in it.
Outcome(r) == CASE r.is = "datum" /\ r.v \in Failing -> "error"
                [] r.is = "datum" /\ r.v \in Exiting -> "exit"
                [] OTHER -> r.is

\* The data are those read first in the text, each behind the one before it,
\* and none of them throws.
From(data, i) == IF i = 1 THEN 0 ELSE data[i - 1].to
Evaluated(text, data) ==
  \A i \in DOMAIN data :
    LET r == ReadOne(After(text, From(data, i)))
    IN /\ r.is = "datum" /\ r.v = data[i].v /\ r.v \notin Failing \cup Exiting
       /\ From(data, i) + r.to = data[i].to + 1
Unread(text, data) == After(text, From(data, Len(data) + 1))

\* Run as a whole, the text evaluates the data and then comes to the end.
RunsAs(text, data, end) ==
  Evaluated(text, data) /\ Outcome(ReadOne(Unread(text, data))) = end

\* A program typed in pieces is the program: what has been evaluated line by
\* line, and whether more is awaited, is what the lines joined into one text
\* come to (cli/main.cpp:64-95, the consumed of Ctx::run).
PiecesAreTheWhole ==
  pc = "prompt" => RunsAs(typed, ran, IF incomplete THEN "incomplete" ELSE "end")

\* Executing a text runs its data once and in order up to the first that
\* throws, and the status tells how it ended (cli/main.cpp:28-44).
BatchStatus ==
  pc = "end" /\ Executes /\ ~Interactive /\ args.text # NoText =>
    \E end \in {"end", "incomplete", "error", "exit"} :
      /\ RunsAs(args.text, ran, end)
      /\ status = CASE end = "end" -> 0 [] end = "exit" -> ExitStatus [] OTHER -> 1
=============================================================================
