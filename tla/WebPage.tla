------------------------------ MODULE WebPage -------------------------------
(***************************************************************************)
(* The playground: web/app.ts (Repl, App, Editor, Permalink) around the    *)
(* session that web/main.cpp exports.                                      *)
(*                                                                         *)
(* JavaScript runs one event at a time to its end, microtasks included, so *)
(* an action is one event: a click, a key, the end of a load, a reload.    *)
(* What interleaves is what happens between two events: boot() awaits      *)
(* createScheme(), and until that load ends the user goes on.  A boot is   *)
(* in flight on behalf of start, of reset or of a Run that crashed, which  *)
(* decides what follows it.                                                *)
(***************************************************************************)
EXTENDS Integers, Sequences

CONSTANTS
  Programs,     \* the texts the editor can hold
  Sample,       \* the one it shows first
  NoLink,       \* a URL without a hash
  Broken,       \* a hash that does not decode
  MaxBoots,     \* bound on the loads of one page
  MaxFailures,  \* bound on the loads that fail
  MaxReloads    \* bound on the times the page is opened again

ASSUME WebPageAssumption ==
  /\ Sample \in Programs
  /\ NoLink \notin Programs /\ Broken \notin Programs /\ NoLink # Broken
  /\ MaxBoots \in Nat /\ MaxFailures \in Nat /\ MaxReloads \in Nat

VARIABLES
  sessions,  \* the wasm sessions this page has made
  session,   \* Repl.session, 0 when undefined
  boots,     \* the calls of boot(): on whose behalf, and how far
  disabled,  \* runBtn.disabled, resetBtn.disabled
  editing,   \* is the editor enabled?
  shown,     \* what the console holds
  program,   \* Editor.value, but for the spaces of a Tab not saved yet
  unsaved,   \* has Tab inserted spaces since the program was saved?
  saved,     \* localStorage "scheme-program"
  hash,      \* location.hash
  mine,        \* history: the program the user last wrote, or opened a link to
  followed,    \* history: the link in the URL since then, put there by the user
               \* or by Share, and not opened yet
  overwritten, \* history: a link older than what was written has been opened
  failures, reloads

vars == <<sessions, session, boots, disabled, editing, shown, program, unsaved,
          saved, hash, mine, followed, overwritten, failures, reloads>>
history == <<mine, followed, overwritten>>
editor == <<program, unsaved, saved, hash, history>>

\* A session is idle between runs; stuck when an exception of JavaScript went
\* through its C++ frames and left it active; broken when it trapped.  defs:
\* some run has changed its definitions.
Sessions == [st : {"idle", "stuck", "broken", "deleted"}, defs : BOOLEAN]
Fresh == [st |-> "idle", defs |-> FALSE]
\* of: history, the session whose crash began the load, 0 for start and reset.
Boot(by, of) == [by |-> by, of |-> of, at |-> "loading"]
Boots == [by : {"start", "reset", "crash"}, of : Nat,
          at : {"loading", "done", "failed"}]

\* The page as the HTML has it, and App.start() up to its first await.  An
\* empty localStorage is one that holds the sample.
Init ==
  /\ sessions = <<>> /\ session = 0
  /\ boots = <<Boot("start", 0)>>
  /\ disabled = TRUE /\ editing = FALSE
  /\ shown = "loading"
  /\ program = Sample /\ unsaved = FALSE /\ saved = Sample /\ hash = NoLink
  /\ mine = Sample /\ followed = NoLink /\ overwritten = FALSE
  /\ failures = 0 /\ reloads = 0
-----------------------------------------------------------------------------
\* dispose(): the session in use, if any, is deleted.
Disposed(s) == IF session = 0 THEN s ELSE [s EXCEPT ![session].st = "deleted"]

\* Bug: whatever follows the # is a program.
BugFirstProgram == IF hash # NoLink THEN hash ELSE saved

\* Permalink.consume() ?? editor.saved ?? sample
FirstProgram == IF hash \in Programs THEN hash ELSE saved

\* A link that is opened counts as the user's last word, unless it is older
\* than what was written since.
Opened ==
  /\ mine' = IF followed \in Programs THEN followed ELSE mine
  /\ overwritten' = IF hash \in Programs THEN followed # hash ELSE overwritten
  /\ followed' = NoLink

\* Bug: the setter of Editor.value does not save.
BugShowProgram ==
  /\ program' = FirstProgram
  /\ hash' = IF hash \in Programs THEN NoLink ELSE hash
  /\ Opened
  /\ UNCHANGED <<saved, unsaved>>

ShowProgram ==
  /\ program' = FirstProgram /\ saved' = FirstProgram /\ unsaved' = FALSE
  /\ hash' = IF hash \in Programs THEN NoLink ELSE hash
  /\ Opened

\* Bug: the old session is left to the garbage collector, which does not
\* know of wasm memory.
BugNewSession ==
  /\ sessions' = Append(sessions, Fresh)
  /\ session' = Len(sessions) + 1

\* boot() after its await.
NewSession ==
  /\ sessions' = Append(Disposed(sessions), Fresh)
  /\ session' = Len(sessions) + 1

\* Bug: the buttons stay as they are.
BugAfterBoot(by) ==
  CASE by = "start" -> disabled' = FALSE /\ editing' = TRUE /\ shown' = "hint" /\ ShowProgram
    [] by = "reset" -> shown' = "fresh" /\ UNCHANGED <<disabled, editing, editor>>
    [] by = "crash" -> UNCHANGED <<disabled, editing, shown, editor>>

\* What awaited the boot goes on at once: reboot() enables the buttons, then
\* start() and reset() clear the console; after a crash nothing is left to do.
AfterBoot(by) ==
  \/ /\ by = "start"
     /\ disabled' = FALSE /\ editing' = TRUE /\ shown' = "hint"
     /\ ShowProgram
  \/ /\ by = "reset"
     /\ disabled' = FALSE /\ shown' = "fresh"
     /\ UNCHANGED <<editing, editor>>
  \/ /\ by = "crash"
     /\ UNCHANGED <<disabled, editing, shown, editor>>

\* createScheme() resolves, in whatever order the loads end.
LoadEnds(i) ==
  /\ boots[i].at = "loading"
  /\ boots' = [boots EXCEPT ![i].at = "done"]
  /\ NewSession
  /\ AfterBoot(boots[i].by)
  /\ UNCHANGED <<failures, reloads>>

\* createScheme() rejects: so does everything that awaits it.
LoadFails(i) ==
  /\ boots[i].at = "loading" /\ failures < MaxFailures
  /\ boots' = [boots EXCEPT ![i].at = "failed"]
  /\ failures' = failures + 1
  /\ UNCHANGED <<sessions, session, disabled, editing, shown, editor, reloads>>

\* The button, or Ctrl+Enter in an editor that is enabled.
CanRun == ~disabled \/ editing

\* Repl.evaluate without a session.
RunNothing ==
  /\ CanRun /\ session = 0
  /\ shown' = "nothing"
  /\ UNCHANGED <<sessions, session, boots, disabled, editing, editor, failures, reloads>>

Ran(what, then) ==
  /\ CanRun /\ session # 0
  /\ shown' = what
  /\ sessions' = [sessions EXCEPT ![session] = then]
  /\ UNCHANGED <<session, disabled, editing, editor, failures, reloads>>

\* run() of main.cpp returns: ok, incomplete, or the error it caught.  The
\* definitions made before an error stay.
RunAnswers ==
  /\ session # 0 /\ sessions[session].st \in {"idle", "broken"}
  /\ Ran("answer", [sessions[session] EXCEPT !.defs = TRUE])
  /\ UNCHANGED boots

\* ActiveSession refuses a session that was left active.
RunRefused ==
  /\ session # 0 /\ sessions[session].st = "stuck"
  /\ Ran("answer", sessions[session])
  /\ UNCHANGED boots

\* The engine's own stack overflows: a RangeError, which destructors in C++
\* may or may not see.
RunOverflows ==
  /\ session # 0 /\ sessions[session].st \in {"idle", "broken"}
  /\ \E st \in {sessions[session].st, "stuck"} : Ran("answer", [st |-> st, defs |-> TRUE])
  /\ UNCHANGED boots

\* Bug: the crash is reported, and that is all.
BugRunCrashes ==
  /\ session # 0 /\ sessions[session].st \in {"idle", "broken"}
  /\ Ran("crashed", [st |-> "broken", defs |-> TRUE])
  /\ UNCHANGED boots

\* Any other exception: a notice, and a boot nobody waits for.
RunCrashes ==
  /\ session # 0 /\ sessions[session].st \in {"idle", "broken"}
  /\ Len(boots) < MaxBoots
  /\ Ran("crashed", [st |-> "broken", defs |-> TRUE])
  /\ boots' = Append(boots, Boot("crash", session))

\* Bug: the console is cleared first, the session replaced later.
BugReset ==
  /\ ~disabled /\ Len(boots) < MaxBoots
  /\ disabled' = TRUE /\ shown' = "fresh"
  /\ boots' = Append(boots, Boot("reset", 0))
  /\ UNCHANGED <<sessions, session, editing, editor, failures, reloads>>

Reset ==
  /\ ~disabled /\ Len(boots) < MaxBoots
  /\ disabled' = TRUE
  /\ boots' = Append(boots, Boot("reset", 0))
  /\ UNCHANGED <<sessions, session, editing, shown, editor, failures, reloads>>

\* An input event of the editor: newer than any link in the URL.
Edit(p) ==
  /\ editing /\ p # program
  /\ program' = p /\ saved' = p /\ unsaved' = FALSE
  /\ mine' = p /\ followed' = NoLink /\ overwritten' = FALSE
  /\ UNCHANGED <<sessions, session, boots, disabled, editing, shown, hash, failures,
                 reloads>>

\* Spaces put in by setRangeText, which is not an input event.
Tab ==
  /\ editing /\ unsaved' = TRUE
  /\ UNCHANGED <<sessions, session, boots, disabled, editing, shown, program, saved,
                 hash, history, failures, reloads>>

\* "Copy link" where the clipboard is denied; where it is not, nothing here
\* changes.
ShareInURL ==
  /\ editing                                  \* enabled together
  /\ hash' = program /\ followed' = program
  /\ UNCHANGED <<sessions, session, boots, disabled, editing, shown, program, unsaved,
                 saved, mine, overwritten, failures, reloads>>

\* beforeunload of a navigation that then does not leave the page.
Stay ==
  /\ session # 0
  /\ sessions' = Disposed(sessions) /\ session' = 0
  /\ UNCHANGED <<boots, disabled, editing, shown, editor, failures, reloads>>

Links == Programs \cup {NoLink, Broken}

\* The page is left and loaded again; what the old one held is gone,
\* localStorage is not.
NewPage ==
  /\ reloads < MaxReloads
  /\ reloads' = reloads + 1
  /\ sessions' = <<>> /\ session' = 0
  /\ boots' = <<Boot("start", 0)>>
  /\ disabled' = TRUE /\ editing' = FALSE
  /\ shown' = "loading"
  /\ unsaved' = FALSE
  /\ UNCHANGED <<program, saved, mine, overwritten, failures>>

Reload == NewPage /\ UNCHANGED <<hash, followed>>

\* The page is opened anew, through a link or without one.
Open(link) == NewPage /\ hash' = link /\ followed' = link

\* A link to the page, opened where the page is shown, or Back: the document
\* stays, and nothing in it listens to hashchange.  Only the URL changes, and
\* the next start reads it.
Follow(link) ==
  /\ hash' = link /\ followed' = link
  /\ UNCHANGED <<sessions, session, boots, disabled, editing, shown, program, unsaved,
                 saved, mine, overwritten, failures, reloads>>

Load == \E i \in DOMAIN boots : LoadEnds(i)
Run == RunNothing \/ RunAnswers \/ RunRefused \/ RunOverflows \/ RunCrashes
Next ==
  \/ Load
  \/ \E i \in DOMAIN boots : LoadFails(i)
  \/ Run \/ Reset \/ Stay \/ Tab \/ ShareInURL \/ Reload
  \/ \E p \in Programs : Edit(p)
  \/ \E link \in Links : Open(link) \/ Follow(link)

Spec == Init /\ [][Next]_vars
\* A load ends, one way or the other; the user owes nothing.
FairSpec == Spec /\ \A i \in 1..MaxBoots :
                      WF_vars(i \in DOMAIN boots /\ (LoadEnds(i) \/ LoadFails(i)))
-----------------------------------------------------------------------------
TypeOK ==
  /\ sessions \in Seq(Sessions)
  /\ session \in 0..Len(sessions)
  /\ boots \in Seq(Boots)
  /\ disabled \in BOOLEAN /\ editing \in BOOLEAN
  /\ unsaved \in BOOLEAN /\ overwritten \in BOOLEAN
  /\ shown \in {"loading", "hint", "fresh", "answer", "crashed", "nothing"}
  /\ program \in Programs /\ saved \in Programs /\ mine \in Programs
  /\ hash \in Links /\ followed \in Links
  /\ failures \in Nat /\ reloads \in Nat

(***************************************************************************)
(* However the boots of start, resets and crashes race, every session but  *)
(* the one in use has been deleted, and the one in use has not: nothing in *)
(* wasm memory is leaked, no deleted session is run (Repl.boot).           *)
(***************************************************************************)
OneSession ==
  \A i \in DOMAIN sessions : (sessions[i].st = "deleted") <=> (i # session)

(***************************************************************************)
(* While the console says that the session is fresh, it is: no run has     *)
(* reached it, and it will accept one (App.start, App.reset).              *)
(***************************************************************************)
FreshIsFresh ==
  shown \in {"hint", "fresh"} /\ session # 0 => sessions[session] = Fresh

(***************************************************************************)
(* The buttons are disabled exactly while start or reset waits for its     *)
(* load, or since that load failed: no two of them are ever in flight, and *)
(* a crash takes the buttons from nobody (App.reboot).                     *)
(***************************************************************************)
Waiting == {i \in DOMAIN boots : boots[i].by # "crash" /\ boots[i].at # "done"}
DisabledWhileBooting ==
  /\ disabled <=> Waiting # {}
  /\ \A i, j \in Waiting : i = j

(***************************************************************************)
(* What the user wrote last, or opened a link to since, is what the editor *)
(* shows and localStorage holds, across reloads and failed loads too, but  *)
(* for the spaces of a Tab, and but for one case: a link that Share or the *)
(* user put in the URL of a page already started stays there unread while  *)
(* the user goes on writing, and the next start prefers it.  Until the     *)
(* user then writes or opens something, the last words are lost            *)
(* (Editor.value, Permalink.consume, App.start).                           *)
(***************************************************************************)
EditsSurvive == editing /\ ~overwritten => program = mine /\ saved = mine

(***************************************************************************)
(* The buttons come back after a start and after every reset, unless the   *)
(* load failed (App.reboot).                                               *)
(***************************************************************************)
Failed == \E i \in DOMAIN boots : boots[i].by # "crash" /\ boots[i].at = "failed"
ButtonsComeBack == disabled ~> (~disabled \/ Failed)

(***************************************************************************)
(* A session that crashed is replaced, unless the loads that were begun    *)
(* for it, one at each of its crashes, have all failed (Repl.evaluate).    *)
(***************************************************************************)
LoadsFor(s) == {i \in DOMAIN boots : boots[i].by = "crash" /\ boots[i].of = s}
GivenUp(s) == LoadsFor(s) # {} /\ \A i \in LoadsFor(s) : boots[i].at = "failed"
InUse(st) == session # 0 /\ sessions[session].st = st
CrashedIsReplaced ==
  \A s \in 1..MaxBoots : (session = s /\ InUse("broken")) ~> (session # s \/ GivenUp(s))

(***************************************************************************)
(* README.md:73-74, "A session keeps its definitions across runs": those   *)
(* of a session that works go only with a reset, or with the page.         *)
(***************************************************************************)
Resetting == \E i \in DOMAIN boots : boots[i].by = "reset" /\ boots[i].at = "loading"
                                    /\ boots' = [boots EXCEPT ![i].at = "done"]
DefinitionsKept ==
  [][InUse("idle") /\ sessions[session].defs /\ session' # session
       => Resetting \/ session' = 0]_vars
=============================================================================
