--------------------------- MODULE WebPage_proof ----------------------------
(***************************************************************************)
(* Proofs about WebPage, for any programs and any number of boots, failed  *)
(* loads and reloads.  The invariant is the conjunction of the types and   *)
(* of what is proved: that no session is leaked needs only that boot()     *)
(* deletes and replaces in one event, and that buttons and boots agree     *)
(* rests on no two resets being in flight.  What the user wrote last is    *)
(* kept because at every moment it is in localStorage, or in the URL as a  *)
(* link that the user followed since and the next start opens (EditInv).   *)
(***************************************************************************)
EXTENDS WebPage, TLAPS

\* Where what the user wrote last is: in localStorage, and in the editor once
\* it is enabled; a link followed since is still in the URL.
EditInv ==
  /\ followed \in Programs => hash = followed
  /\ ~overwritten => saved = mine
  /\ editing /\ ~overwritten => program = mine

IInv == TypeOK /\ OneSession /\ FreshIsFresh /\ DisabledWhileBooting /\ EditInv

LEMMA BootTypes ==
  /\ Fresh \in Sessions
  /\ \A by \in {"start", "reset", "crash"}, of \in Nat : Boot(by, of) \in Boots
BY DEF Fresh, Sessions, Boot, Boots

LEMMA OneBoot ==
  /\ <<Boot("start", 0)>> \in Seq(Boots) /\ DOMAIN <<Boot("start", 0)>> = {1}
  /\ <<Boot("start", 0)>>[1].by = "start" /\ <<Boot("start", 0)>>[1].at = "loading"
BY BootTypes DEF Boot

LEMMA InitInv == Init => IInv
<1> SUFFICES ASSUME Init PROVE IInv
  OBVIOUS
<1>0. boots \in Seq(Boots) /\ sessions \in Seq(Sessions) /\ session \in 0..Len(sessions)
  BY OneBoot DEF Init
<1>1. TypeOK
  BY <1>0, WebPageAssumption DEF Init, TypeOK, Links
<1>2. OneSession /\ FreshIsFresh
  BY DEF Init, OneSession, FreshIsFresh
<1>3. Waiting = {1}
  BY OneBoot DEF Init, Waiting
<1>4. EditInv
  BY WebPageAssumption DEF Init, EditInv
<1> QED BY <1>1, <1>2, <1>3, <1>4 DEF IInv, DisabledWhileBooting, Init

LEMMA PutInSeq ==
  ASSUME NEW S, NEW s \in Seq(S), NEW i \in DOMAIN s, NEW x \in S
  PROVE  /\ [s EXCEPT ![i] = x] \in Seq(S)
         /\ Len([s EXCEPT ![i] = x]) = Len(s)
         /\ DOMAIN [s EXCEPT ![i] = x] = DOMAIN s
         /\ [s EXCEPT ![i] = x][i] = x
         /\ \A k \in DOMAIN s \ {i} : [s EXCEPT ![i] = x][k] = s[k]
OBVIOUS

\* A boot comes to an end; nothing else of the boots changes.
LEMMA BootEnds ==
  ASSUME boots \in Seq(Boots), NEW i \in DOMAIN boots, NEW how \in {"done", "failed"},
         boots' = [boots EXCEPT ![i].at = how]
  PROVE  /\ boots' \in Seq(Boots)
         /\ DOMAIN boots' = DOMAIN boots
         /\ \A k \in DOMAIN boots : boots'[k].by = boots[k].by
         /\ \A k \in DOMAIN boots \ {i} : boots'[k].at = boots[k].at
         /\ boots'[i].at = how
<1> DEFINE b == [boots[i] EXCEPT !.at = how]
<1>0. \A r \in Boots : LET c == [r EXCEPT !.at = how]
                       IN c \in Boots /\ c.by = r.by /\ c.at = how
  BY DEF Boots
<1>1. b \in Boots /\ b.by = boots[i].by /\ b.at = how
  <2>1. boots[i] \in Boots
    OBVIOUS
  <2> QED BY <1>0, <2>1
<1>2. boots' = [boots EXCEPT ![i] = b]
  OBVIOUS
<1> HIDE DEF b
<1> QED BY <1>1, <1>2, PutInSeq

\* Types ------------------------------------------------------------------

LEMMA ShowProgramType ==
  ASSUME TypeOK, ShowProgram
  PROVE  /\ program' \in Programs /\ saved' \in Programs /\ unsaved' \in BOOLEAN
         /\ hash' \in Links /\ followed' \in Links
         /\ mine' \in Programs /\ overwritten' \in BOOLEAN
BY DEF TypeOK, ShowProgram, FirstProgram, Opened, Links

LEMMA DisposedType ==
  ASSUME TypeOK
  PROVE  /\ Disposed(sessions) \in Seq(Sessions)
         /\ Len(Disposed(sessions)) = Len(sessions)
         /\ session # 0 => /\ Disposed(sessions)[session].st = "deleted"
                           /\ \A k \in DOMAIN sessions \ {session} :
                                Disposed(sessions)[k] = sessions[k]
<1>1. CASE session = 0
  BY <1>1 DEF TypeOK, Disposed
<1>2. CASE session # 0
  <2> DEFINE d == [sessions[session] EXCEPT !.st = "deleted"]
  <2>1. session \in DOMAIN sessions /\ sessions \in Seq(Sessions)
    BY <1>2 DEF TypeOK
  <2>2. d \in Sessions /\ d.st = "deleted"
    <3>1. \A r \in Sessions : LET c == [r EXCEPT !.st = "deleted"]
                              IN c \in Sessions /\ c.st = "deleted"
      BY DEF Sessions
    <3>2. sessions[session] \in Sessions
      BY <2>1
    <3> QED BY <3>1, <3>2
  <2>3. Disposed(sessions) = [sessions EXCEPT ![session] = d]
    BY <1>2 DEF Disposed
  <2> HIDE DEF d
  <2> QED BY <2>1, <2>2, <2>3, PutInSeq
<1> QED BY <1>1, <1>2

\* A run leaves the session it ran on in one of three conditions, and the
\* others as they were.
LEMMA RunEffect ==
  ASSUME TypeOK, session # 0, NEW what, NEW then \in Sessions, Ran(what, then)
  PROVE  /\ sessions' \in Seq(Sessions) /\ Len(sessions') = Len(sessions)
         /\ session' = session /\ sessions'[session] = then
         /\ \A k \in DOMAIN sessions \ {session} : sessions'[k] = sessions[k]
BY PutInSeq DEF TypeOK, Ran

LEMMA RunAdds ==
  ASSUME TypeOK, OneSession, Run
  PROVE  \/ UNCHANGED <<sessions, session>> /\ shown' \in {"answer", "nothing"}
         \/ session # 0 /\ \E then \in Sessions, what \in {"answer", "crashed"} :
                              Ran(what, then) /\ then.st # "deleted"
<1>1. CASE RunNothing
  BY <1>1 DEF RunNothing
<1>2. CASE RunAnswers
  <2> DEFINE r == [sessions[session] EXCEPT !.defs = TRUE]
  <2>1. session \in DOMAIN sessions /\ sessions[session] \in Sessions
    BY <1>2 DEF RunAnswers, TypeOK
  <2>2. r \in Sessions /\ r.st # "deleted"
    BY <1>2, <2>1 DEF RunAnswers, Sessions
  <2> QED BY <1>2, <2>2 DEF RunAnswers
<1>3. CASE RunRefused
  <2>1. session \in DOMAIN sessions /\ sessions[session] \in Sessions
    BY <1>3 DEF RunRefused, TypeOK
  <2> QED BY <1>3, <2>1 DEF RunRefused
<1>4. CASE RunOverflows
  <2> PICK st \in {sessions[session].st, "stuck"} : Ran("answer", [st |-> st, defs |-> TRUE])
    BY <1>4 DEF RunOverflows
  <2>1. [st |-> st, defs |-> TRUE] \in Sessions /\ st # "deleted"
    BY <1>4 DEF RunOverflows, Sessions
  <2> QED BY <1>4, <2>1 DEF RunOverflows
<1>5. CASE RunCrashes
  <2>1. [st |-> "broken", defs |-> TRUE] \in Sessions
    BY DEF Sessions
  <2> DEFINE broken == [st |-> "broken", defs |-> TRUE]
  <2>2. session # 0 /\ Ran("crashed", broken) /\ broken.st # "deleted"
    BY <1>5 DEF RunCrashes
  <2> HIDE DEF broken
  <2> QED BY <2>1, <2>2 DEF broken
<1> QED BY <1>1, <1>2, <1>3, <1>4, <1>5 DEF Run

LEMMA TypeStep == ASSUME TypeOK, OneSession, [Next]_vars PROVE TypeOK'
<1>1. CASE Load
  <2> PICK i \in DOMAIN boots : LoadEnds(i)
    BY <1>1 DEF Load
  <2>0. boots \in Seq(Boots) /\ boots' = [boots EXCEPT ![i].at = "done"]
    BY DEF LoadEnds, TypeOK
  <2>1. boots' \in Seq(Boots)
    BY <2>0, BootEnds
  <2>11. boots[i].by \in {"start", "reset", "crash"}
    <3>1. boots[i] \in Boots
      BY <2>0
    <3> QED BY <3>1 DEF Boots
  <2>2. sessions' \in Seq(Sessions) /\ session' \in 0..Len(sessions')
    BY DisposedType, BootTypes DEF LoadEnds, NewSession, TypeOK
  <2>3. CASE boots[i].by = "start"
    <3>1. ShowProgram /\ disabled' = FALSE /\ editing' = TRUE /\ shown' = "hint"
      BY <2>3 DEF LoadEnds, AfterBoot
    <3> QED BY <2>1, <2>2, <3>1, ShowProgramType DEF TypeOK, LoadEnds
  <2>4. CASE boots[i].by \in {"reset", "crash"}
    BY <2>1, <2>2, <2>4 DEF TypeOK, LoadEnds, AfterBoot, editor, history
  <2> QED BY <2>11, <2>3, <2>4
<1>2. ASSUME NEW i \in DOMAIN boots, LoadFails(i) PROVE TypeOK'
  <2>0. boots \in Seq(Boots) /\ boots' = [boots EXCEPT ![i].at = "failed"]
    BY <1>2 DEF LoadFails, TypeOK
  <2>1. boots' \in Seq(Boots)
    BY <2>0, BootEnds
  <2>2. failures' \in Nat
    BY <1>2 DEF LoadFails, TypeOK
  <2> QED BY <1>2, <2>1, <2>2 DEF LoadFails, TypeOK, editor, history
<1>3. CASE Run
  <2>1. sessions' \in Seq(Sessions) /\ session' \in 0..Len(sessions')
        /\ shown' \in {"answer", "nothing", "crashed"}
    BY <1>3, RunAdds, RunEffect DEF TypeOK, Ran
  <2>0. boots' = boots \/ boots' = Append(boots, Boot("crash", session))
    BY <1>3 DEF Run, RunNothing, RunAnswers, RunRefused, RunOverflows, RunCrashes
  <2>2. boots' \in Seq(Boots)
    <3>1. session \in Nat
      BY DEF TypeOK
    <3> QED BY <2>0, <3>1, BootTypes DEF TypeOK
  <2>3. UNCHANGED <<disabled, editing, editor, failures, reloads>>
    BY <1>3 DEF Run, RunNothing, RunAnswers, RunRefused, RunOverflows, RunCrashes, Ran
  <2> QED BY <2>1, <2>2, <2>3 DEF TypeOK, editor, history
<1>4. CASE Reset
  BY <1>4, BootTypes DEF Reset, TypeOK, editor, history
<1>5. CASE Stay
  BY <1>5, DisposedType DEF Stay, TypeOK, editor, history
<1>6. CASE Tab \/ ShareInURL
  BY <1>6 DEF Tab, ShareInURL, TypeOK, Links, history
<1>7. ASSUME NEW p \in Programs, Edit(p) PROVE TypeOK'
  BY <1>7 DEF Edit, TypeOK, Links
<1>8. ASSUME NewPage, hash' \in Links, followed' \in Links PROVE TypeOK'
  <2>1. boots' \in Seq(Boots) /\ sessions' \in Seq(Sessions) /\ session' \in 0..Len(sessions')
    BY <1>8, OneBoot DEF NewPage
  <2>2. reloads' \in Nat
    BY <1>8 DEF NewPage, TypeOK
  <2> QED BY <1>8, <2>1, <2>2 DEF NewPage, TypeOK
<1>9. CASE Reload
  BY <1>8, <1>9 DEF Reload, TypeOK
<1>10. ASSUME NEW link \in Links, Open(link) \/ Follow(link) PROVE TypeOK'
  BY <1>8, <1>10 DEF Open, Follow, TypeOK
<1>11. CASE UNCHANGED vars
  BY <1>11 DEF TypeOK, vars, history
<1> QED BY <1>1, <1>2, <1>3, <1>4, <1>5, <1>6, <1>7, <1>9, <1>10, <1>11 DEF Next

\* One session --------------------------------------------------------------

LEMMA SessionStep ==
  ASSUME TypeOK, OneSession, [Next]_vars
  PROVE  OneSession'
<1>1. CASE Load
  <2>1. sessions' = Append(Disposed(sessions), Fresh) /\ session' = Len(sessions) + 1
    BY <1>1 DEF Load, LoadEnds, NewSession
  <2>2. \A k \in 1..Len(sessions) : Disposed(sessions)[k].st = "deleted"
    BY DisposedType DEF OneSession, Disposed, TypeOK
  <2>3. /\ DOMAIN sessions' = 1..(Len(sessions) + 1)
        /\ sessions'[Len(sessions) + 1] = Fresh
        /\ \A k \in 1..Len(sessions) : sessions'[k] = Disposed(sessions)[k]
    BY <2>1, DisposedType DEF TypeOK
  <2> QED BY <2>1, <2>2, <2>3 DEF OneSession, Fresh, TypeOK
<1>2. ASSUME NEW i \in DOMAIN boots, LoadFails(i) PROVE OneSession'
  BY <1>2 DEF LoadFails, OneSession
<1>3. CASE Run
  BY <1>3, RunAdds, RunEffect DEF OneSession, TypeOK
<1>4. CASE Reset
  BY <1>4 DEF Reset, OneSession
<1>5. CASE Stay
  BY <1>5, DisposedType DEF Stay, OneSession, TypeOK
<1>6. CASE Tab \/ ShareInURL
  BY <1>6 DEF Tab, ShareInURL, OneSession
<1>7. ASSUME NEW p \in Programs, Edit(p) PROVE OneSession'
  BY <1>7 DEF Edit, OneSession
<1>8. CASE Reload
  BY <1>8 DEF Reload, NewPage, OneSession
<1>9. ASSUME NEW link \in Links, Open(link) \/ Follow(link) PROVE OneSession'
  BY <1>9 DEF Open, Follow, NewPage, OneSession
<1>10. CASE UNCHANGED vars
  BY <1>10 DEF OneSession, vars
<1> QED BY <1>1, <1>2, <1>3, <1>4, <1>5, <1>6, <1>7, <1>8, <1>9, <1>10 DEF Next

\* What the console says ------------------------------------------------------

LEMMA FreshStep ==
  ASSUME TypeOK, FreshIsFresh, [Next]_vars
  PROVE  FreshIsFresh'
<1>1. CASE Load
  <2>1. sessions' = Append(Disposed(sessions), Fresh) /\ session' = Len(sessions) + 1
    BY <1>1 DEF Load, LoadEnds, NewSession
  <2>2. sessions'[Len(sessions) + 1] = Fresh
    BY <2>1, DisposedType DEF TypeOK
  <2> QED BY <2>1, <2>2 DEF FreshIsFresh
<1>2. ASSUME NEW i \in DOMAIN boots, LoadFails(i) PROVE FreshIsFresh'
  BY <1>2 DEF LoadFails, FreshIsFresh
<1>3. CASE Run
  BY <1>3 DEF Run, RunNothing, RunAnswers, RunRefused, RunOverflows, RunCrashes,
     Ran, FreshIsFresh
<1>4. CASE Reset
  BY <1>4 DEF Reset, FreshIsFresh
<1>5. CASE Stay
  BY <1>5 DEF Stay, FreshIsFresh
<1>6. CASE Tab \/ ShareInURL
  BY <1>6 DEF Tab, ShareInURL, FreshIsFresh
<1>7. ASSUME NEW p \in Programs, Edit(p) PROVE FreshIsFresh'
  BY <1>7 DEF Edit, FreshIsFresh
<1>8. CASE Reload
  BY <1>8 DEF Reload, NewPage, FreshIsFresh
<1>9. ASSUME NEW link \in Links, Open(link) \/ Follow(link) PROVE FreshIsFresh'
  BY <1>9 DEF Open, Follow, NewPage, FreshIsFresh
<1>10. CASE UNCHANGED vars
  BY <1>10 DEF FreshIsFresh, vars
<1> QED BY <1>1, <1>2, <1>3, <1>4, <1>5, <1>6, <1>7, <1>8, <1>9, <1>10 DEF Next

\* Buttons and boots ----------------------------------------------------------

LEMMA ButtonsStep ==
  ASSUME TypeOK, DisabledWhileBooting, [Next]_vars
  PROVE  DisabledWhileBooting'
<1>0. ASSUME UNCHANGED <<disabled, boots>> PROVE DisabledWhileBooting'
  BY <1>0 DEF DisabledWhileBooting, Waiting
<1>1. CASE Load
  <2> PICK i \in DOMAIN boots : LoadEnds(i)
    BY <1>1 DEF Load
  <2>1. /\ DOMAIN boots' = DOMAIN boots
        /\ \A k \in DOMAIN boots : boots'[k].by = boots[k].by
        /\ \A k \in DOMAIN boots \ {i} : boots'[k].at = boots[k].at
        /\ boots'[i].at = "done" /\ boots[i].at = "loading"
    BY BootEnds DEF LoadEnds, TypeOK
  <2>2. Waiting' = Waiting \ {i}
    BY <2>1 DEF Waiting
  <2>3. CASE boots[i].by = "crash"
    <3>1. Waiting' = Waiting
      BY <2>2, <2>3 DEF Waiting
    <3>2. disabled' = disabled
      BY <2>3 DEF LoadEnds, AfterBoot
    <3> QED BY <3>1, <3>2 DEF DisabledWhileBooting
  <2>4. CASE boots[i].by # "crash"
    <3>1. i \in Waiting
      BY <2>1, <2>4 DEF Waiting
    <3>2. Waiting' = {}
      BY <2>2, <3>1 DEF DisabledWhileBooting
    <3>3. disabled' = FALSE
      BY <2>4 DEF LoadEnds, AfterBoot
    <3> QED BY <3>2, <3>3 DEF DisabledWhileBooting
  <2> QED BY <2>3, <2>4
<1>2. ASSUME NEW i \in DOMAIN boots, LoadFails(i) PROVE DisabledWhileBooting'
  <2>1. /\ DOMAIN boots' = DOMAIN boots
        /\ \A k \in DOMAIN boots : boots'[k].by = boots[k].by
        /\ \A k \in DOMAIN boots \ {i} : boots'[k].at = boots[k].at
        /\ boots'[i].at = "failed" /\ boots[i].at = "loading"
    BY <1>2, BootEnds DEF LoadFails, TypeOK
  <2>2. Waiting' = Waiting
    BY <2>1 DEF Waiting
  <2>3. disabled' = disabled
    BY <1>2 DEF LoadFails
  <2> QED BY <2>2, <2>3 DEF DisabledWhileBooting
<1>3. CASE RunCrashes
  <2>1. /\ boots' = Append(boots, Boot("crash", session)) /\ disabled' = disabled
    BY <1>3 DEF RunCrashes, Ran
  <2>2. /\ DOMAIN boots' = DOMAIN boots \cup {Len(boots) + 1}
        /\ \A k \in DOMAIN boots : boots'[k] = boots[k]
        /\ boots'[Len(boots) + 1].by = "crash"
    BY <2>1 DEF TypeOK, Boot
  <2>3. Waiting' = Waiting
    BY <2>2 DEF Waiting
  <2> QED BY <2>1, <2>3 DEF DisabledWhileBooting
<1>4. CASE Reset
  <2>1. /\ boots' = Append(boots, Boot("reset", 0)) /\ disabled' = TRUE /\ Waiting = {}
    BY <1>4 DEF Reset, DisabledWhileBooting
  <2>2. /\ DOMAIN boots' = DOMAIN boots \cup {Len(boots) + 1}
        /\ \A k \in DOMAIN boots : boots'[k] = boots[k]
        /\ boots'[Len(boots) + 1] = Boot("reset", 0)
    BY <2>1 DEF TypeOK
  <2>3. Waiting' = {Len(boots) + 1}
    BY <2>1, <2>2 DEF Waiting, Boot
  <2> QED BY <2>1, <2>3 DEF DisabledWhileBooting
<1>5. CASE Run /\ ~RunCrashes
  BY <1>0, <1>5 DEF Run, RunNothing, RunAnswers, RunRefused, RunOverflows, Ran
<1>6. CASE Stay \/ Tab \/ ShareInURL
  BY <1>0, <1>6 DEF Stay, Tab, ShareInURL
<1>7. ASSUME NEW p \in Programs, Edit(p) PROVE DisabledWhileBooting'
  BY <1>0, <1>7 DEF Edit
<1>8. ASSUME NewPage PROVE DisabledWhileBooting'
  <2>1. Waiting' = {1} /\ disabled' = TRUE
    BY <1>8, OneBoot DEF NewPage, Waiting
  <2> QED BY <2>1 DEF DisabledWhileBooting
<1>9. CASE Reload
  BY <1>8, <1>9 DEF Reload
<1>10. ASSUME NEW link \in Links, Open(link) \/ Follow(link) PROVE DisabledWhileBooting'
  BY <1>0, <1>8, <1>10 DEF Open, Follow
<1>11. CASE UNCHANGED vars
  BY <1>0, <1>11 DEF vars
<1> QED BY <1>1, <1>2, <1>3, <1>4, <1>5, <1>6, <1>7, <1>9, <1>10, <1>11 DEF Next, Run

\* What the user wrote --------------------------------------------------------

LEMMA EditStep ==
  ASSUME TypeOK, EditInv, [Next]_vars
  PROVE  EditInv'
<1>0. ASSUME UNCHANGED <<editing, program, saved, hash, history>> PROVE EditInv'
  BY <1>0 DEF EditInv, history
<1>1. CASE Load
  <2> PICK i \in DOMAIN boots : LoadEnds(i)
    BY <1>1 DEF Load
  <2>1. CASE boots[i].by = "start"
    <3>1. ShowProgram /\ editing' = TRUE
      BY <2>1 DEF LoadEnds, AfterBoot
    <3>2. followed' \notin Programs
      BY <3>1, WebPageAssumption DEF ShowProgram, Opened
    <3>3. ~overwritten' => FirstProgram = mine'
      <4>1. CASE hash \in Programs   \* not older than what was written
        BY <3>1, <4>1 DEF ShowProgram, Opened, FirstProgram
      <4>2. CASE hash \notin Programs
        BY <3>1, <4>2 DEF ShowProgram, Opened, FirstProgram, EditInv
      <4> QED BY <4>1, <4>2
    <3> QED BY <3>1, <3>2, <3>3 DEF ShowProgram, EditInv
  <2>2. CASE boots[i].by # "start"
    BY <1>0, <2>2 DEF LoadEnds, AfterBoot, editor
  <2> QED BY <2>1, <2>2
<1>2. ASSUME NEW i \in DOMAIN boots, LoadFails(i) PROVE EditInv'
  BY <1>0, <1>2 DEF LoadFails, editor
<1>3. CASE Run
  BY <1>0, <1>3 DEF Run, RunNothing, RunAnswers, RunRefused, RunOverflows, RunCrashes,
     Ran, editor
<1>4. CASE Reset \/ Stay \/ Tab
  BY <1>0, <1>4 DEF Reset, Stay, Tab, editor
<1>5. CASE ShareInURL
  BY <1>5 DEF ShareInURL, EditInv
<1>6. ASSUME NEW p \in Programs, Edit(p) PROVE EditInv'
  BY <1>6, WebPageAssumption DEF Edit, EditInv
<1>7. CASE Reload
  BY <1>7 DEF Reload, NewPage, EditInv
<1>8. ASSUME NEW link \in Links, Open(link) \/ Follow(link) PROVE EditInv'
  BY <1>8 DEF Open, Follow, NewPage, EditInv
<1>9. CASE UNCHANGED vars
  BY <1>0, <1>9 DEF vars, history
<1> QED BY <1>1, <1>2, <1>3, <1>4, <1>5, <1>6, <1>7, <1>8, <1>9 DEF Next
-----------------------------------------------------------------------------
LEMMA Invariance == Spec => []IInv
<1>1. IInv /\ [Next]_vars => IInv'
  BY TypeStep, SessionStep, FreshStep, ButtonsStep, EditStep DEF IInv
<1> QED BY InitInv, <1>1, PTL DEF Spec

(***************************************************************************)
(* Every variable of the page keeps its type; in particular the session in *)
(* use is one that the page has made.                                      *)
(***************************************************************************)
THEOREM TypeCorrect == Spec => []TypeOK
BY Invariance, PTL DEF IInv

(***************************************************************************)
(* Whatever loads race, no wasm session is leaked and none is used after   *)
(* it was deleted.                                                         *)
(***************************************************************************)
THEOREM NothingLeaks == Spec => []OneSession
BY Invariance, PTL DEF IInv

(***************************************************************************)
(* A session the console calls fresh has run nothing and accepts a run.    *)
(***************************************************************************)
THEOREM FreshnessHolds == Spec => []FreshIsFresh
BY Invariance, PTL DEF IInv

(***************************************************************************)
(* The buttons are disabled exactly while a start or reset has not got its *)
(* session, and there is at most one of those.                             *)
(***************************************************************************)
THEOREM ButtonsFollowBoots == Spec => []DisabledWhileBooting
BY Invariance, PTL DEF IInv

(***************************************************************************)
(* Through any number of reloads, links good and broken, opened anew or in *)
(* the page, resets and crashes, what the user wrote or opened last is     *)
(* what the editor shows and localStorage holds, unless a start has opened *)
(* a link older than what was written.                                     *)
(***************************************************************************)
THEOREM EditsAreKept == Spec => []EditsSurvive
<1>1. IInv => EditsSurvive
  BY DEF IInv, EditInv, EditsSurvive
<1> QED BY <1>1, Invariance, PTL
=============================================================================
