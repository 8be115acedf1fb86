------------------------- MODULE AutocompleteProofs -------------------------
(***************************************************************************)
(* Theorems about Autocomplete, for every set of texts, every registry and *)
(* any number of keystrokes and rows.                                      *)
(***************************************************************************)
EXTENDS Autocomplete, SequenceTheorems, TLAPS

\* Only searches that were started are on their way.
Numbered == \A s \in searches : s.id <= seq

\* The text last typed is the one last scheduled, and the one the timer holds.
Scheduled ==
    /\ lastQuery = typedQuery
    /\ debounce # None => debounce = lastQuery

\* Once the timer has run, the newest search is for the text last typed.
Newest ==
    outcome = "active" /\ debounce = None =>
        /\ \A s \in searches : s.id = seq => s.query = lastQuery
        /\ ~loading => choices \in {Results[lastQuery], <<>>}

\* The prompt that is gone has no timer.
Stopped == outcome # "active" => debounce = None

IInv == TypeOK /\ HighlightShown /\ Numbered /\ Scheduled /\ Newest /\ Stopped

\* What is visible is a number of rows, and never more than there are.
LEMMA VisibleRows ==
    ASSUME TypeOK
    PROVE  Visible \in Nat /\ Visible <= Len(choices) /\ Visible <= MaxResults
BY AutocompleteAssumption, LenProperties DEF TypeOK, Visible

\* A handler leaves the highlight where it is or takes it away.
LEMMA HighlightKeeps ==
    ASSUME IInv, NEW v \in Text
    PROVE  HighlightAfter(v) \in Nat /\ HighlightAfter(v) <= Visible
BY VisibleRows DEF IInv, TypeOK, HighlightShown, HighlightAfter

\* The handler of an edit keeps what the texts and the timer have in common.
LEMMA InputHandled ==
    ASSUME IInv, NEW v \in Text, HandleInput(v), outcome' = outcome,
           choices' = choices, searches' = searches, seq' = seq, loading' = loading
    PROVE  /\ typedQuery' \in Text /\ lastQuery' \in Text /\ debounce' \in Text \union {None}
           /\ Scheduled' /\ Newest'
<1>1. CASE UNCHANGED query
  BY <1>1 DEF IInv, TypeOK, Scheduled, Newest, query
<1>2. CASE v = lastQuery /\ typedQuery' = v /\ UNCHANGED <<lastQuery, debounce>>
  BY <1>2 DEF IInv, TypeOK, Scheduled, Newest
<1>3. CASE typedQuery' = v /\ lastQuery' = v /\ debounce' = v
  BY <1>3, AutocompleteAssumption DEF IInv, TypeOK, Scheduled, Newest
<1> QED
  BY <1>1, <1>2, <1>3 DEF HandleInput, ScheduleSearch

LEMMA InitIInv == Init => IInv
BY AutocompleteAssumption DEF Init, IInv, TypeOK, HighlightShown, Numbered, Scheduled, Newest, Stopped,
   Search, Visible

LEMMA TypeStep ==
    ASSUME IInv, NEW v \in Text, Type(v)
    PROVE  IInv'
<1>1. outcome = "active" /\ keys' = keys + 1
  BY DEF Type, Keystroke
<1>2. /\ typedQuery' \in Text /\ lastQuery' \in Text /\ debounce' \in Text \union {None}
      /\ Scheduled' /\ Newest'
  BY InputHandled DEF Type, search
<1>3. TypeOK'
  BY <1>1, <1>2, HighlightKeeps DEF Type, search, IInv, TypeOK
<1>4. HighlightShown'
  BY HighlightKeeps DEF Type, HighlightShown, Visible
<1>5. Numbered' /\ Stopped'
  BY <1>1 DEF Type, search, IInv, Numbered, Stopped
<1> QED
  BY <1>2, <1>3, <1>4, <1>5 DEF IInv

\* Where an arrow key leads from a row of the screen.
LEMMA ArrowRows ==
    ASSUME TypeOK, NEW row \in Nat, row <= Visible
    PROVE  /\ Down(row) \in Nat /\ Down(row) <= Visible
           /\ Up(row) \in Nat /\ Up(row) <= Visible
BY VisibleRows DEF Down, Up

LEMMA ArrowStep ==
    ASSUME IInv, NEW key \in {"up", "down"}, Arrow(key)
    PROVE  IInv'
<1>. DEFINE before == HighlightAfter(input)
<1>0. input \in Text /\ TypeOK
  BY DEF IInv, TypeOK
<1>1. outcome = "active" /\ keys' = keys + 1
  BY DEF Arrow, Keystroke
<1>2. /\ typedQuery' \in Text /\ lastQuery' \in Text /\ debounce' \in Text \union {None}
      /\ Scheduled' /\ Newest'
  BY <1>0, InputHandled DEF Arrow, search
<1>3. before \in Nat /\ before <= Visible
  BY <1>0, HighlightKeeps
<1>4. selected' \in Nat /\ selected' <= Visible
  BY <1>0, <1>3, ArrowRows DEF Arrow
<1>5. input' \in Text
  <2>1. CASE Visible # 0 /\ selected' > 0
    <3>1. input' = choices[selected']
      BY <2>1 DEF Arrow
    <3>2. selected' \in 1 .. Len(choices)
      BY <1>0, <1>4, <2>1, VisibleRows, LenProperties DEF TypeOK
    <3> QED
      BY <1>0, <3>1, <3>2, ElementOfSeq DEF TypeOK
  <2>2. CASE ~(Visible # 0 /\ selected' > 0)
    BY <1>0, <1>2, <2>2 DEF Arrow
  <2> QED
    BY <2>1, <2>2
<1>6. TypeOK'
  BY <1>1, <1>2, <1>4, <1>5 DEF Arrow, search, IInv, TypeOK
<1>7. HighlightShown'
  BY <1>4 DEF Arrow, HighlightShown, Visible
<1>8. Numbered' /\ Stopped'
  BY <1>1 DEF Arrow, search, IInv, Numbered, Stopped
<1> QED
  BY <1>2, <1>6, <1>7, <1>8 DEF IInv

LEMMA FireStep ==
    ASSUME IInv, Fire
    PROVE  IInv'
<1>1. TypeOK'
  BY DEF Fire, IInv, TypeOK, Search
<1>2. HighlightShown' /\ Stopped'
  BY DEF Fire, IInv, HighlightShown, Visible, Stopped
<1>3. Numbered'
  BY DEF Fire, IInv, TypeOK, Search, Numbered
<1>4. Scheduled'
  BY DEF Fire, IInv, Scheduled
<1>5. Newest'
  BY DEF Fire, IInv, TypeOK, Search, Numbered, Scheduled, Newest
<1> QED
  BY <1>1, <1>2, <1>3, <1>4, <1>5 DEF IInv

\* Rows that replace others leave the highlight on one of them, or take it away.
LEMMA LandedShows ==
    ASSUME IInv, NEW rows \in Seq(Text), Landed(rows)
    PROVE  choices' \in Seq(Text) /\ selected' \in Nat /\ HighlightShown'
BY VisibleRows, AutocompleteAssumption, LenProperties
   DEF IInv, TypeOK, HighlightShown, Landed, Visible

\* The newest search is answered, with its rows or none.
LEMMA AnswerStep ==
    ASSUME IInv, NEW s \in searches, Answer(s) \/ Fail(s)
    PROVE  IInv'
<1>1. searches' \subseteq searches
      /\ UNCHANGED <<input, query, seq, outcome, typed, keys>>
  BY DEF Answer, Fail
<1>2. s.query \in Text
  BY DEF IInv, TypeOK, Search
<1>3. CASE UNCHANGED <<choices, loading, selected>>
  BY <1>1, <1>3 DEF IInv, TypeOK, HighlightShown, Visible, Numbered, Scheduled, Newest, Stopped, query
<1>4. CASE s.id = seq /\ (Landed(Results[s.query]) \/ Landed(<<>>))
  <2>1. PICK rows \in {Results[s.query], <<>>} : Landed(rows)
    BY <1>4
  <2>2. rows \in Seq(Text)
    <3>1. Results[s.query] \in Seq(Text)
      BY <1>2, AutocompleteAssumption DEF AutocompleteAssumption
    <3>2. << >> \in Seq(Text)
      OBVIOUS
    <3> QED
      BY <2>1, <3>1, <3>2
  <2>3. choices' = rows /\ loading' = FALSE
    BY <2>1 DEF Landed
  <2>4. TypeOK' /\ HighlightShown'
    BY <1>1, <2>1, <2>2, <2>3, LandedShows DEF IInv, TypeOK, query
  <2>5. Numbered' /\ Scheduled' /\ Stopped'
    BY <1>1 DEF IInv, Numbered, Scheduled, Stopped, query
  <2>6. Newest'
    BY <1>1, <1>4, <2>1, <2>3 DEF IInv, Newest, query
  <2> QED
    BY <2>4, <2>5, <2>6 DEF IInv
<1> QED
  BY <1>3, <1>4 DEF Answer, Fail, Superseded

LEMMA CloseStep ==
    ASSUME IInv, NEW how \in {"submit", "cancel"}, Close(how)
    PROVE  IInv'
BY DEF Close, search, IInv, TypeOK, HighlightShown, Visible, Numbered, Scheduled, Newest, Stopped

LEMMA NextIInv == IInv /\ [Next]_vars => IInv'
<1> SUFFICES ASSUME IInv, [Next]_vars PROVE IInv'
  OBVIOUS
<1>1. ASSUME NEW v \in Text, Type(v) PROVE IInv'
  BY <1>1, TypeStep
<1>2. CASE Arrow("up") \/ Arrow("down")
  BY <1>2, ArrowStep
<1>3. CASE Fire
  BY <1>3, FireStep
<1>4. ASSUME NEW s \in searches, Answer(s) \/ Fail(s) PROVE IInv'
  BY <1>4, AnswerStep
<1>5. CASE Close("submit") \/ Close("cancel")
  BY <1>5, CloseStep
<1>6. CASE UNCHANGED vars
  BY <1>6 DEF vars, query, search, IInv, TypeOK, HighlightShown, Visible, Numbered, Scheduled, Newest, Stopped
<1> QED
  BY <1>1, <1>2, <1>3, <1>4, <1>5, <1>6 DEF Next

LEMMA Invariance == Spec => []IInv
BY InitIInv, NextIInv, PTL DEF Spec

\* The highlight is on a visible row, whatever keys were pressed while lists of
\* any length arrived in any order (the cursor handler and runSearch).
THEOREM HighlightInRange == Spec => []HighlightShown
<1>1. IInv => HighlightShown
  BY DEF IInv
<1> QED
  BY <1>1, Invariance, PTL

\* Once timer and newest search are through, the rows are those of the text
\* last typed: late and overtaken answers leave nothing (runSearch, scheduleSearch).
THEOREM RowsSettle == Spec => []RowsOfLastText
<1>1. IInv => RowsOfLastText
  BY DEF IInv, Scheduled, Newest, RowsOfLastText
<1> QED
  BY <1>1, Invariance, PTL

\* A prompt that was answered starts no search any more.
THEOREM TimerDies == Spec => SilentOnceClosed
<1>1. IInv /\ [Next]_vars => [outcome # "active" => seq' = seq]_vars
  BY DEF IInv, Stopped, Next, Type, Arrow, Fire, Answer, Fail, Close, Keystroke, search, vars
<1> QED
  BY <1>1, Invariance, PTL DEF Spec, SilentOnceClosed
=============================================================================
