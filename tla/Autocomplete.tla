---------------------------- MODULE Autocomplete ----------------------------
(***************************************************************************)
(* The search-as-you-type prompt `aipkg <type> <ref>` opens on a terminal  *)
(* (cli/src/autocomplete/autocomplete.ts).                                 *)
(*                                                                         *)
(* Keystrokes, the debounce timer and the answers of the registry reach    *)
(* one event loop in any order; each handler is one action.  A text is an  *)
(* atom, and so is the ref a row shows.  The highlighted row `selected`    *)
(* counts from 1, with 0 where the code has -1.                            *)
(***************************************************************************)
EXTENDS Naturals, Sequences

CONSTANTS
    Text,        \* what the input may hold
    Initial,     \* the query the prompt is seeded with
    Blank,       \* the texts that are empty once trimmed
    Results,     \* the rows the registry has for a text
    MaxResults,  \* rows shown
    MaxKeys,     \* bound: keystrokes
    None         \* no text

ASSUME AutocompleteAssumption ==
    /\ Initial \in Text
    /\ Blank \subseteq Text
    /\ Results \in [Text -> Seq(Text)]
    /\ MaxResults \in Nat
    /\ MaxKeys \in Nat
    /\ None \notin Text

VARIABLES
    input,       \* prompt.userInput, mirrored in the readline buffer
    choices,     \* rows of the last search that counted
    loading,     \* a search that counts is under way
    selected,    \* the highlighted row, 0 while the typed text is edited
    typedQuery,  \* the last text the user typed
    lastQuery,   \* the last text a search was scheduled for
    debounce,    \* the text the timer will search for, or None
    seq,         \* number of the newest search
    searches,    \* searches the registry has not answered
    outcome,     \* "active", then "submit" or "cancel"
    typed,       \* history: the text the user's own last edit left
    keys         \* keystrokes so far

query == <<typedQuery, lastQuery, debounce>>
search == <<seq, searches, loading>>
vars == <<input, choices, selected, query, search, outcome, typed, keys>>

\* The prompt opens with a search for the seed already under way.
Init ==
    /\ input = Initial
    /\ choices = <<>>
    /\ loading = TRUE
    /\ selected = 0
    /\ typedQuery = Initial
    /\ lastQuery = Initial
    /\ debounce = None
    /\ seq = 1
    /\ searches = {[id |-> 1, query |-> Initial]}
    /\ outcome = "active"
    /\ typed = Initial
    /\ keys = 0

Visible == IF Len(choices) < MaxResults THEN Len(choices) ELSE MaxResults

Keystroke == outcome = "active" /\ keys < MaxKeys /\ keys' = keys + 1

\* A 'userInput' event whose value is the highlighted row is an arrow-fill.
IsFill(v) == selected \in 1 .. Len(choices) /\ choices[selected] = v

\* Mutant: what was searched for is not remembered.
ScheduleSearchForgets(v) ==
    IF v = lastQuery THEN UNCHANGED <<lastQuery, debounce>>
    ELSE lastQuery' = None /\ debounce' = v

\* Mutant: only a timer that is not running is started.
ScheduleSearchOnce(v) ==
    IF v = lastQuery THEN UNCHANGED <<lastQuery, debounce>>
    ELSE lastQuery' = v /\ debounce' = IF debounce = None THEN v ELSE debounce

\* A text already searched for is not scheduled again; any other one replaces
\* the text the timer holds, and restarts it.
ScheduleSearch(v) ==
    IF v = lastQuery THEN UNCHANGED <<lastQuery, debounce>>
    ELSE lastQuery' = v /\ debounce' = v

\* The 'userInput' handler, up to the highlight.
HandleInput(v) ==
    IF IsFill(v) THEN UNCHANGED query
    ELSE typedQuery' = v /\ ScheduleSearch(v)

HighlightAfter(v) == IF IsFill(v) THEN selected ELSE 0

\* A key that edits the input, or moves the text cursor and leaves it as it is.
Type(v) ==
    /\ Keystroke
    /\ input' = v
    /\ HandleInput(v)
    /\ selected' = HighlightAfter(v)
    /\ typed' = IF v = input THEN typed ELSE v
    /\ UNCHANGED <<choices, search, outcome>>

\* Down stops at the last visible row; up from the first row leaves the list.
Down(row) == IF row + 1 <= Visible THEN row + 1 ELSE Visible
Up(row) == IF row <= 1 THEN 0 ELSE row - 1

\* An arrow key is a keystroke too: 'userInput' fires with the input as it is,
\* and only then 'cursor', which fills the input.
Arrow(key) ==
    LET before == HighlightAfter(input)
        row    == IF Visible = 0 THEN before
                  ELSE IF key = "down" THEN Down(before) ELSE Up(before)
    IN  /\ Keystroke
        /\ HandleInput(input)
        /\ selected' = row
        /\ input' = IF Visible = 0 THEN input
                    ELSE IF row > 0 THEN choices[row] ELSE typedQuery'
        /\ UNCHANGED <<choices, search, outcome, typed>>

\* The timer fires: runSearch.
Fire ==
    /\ debounce # None
    /\ debounce' = None
    /\ seq' = seq + 1
    /\ loading' = TRUE
    /\ searches' = searches \union {[id |-> seq + 1, query |-> debounce]}
    /\ UNCHANGED <<input, choices, selected, typedQuery, lastQuery, outcome, typed, keys>>

\* Mutant: the highlight is left where it was.
LandedKeepsHighlight(rows) ==
    /\ choices' = rows
    /\ loading' = FALSE
    /\ UNCHANGED selected

\* The rows of the newest search replace what is shown.
Landed(rows) ==
    /\ choices' = rows
    /\ loading' = FALSE
    /\ selected' = IF selected > Len(rows) THEN 0 ELSE selected

\* Mutant: every answer counts.
SupersededNever(s) == FALSE

\* A newer search was started since.
Superseded(s) == s.id # seq

\* The registry answers a search, or it fails; in any order, and also after the
\* prompt is gone.
Answer(s) ==
    /\ searches' = searches \ {s}
    /\ IF Superseded(s) THEN UNCHANGED <<choices, loading, selected>>
       ELSE Landed(Results[s.query])
    /\ UNCHANGED <<input, query, seq, outcome, typed, keys>>

Fail(s) ==
    /\ searches' = searches \ {s}
    /\ IF Superseded(s) THEN UNCHANGED <<choices, loading, selected>>
       ELSE Landed(<<>>)
    /\ UNCHANGED <<input, query, seq, outcome, typed, keys>>

\* Mutant: the timer survives the prompt.
CloseKeepsTimer(how) ==
    /\ outcome = "active"
    /\ outcome' = how
    /\ UNCHANGED <<input, choices, selected, query, search, typed, keys>>

\* Enter or Esc ends the prompt, and with it the timer.
Close(how) ==
    /\ outcome = "active"
    /\ outcome' = how
    /\ debounce' = None
    /\ UNCHANGED <<input, choices, selected, typedQuery, lastQuery, search, typed, keys>>

\* What Enter resolves the prompt to: the input, if there is any.
Picked == IF input \notin Blank THEN input ELSE None

Next ==
    \/ \E v \in Text : Type(v)
    \/ Arrow("up") \/ Arrow("down")
    \/ Fire
    \/ \E s \in searches : Answer(s) \/ Fail(s)
    \/ Close("submit") \/ Close("cancel")

Spec == Init /\ [][Next]_vars

\* Timers run out and requests end; nothing makes a user press a key.
FairSpec ==
    /\ Spec
    /\ WF_vars(Fire)
    /\ WF_vars(\E s \in searches : Answer(s) \/ Fail(s))

(***************************************************************************)
(* Properties.                                                             *)
(***************************************************************************)

Search == [id : Nat, query : Text]

\* Every variable has the shape the code gives it.
TypeOK ==
    /\ {input, typedQuery, lastQuery, typed} \subseteq Text
    /\ choices \in Seq(Text)
    /\ loading \in BOOLEAN
    /\ selected \in Nat
    /\ debounce \in Text \union {None}
    /\ seq \in Nat
    /\ searches \subseteq Search
    /\ outcome \in {"active", "submit", "cancel"}
    /\ keys \in Nat

\* The highlight is on a row that is on the screen, whatever lists came and
\* went since it was set there.
HighlightShown == selected <= Visible

\* When nothing is pending any more, the rows are those of the text last typed,
\* or none because its search failed: an answer that comes late, or out of
\* order, never stays.
RowsOfLastText ==
    outcome = "active" /\ debounce = None /\ ~loading =>
        choices \in {Results[typedQuery], <<>>}

\* A prompt that was answered starts no search any more: the timer dies with it.
SilentOnceClosed == [][outcome # "active" => seq' = seq]_vars

\* The text that is left standing gets its rows, or an empty list.
TextGetsRows ==
    \A v \in Text :
        (outcome = "active" /\ typedQuery = v) ~>
            \/ outcome # "active"
            \/ typedQuery # v
            \/ ~loading /\ choices \in {Results[v], <<>>}

\* Enter installs the highlighted row (interactive.ts: "installs the
\* highlighted package on Enter").
HighlightInstalled ==
    outcome = "active" /\ selected # 0 => Picked = choices[selected]

\* typedQuery is "the last text the user actually typed", which going above the
\* first row restores; what an arrow filled in is not.
TypedByUser == typedQuery = typed

=============================================================================
