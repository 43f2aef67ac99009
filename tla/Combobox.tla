------------------------------ MODULE Combobox ------------------------------
(* The field with suggestions of the new-download page (SearchField over Combobox): its text  *)
(* is both the query and the value; the options are what the server suggested last.  A text   *)
(* is a sequence of letters.                                                                  *)
EXTENDS Integers, Lists

CONSTANTS TypedTexts,   \* texts the user types, the empty one among them
          Suggested,    \* lists of options the server can answer
          Remote,       \* is the server's answer the only filter?  (models; revisions are not)
          MaxKeys       \* bound on what the user does

Texts == TypedTexts \cup UNION {Range(o) : o \in Suggested}

NoRow == << >>          \* the empty text is never a row

\* A list names no option twice: its rows are keyed by their values.
ASSUME ComboAssumption ==
  /\ \A v \in Texts : v \in Seq(Range(v))
  /\ \A o \in Suggested : /\ o \in Seq(Range(o)) /\ NoRow \notin Range(o)
                          /\ \A i, j \in DOMAIN o : o[i] = o[j] => i = j
  /\ Remote \in BOOLEAN /\ MaxKeys \in Nat

NoCursor == [value |-> NoRow, query |-> << >>]

VARIABLES text,         \* value and query of the field
          options,
          open,
          filterTyped,  \* filterTypedValue
          items,        \* the registered rows, in the order of the Map
          openQuery,    \* the query the list was open with
          cursor,       \* the row the user moved to and the query it was moved in, or NoCursor
          opened,       \* has the list been open?
          latest,       \* what the handlers see, of the last commit: is the list open, its query,
                        \* its enabled rows, the value, and the active row
          batch,        \* the keys since the last commit
          aimed,        \* (of the properties) has the user moved since he last typed in an open
                        \* list?
          keys

comboVars == <<text, options, open, filterTyped, items, openQuery, cursor, opened, latest,
               batch, aimed, keys>>

-----------------------------------------------------------------------------
(* What a render works out.                                                 *)

\* A value that no option has is an option of its own.
Offered(v, opts) == IF v # << >> /\ v \notin Range(opts) THEN <<v>> \o opts ELSE opts

\* defaultFilter: the letters of the query in this order, somewhere in the value and the
\* label, which here are the same text.
Fuzzy(v, q) ==
  \/ q = << >>
  \/ LET hay == v \o v
     IN  \E at \in [1..Len(q) -> 1..Len(hay)] :
           /\ \A i \in 1..Len(q) : hay[at[i]] = q[i]
           /\ \A i \in 2..Len(q) : at[i - 1] < at[i]

Visible(v, q, filter) == Remote \/ ~filter \/ Fuzzy(v, q)

\* After the render the rows register: those that are gone leave the Map, those that are new
\* go to its end, and the others stay where they are.
Registered(old, choices) ==
  Only(old, Range(choices)) \o Only(choices, Range(choices) \ Range(old))

\* enabledVisibleItems
EnabledItems(order, q, filter) == Only(order, {v \in Range(order) : Visible(v, q, filter)})

\* What ComboboxContent shows, from top to bottom, while it is open: a row that is not
\* visible renders nothing.
PanelRows == EnabledItems(Offered(text, options), text, filterTyped)

\* liveCursorValue
Live(c, q, rows) == c # NoCursor /\ c.query = q /\ c.value \in Range(rows)

\* fallbackActive
Fallback(v, rows) == IF v # << >> /\ v \in Range(rows) THEN v
                     ELSE IF rows # << >> THEN rows[1] ELSE NoRow

\* resolveActive
Resolve(c, q, v, rows) == IF Live(c, q, rows) THEN c.value ELSE Fallback(v, rows)

\* Bug: a cursor that is not live is ignored, and kept.
ClearedNever(c, q, rows) == c

\* A cursor that outlived its query or its row is cleared in the render.
Cleared(c, q, rows) == IF Live(c, q, rows) THEN c ELSE NoCursor

-----------------------------------------------------------------------------
(* Commits.                                                                 *)

ComboInit ==
  /\ options \in Suggested /\ text \in TypedTexts
  /\ open = FALSE /\ filterTyped = FALSE /\ opened = FALSE
  /\ items = Offered(text, options)
  /\ openQuery = text /\ cursor = NoCursor
  /\ latest = [open |-> FALSE, query |-> text, value |-> text, rows |-> items,
               active |-> NoRow]
  /\ batch = << >> /\ aimed = FALSE /\ keys = 0

\* React renders and commits a new text, list, and state of the panel: an open list follows
\* the query, the rows register (which renders again before anything is painted), and the
\* active row is worked out anew.
CommitWith(textN, optionsN, openN, filterN, cursorN) ==
  LET q     == IF openN THEN textN ELSE openQuery
      order == Registered(items, Offered(textN, optionsN))
      rows  == EnabledItems(order, q, filterN)
      c     == Cleared(cursorN, q, rows)
  IN  /\ text' = textN /\ options' = optionsN /\ open' = openN /\ filterTyped' = filterN
      /\ openQuery' = q /\ items' = order /\ cursor' = c
      /\ opened' = (opened \/ openN)
      /\ latest' = [open |-> openN, query |-> q, value |-> textN, rows |-> rows,
                    active |-> IF opened' THEN Resolve(c, q, textN, rows) ELSE NoRow]
      /\ batch' = << >>

\* What the user does one after the other is committed one after the other, except for keys
\* that are quicker.
Acts == keys < MaxKeys /\ keys' = keys + 1
Calm == batch = << >>

\* The keys of a batch, pressed before React gets to a commit.
Render == ~Calm /\ CommitWith(text, options, open, filterTyped, cursor) /\ UNCHANGED <<aimed, keys>>

-----------------------------------------------------------------------------
(* The keyboard in an open list.                                            *)

\* Bug: a step starts at the row that was active when React last committed.
StepsFromCommitted == latest.active

\* A step starts at what the cursor resolves to by now.
StepsFrom == Resolve(cursor, latest.query, latest.value, latest.rows)

\* moveActive
MoveActive ==
  /\ latest.open /\ Len(batch) < 2 /\ Acts
  /\ \E direction \in {"down", "up", "first", "last"} :
       LET rows == latest.rows
           at   == CHOOSE i \in 1..Len(rows) : rows[i] = StepsFrom
           to   == IF direction = "first" THEN 1
                   ELSE IF direction = "last" THEN Len(rows)
                   ELSE IF direction = "down" THEN 1 + (at % Len(rows))
                   ELSE 1 + ((at - 2) % Len(rows))
       IN  /\ cursor' = IF rows = << >> THEN NoCursor
                        ELSE [value |-> rows[to], query |-> latest.query]
           /\ batch' = Append(batch, direction)
  /\ aimed' = TRUE
  /\ UNCHANGED <<text, options, open, filterTyped, items, openQuery, opened, latest>>

-----------------------------------------------------------------------------
(* Everything else the user does, and the server.                           *)

\* Focus, a click, or an arrow or Enter while closed; onOpenChange drops the filter, also when
\* the list is open already.
OpenList == /\ Calm /\ Acts /\ CommitWith(text, options, TRUE, FALSE, cursor)
            /\ UNCHANGED aimed

\* Escape, or a pointer or the focus elsewhere.  The text stays: the query is the field's.
CloseList == /\ Calm /\ open /\ Acts /\ CommitWith(text, options, FALSE, FALSE, cursor)
             /\ UNCHANGED aimed

Type ==
  /\ Calm /\ Acts
  /\ \E v \in TypedTexts \ {text} : CommitWith(v, options, TRUE, TRUE, cursor)
  /\ aimed' = (aimed /\ ~open)

PointAt ==
  /\ Calm /\ open /\ Acts
  /\ \E v \in Range(PanelRows) :
       CommitWith(text, options, open, filterTyped, [value |-> v, query |-> latest.query])
  /\ aimed' = TRUE

\* select: the value is the field's text from now on.
ChooseRow(v) == CommitWith(v, options, FALSE, FALSE, cursor)
             /\ UNCHANGED aimed

ClickRow == Calm /\ open /\ Acts /\ \E v \in Range(PanelRows) : ChooseRow(v)

\* selectActive: the row that was active when React last committed, also when arrows were
\* pressed since.
Enter == open /\ latest.active # NoRow /\ Acts /\ ChooseRow(latest.active)

\* New suggestions, for whatever was typed some time ago.
Suggest ==
  /\ Calm /\ Acts
  /\ \E o \in Suggested \ {options} : CommitWith(text, o, open, filterTyped, cursor)
  /\ UNCHANGED aimed

ComboNext ==
  \/ Render \/ MoveActive \/ OpenList \/ CloseList \/ Type \/ PointAt \/ ClickRow \/ Enter
  \/ Suggest

ComboSpec == ComboInit /\ [][ComboNext]_comboVars

-----------------------------------------------------------------------------
ComboTypeOK ==
  /\ {open, filterTyped, opened, aimed, latest.open} \subseteq BOOLEAN
  /\ options \in Suggested
  /\ Range(items) = Range(Offered(text, options))
  /\ cursor # NoCursor => cursor.value \in Range(items)
  /\ latest.active # NoRow => latest.active \in Range(latest.rows)
  /\ Len(batch) <= 2

\* Enter never replaces what the user typed in an open list by a row he did not move to since:
\* a highlight placed in an earlier query does not come back when its query does.  (A highlight
\* does survive a closing of the list: the list keeps its query until it opens again, and
\* typing that very query from the closed list finds the highlight still there.)
EnterKeepsTyped ==
  [][(Enter /\ ~aimed /\ text # << >>) => text' = text]_comboVars

\* Two arrows pressed before React commits move two rows, as they do one commit apart.
TwoKeysMoveTwo ==
  [][(~Calm /\ Render /\ Range(batch) \subseteq {"down", "up"} /\ latest.rows # << >>) =>
       LET n    == Len(latest.rows)
           at   == CHOOSE i \in 1..n : latest.rows[i] = latest.active
           down == Cardinality({i \in DOMAIN batch : batch[i] = "down"})
       IN  latest'.active = latest.rows[1 + ((at - 1 + 2 * down - Len(batch)) % n)]
    ]_comboVars

\* "The enabled, visible options in list order": the rows the keys step through are those of
\* the panel, from top to bottom.
RowsInListOrder == open => latest.rows = PanelRows
=============================================================================
