---------------------------- MODULE TaskDetail ----------------------------
(***************************************************************************)
(* The details of one task: packages/ui/src/pages/TaskPage.tsx with its    *)
(* controls ResumeControl, ScheduleControl and DeleteConfirm and the calls *)
(* of api.ts, over the tasks the server holds.                             *)
(*                                                                         *)
(* The address decides whose details are shown.  A poll every second and   *)
(* the answers to the controls' own requests both replace the record, in   *)
(* whatever order they arrive, while the controls that exist depend on the *)
(* record.  A request outlives the component that made it.                 *)
(***************************************************************************)
EXTENDS Integers, FiniteSets

CONSTANTS
  DetailTasks,   \* tasks, numbered
  MaxDetailPolls, MaxEvents, MaxPresses, MaxVisits, MaxBroken  \* bounds

Queue == 0           \* the address /tasks
Elsewhere == -1      \* the address of any other page
NoId == 0

ASSUME DetailAssumption ==
  /\ DetailTasks \subseteq Nat \ {NoId}
  /\ {MaxDetailPolls, MaxEvents, MaxPresses, MaxVisits, MaxBroken} \subseteq Nat

VARIABLES
  held,        \* the server: the status of each task
  route,       \* the address: the details of a task, the queue, or another page
  shown,       \* shownTaskId of the modal, or none when its content is not mounted
  detail,      \* the state `task` of TaskDetail
  actionBusy,
  opened,      \* controls whose popover is open
  busy,        \* controls whose own `busy` is set
  option,      \* optionChecked of the DeleteConfirm for deletion
  polls,       \* answers to the polls of the current effect that are on their way
  calls,       \* requests of controls
  crossed,     \* (of a property) a popover was confirmed while another button's request was out
  detailSpent

detailVars == <<held, route, shown, detail, actionBusy, opened, busy, option,
                polls, calls, crossed, detailSpent>>
component == <<detail, actionBusy, opened, busy, option>>

NoDetail == [id |-> NoId, status |-> "unknown"]

\* "running" stands for resolving, downloading and verifying, which offer the same controls.
Status == {"scheduled", "queued", "running", "awaiting_confirmation", "publishing", "paused",
           "failed", "completed", "cancelled", "gone"}

Direct   == {"pause", "start"}                          \* buttons that act at once
Popovers == {"schedule", "resume", "cancel", "delete"}  \* buttons that ask first
Controls == Direct \cup Popovers \cup {"confirm"}

Record == [id : DetailTasks, status : Status \ {"gone"}]
Call   == [control : Controls, id : DetailTasks, mine : BOOLEAN,
           answer : Status \cup {"none", "refused"}]

DetailTypeOK ==
  /\ held \in [DetailTasks -> Status]
  /\ route \in DetailTasks \cup {Queue, Elsewhere}
  /\ shown \in DetailTasks \cup {NoId}
  /\ detail \in Record \cup {NoDetail}
  /\ actionBusy \in BOOLEAN /\ option \in BOOLEAN /\ crossed \in BOOLEAN
  /\ opened \subseteq Popovers /\ busy \subseteq Controls
  /\ polls \subseteq Record \cup {[id |-> t, status |-> "gone"] : t \in DetailTasks}
  /\ calls \subseteq Call

-----------------------------------------------------------------------------
(* What TaskDetail renders for a status *)

CanPause(s)  == s \in {"queued", "running"}
CanCancel(s) == CanPause(s) \/ s \in {"scheduled", "paused", "awaiting_confirmation"}
CanDelete(s) == s \in {"completed", "failed", "cancelled"}

Offers(s, c) ==
  CASE c = "pause"                -> CanPause(s)
    [] c \in {"start", "schedule"} -> s = "scheduled"
    [] c = "resume"               -> s \in {"paused", "failed"}
    [] c = "cancel"               -> CanCancel(s)
    [] c = "delete"               -> CanDelete(s)
    [] c = "confirm"              -> s = "awaiting_confirmation"

Offered(d) == {c \in Controls : Offers(d.status, c)}

\* A new record: controls that are no longer rendered lose their state.
Render(d) ==
  /\ detail' = d
  /\ opened' = opened \cap Offered(d)
  /\ busy' = busy \cap Offered(d)
  /\ option' = (option /\ "delete" \in Offered(d))

\* A bug for comparison: the component is reused for the next task.
FreshReused == UNCHANGED <<component, calls>>

\* TaskDetail is mounted anew for a task, or not at all: it has a state of its own for each
\* task, and what its predecessor still waits for is no longer its concern.
Fresh ==
  /\ detail' = NoDetail /\ actionBusy' = FALSE
  /\ opened' = {} /\ busy' = {} /\ option' = FALSE
  /\ calls' = {[c EXCEPT !.mine = FALSE] : c \in calls}

-----------------------------------------------------------------------------
(* The server: the operator calls of tasks.py *)

Allowed(c, s) ==
  CASE c = "pause"   -> s \in {"queued", "running"}
    [] c = "start"   -> s = "scheduled"
    [] c = "schedule" -> s = "scheduled"
    [] c = "resume"  -> s \in {"paused", "failed"}
    [] c = "cancel"  -> s \in {"scheduled", "queued", "running", "paused",
                               "awaiting_confirmation"}
    [] c = "delete"  -> s \in {"completed", "failed", "cancelled"}
    [] c = "confirm" -> s = "awaiting_confirmation"

Results(c) ==
  CASE c = "pause"    -> {"paused"}
    [] c = "start"    -> {"queued"}
    [] c = "schedule" -> {"scheduled"}
    [] c = "resume"   -> {"queued", "scheduled"}
    [] c = "cancel"   -> {"cancelled"}
    [] c = "delete"   -> {"gone"}
    [] c = "confirm"  -> {"completed"}

Proceeds == {<<"scheduled", "queued">>, <<"queued", "running">>, <<"running", "failed">>,
             <<"running", "awaiting_confirmation">>, <<"running", "publishing">>,
             <<"publishing", "completed">>, <<"failed", "queued">>, <<"cancelled", "gone">>}

-----------------------------------------------------------------------------
DetailInit ==
  /\ held \in [DetailTasks -> {"scheduled", "running", "awaiting_confirmation",
                             "completed", "failed"}]
  /\ route = Queue /\ shown = NoId
  /\ detail = NoDetail /\ actionBusy = FALSE
  /\ opened = {} /\ busy = {} /\ option = FALSE
  /\ polls = {} /\ calls = {} /\ crossed = FALSE
  /\ detailSpent = [events |-> 0, presses |-> 0, visits |-> 0, broken |-> 0]

SpendDetail(bound, limit) ==
  /\ detailSpent[bound] < limit
  /\ detailSpent' = [detailSpent EXCEPT ![bound] = @ + 1]

Presses == SpendDetail("presses", MaxPresses)

\* A task gets on, or is controlled from another window.
TaskProceeds ==
  /\ SpendDetail("events", MaxEvents)
  /\ \E t \in DetailTasks, s \in Status :
       <<held[t], s>> \in Proceeds /\ held' = [held EXCEPT ![t] = s]
  /\ UNCHANGED <<route, shown, component, polls, calls, crossed>>

PollOf(t) == {[id |-> t, status |-> held[t]]}

\* A bug for comparison: the first task stays.
ShownForFirst(t) == IF shown = NoId THEN t ELSE shown

\* The effect of TaskPage that keeps the task while the modal folds.
ShownFor(t) == t

\* The address becomes that of a task: by a link of the queue, or back and forward.
OpenTask ==
  /\ SpendDetail("visits", MaxVisits)
  /\ \E t \in DetailTasks \ {route} :
       /\ route' = t /\ shown' = ShownFor(t)
       /\ polls' = IF shown' = t THEN PollOf(t) ELSE {}
       /\ IF shown' = shown THEN UNCHANGED <<component, calls>> ELSE Fresh
  /\ UNCHANGED <<held, crossed>>

\* The address becomes that of the queue; what is shown stays until the modal has folded.
ToQueue == route' = Queue /\ polls' = {} /\ UNCHANGED shown

CloseTask ==
  /\ route \in DetailTasks /\ ToQueue
  /\ UNCHANGED <<held, component, calls, crossed, detailSpent>>

ModalFolded ==
  /\ route = Queue /\ shown # NoId
  /\ shown' = NoId /\ Fresh
  /\ UNCHANGED <<held, route, polls, crossed, detailSpent>>

LeavePage ==
  /\ SpendDetail("visits", MaxVisits)
  /\ route # Elsewhere
  /\ route' = Elsewhere /\ shown' = NoId /\ polls' = {} /\ Fresh
  /\ UNCHANGED <<held, crossed>>

Live == route \in DetailTasks /\ route = shown

DetailPoll ==
  /\ Live /\ Cardinality(polls) < MaxDetailPolls
  /\ polls' = polls \cup PollOf(shown)
  /\ UNCHANGED <<held, route, shown, component, calls, crossed, detailSpent>>

\* A task that is gone is answered with an error, which leaves the record as it is.
PollReturns ==
  /\ \E p \in polls :
       /\ polls' = polls \ {p}
       /\ IF p.status = "gone" THEN UNCHANGED <<detail, opened, busy, option>> ELSE Render(p)
  /\ UNCHANGED <<held, route, shown, actionBusy, calls, crossed, detailSpent>>

PollBreaks ==
  /\ SpendDetail("broken", MaxBroken)
  /\ \E p \in polls : polls' = polls \ {p}
  /\ UNCHANGED <<held, route, shown, component, calls, crossed>>

\* A bug for comparison: a button is disabled by its own request only.
EnabledUnlessBusy(c) == Live /\ c \in Offered(detail) /\ c \notin busy

\* Every button that acts or asks is disabled by actionBusy and its own busy; the button
\* inside a popover by its own busy only.
Enabled(c) == Live /\ c \in Offered(detail) /\ ~actionBusy /\ c \notin busy

Send(c) ==
  calls' = calls \cup {[control |-> c, id |-> shown, mine |-> TRUE, answer |-> "none"]}

Press ==
  /\ Presses
  /\ \E c \in Direct : Enabled(c) /\ Send(c)
  /\ actionBusy' = TRUE
  /\ UNCHANGED <<held, route, shown, detail, opened, busy, option, polls, crossed>>

OpenPopover ==
  /\ Presses
  /\ \E c \in Popovers \ opened : Enabled(c) /\ opened' = opened \cup {c}
  /\ UNCHANGED <<held, route, shown, detail, actionBusy, busy, option, polls, calls,
                 crossed>>

\* A bug for comparison: the choice waits for the next time.
UncheckedNot(c) == UNCHANGED option

\* changeOpen(false): Escape, Cancel or a press outside.  A closed confirmation forgets
\* that the artifact was to be deleted as well.
Unchecked(c) == option' = (option /\ c # "delete")

DismissPopover ==
  /\ \E c \in opened \ busy : opened' = opened \ {c} /\ Unchecked(c)
  /\ UNCHANGED <<held, route, shown, detail, actionBusy, busy, polls, calls, crossed,
                 detailSpent>>

CheckOption ==
  /\ "delete" \in opened \ busy /\ detail.status = "completed"
  /\ option' = ~option
  /\ UNCHANGED <<held, route, shown, detail, actionBusy, opened, busy, polls, calls, crossed,
                 detailSpent>>

ConfirmPopover ==
  /\ Presses
  /\ \E c \in opened \ busy : busy' = busy \cup {c} /\ Send(c)
  /\ actionBusy' = TRUE /\ crossed' = (crossed \/ actionBusy)
  /\ UNCHANGED <<held, route, shown, detail, opened, option, polls>>

\* The form of an HTTP download has its own busy only.
SubmitConfirmation ==
  /\ Presses
  /\ Live /\ "confirm" \in Offered(detail) \ busy
  /\ busy' = busy \cup {"confirm"} /\ Send("confirm")
  /\ UNCHANGED <<held, route, shown, detail, actionBusy, opened, option, polls, crossed>>

CallServed ==
  /\ \E c \in calls :
       /\ c.answer = "none"
       /\ \/ /\ Allowed(c.control, held[c.id])
             /\ \E s \in Results(c.control) :
                  /\ held' = [held EXCEPT ![c.id] = s]
                  /\ calls' = (calls \ {c}) \cup {[c EXCEPT !.answer = s]}
          \/ /\ ~Allowed(c.control, held[c.id])
             /\ calls' = (calls \ {c}) \cup {[c EXCEPT !.answer = "refused"]}
             /\ UNCHANGED held
  /\ UNCHANGED <<route, shown, component, polls, crossed, detailSpent>>

\* `finally` of the handlers.
Released(c) == actionBusy' = (actionBusy /\ c = "confirm")

\* The request has failed: a popover stays open to show it.
CallFailed(c) ==
  /\ Released(c.control)
  /\ busy' = busy \ {c.control}
  /\ UNCHANGED <<detail, opened, option>>

\* Success: the record is replaced and a popover closes.
CallSucceeded(c) ==
  /\ Released(c.control)
  /\ LET d == IF c.control = "delete" THEN detail ELSE [id |-> c.id, status |-> c.answer] IN
       /\ detail' = d
       /\ opened' = (opened \ {c.control}) \cap Offered(d)
       /\ busy' = (busy \ {c.control}) \cap Offered(d)
       /\ option' = (option /\ "delete" \in Offered(d) \ {c.control})

\* A deletion also navigates to the queue, from wherever the user has gone meanwhile.
CallReturns ==
  /\ \E c \in calls :
       /\ c.answer # "none"
       /\ calls' = calls \ {c}
       /\ IF c.control = "delete" /\ c.answer = "gone"
            THEN /\ route' = Queue /\ polls' = {}
                 /\ shown' = IF route = Elsewhere THEN NoId ELSE shown
            ELSE UNCHANGED <<route, polls, shown>>
       /\ CASE ~c.mine -> UNCHANGED component
            [] c.mine /\ c.answer = "refused" -> CallFailed(c)
            [] OTHER -> CallSucceeded(c)
  /\ UNCHANGED <<held, crossed, detailSpent>>

\* The request or its answer is lost.
CallBreaks ==
  /\ SpendDetail("broken", MaxBroken)
  /\ \E c \in calls :
       /\ calls' = calls \ {c}
       /\ IF c.mine THEN CallFailed(c) ELSE UNCHANGED component
  /\ UNCHANGED <<held, route, shown, polls, crossed>>

DetailNext ==
  \/ TaskProceeds \/ OpenTask \/ CloseTask \/ ModalFolded \/ LeavePage
  \/ DetailPoll \/ PollReturns \/ PollBreaks
  \/ Press \/ OpenPopover \/ DismissPopover \/ CheckOption \/ ConfirmPopover
  \/ SubmitConfirmation \/ CallServed \/ CallReturns \/ CallBreaks

\* The timer of the poll goes on, every request is answered or fails, and the modal folds.
DetailFairness ==
  /\ WF_detailVars(DetailPoll) /\ WF_detailVars(PollReturns)
  /\ WF_detailVars(CallServed) /\ WF_detailVars(CallReturns)
  /\ WF_detailVars(ModalFolded)

DetailSpec == DetailInit /\ [][DetailNext]_detailVars /\ DetailFairness

-----------------------------------------------------------------------------
(* Properties *)

\* The record that is shown, and with it every button, belongs to the task of the address,
\* although answers for the task shown before may still arrive.
DetailIsOfShown == detail # NoDetail => detail.id = shown

\* No button can be pressed again while its request is under way, although an answer to an
\* older poll can bring back the control that the effect of the request had removed, with
\* its popover closed and its own busy forgotten.  A keyboard reaches the other buttons while
\* a popover is open, and actionBusy, which does not disable the button inside it, is taken
\* back by whichever request ends first: the promise ends when two have crossed.  (The form
\* that confirms an HTTP download has no popover and is not protected in this way: the
\* server refuses a second request.)
OneRequestPerControl ==
  ~crossed =>
    \A c \in calls :
      c.mine => IF c.control \in Direct THEN ~Enabled(c.control)
                ELSE c.control \notin opened \ busy

\* "Also delete the published artifact" is never ticked before the user ticks it in the
\* confirmation that is open: neither from an earlier use of it, nor from one that went away
\* with its control when a poll brought another status.
OptionIsDeliberate == option => "delete" \in opened

\* When nothing more happens, the details that are open show the status the task has, unless
\* it is gone: an answer that was overtaken is corrected by a later poll.
DetailConverges ==
  <>[](route \in DetailTasks /\ held[route] # "gone"
         => shown = route /\ detail = [id |-> route, status |-> held[route]])

\* Whatever becomes of a request, the buttons can be used again.
ButtonsComeBack == []<>~actionBusy
=============================================================================
