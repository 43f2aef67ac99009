------------------------------- MODULE Toasts -------------------------------
(* The notices in the corner of every page (ToastProvider over                                *)
(* useAnimatedToastStack) and the button that copies a text and says so (CopyButton), whose   *)
(* failures are notices.  Time is counted in steps; a timer fires at its time or later.       *)
EXTENDS Naturals, Sequences, FiniteSets, SequencesExt

CONSTANTS ToastLimit,    \* toasts kept
          Duration,      \* how long a toast stays, in steps of the clock
          MaxNotices,    \* bound on the notices of other parts of the program
          MaxCopies      \* bound on the uses of the button

ASSUME ToastAssumption ==
  /\ ToastLimit \in Nat \ {0} /\ Duration \in Nat \ {0}
  /\ MaxNotices \in Nat /\ MaxCopies \in Nat

MaxClock == 2 * Duration

VARIABLES clock,
          toasts,        \* the toasts of the stack, oldest first
          toastTimers,   \* the running timers: the toast each dismisses and when
          effectDue,     \* the stack has changed and its effect has not run yet
          notices,       \* how many toasts there have been: their ids
          copyState,     \* what the button shows
          copying,       \* writes to the clipboard on their way
          copyTimers,    \* timers that put the button back, by the write that set them
          copyRef,       \* the timer the button remembers
          copies

toastVars == <<clock, toasts, toastTimers, effectDue, notices>>
copyVars  == <<copyState, copying, copyTimers, copyRef, copies>>
noticeVars == <<toastVars, copyVars>>

ToastsInit ==
  /\ clock = 0 /\ toasts = << >> /\ toastTimers = {} /\ effectDue = FALSE /\ notices = 0
  /\ copyState = "idle" /\ copying = {} /\ copyTimers = {} /\ copyRef = 0 /\ copies = 0

-----------------------------------------------------------------------------
(* The stack.                                                               *)

\* Bug: the stack grows without limit.
KeptAll(stack) == stack

\* next.slice(-limit)
Kept(stack) == SubSeq(stack, IF Len(stack) > ToastLimit THEN Len(stack) - ToastLimit + 1 ELSE 1,
                      Len(stack))

ShowToast ==
  /\ toasts' = Kept(Append(toasts, [id |-> notices + 1, createdAt |-> clock]))
  /\ notices' = notices + 1
  /\ effectDue' = TRUE

\* dismissToast: from the close button, from a drag that went far enough, or from a timer.
\* (filter: ids are unique, so that one toast goes, or none.)
DismissToast(id) ==
  /\ toasts' = IF \E i \in DOMAIN toasts : toasts[i].id = id
                 THEN RemoveAt(toasts, CHOOSE i \in DOMAIN toasts : toasts[i].id = id)
                 ELSE toasts
  /\ effectDue' = TRUE

\* Some page reports a failure or a success.
Notify ==
  /\ notices < MaxNotices /\ clock + Duration <= MaxClock
  /\ ShowToast
  /\ UNCHANGED <<clock, toastTimers, copyVars>>

CloseToast ==
  /\ \E t \in Range(toasts) : DismissToast(t.id)
  /\ UNCHANGED <<clock, toastTimers, notices, copyVars>>

\* Bug: the whole duration again, however long the toast has been there.
RemainingAfresh(t) == Duration

\* Math.max(duration - (Date.now() - createdAt), 0)
Remaining(t) == IF clock - t.createdAt < Duration THEN Duration - (clock - t.createdAt) ELSE 0

StillShown(timer) == \E t \in Range(toasts) : t.id = timer.id

\* The effect after a change of the stack: timers of toasts that are gone are cleared, and
\* each toast without a timer gets one for the time it has left.
SyncTimers ==
  /\ effectDue
  /\ LET kept  == {timer \in toastTimers : StillShown(timer)}
         fresh == {t \in Range(toasts) : \A timer \in kept : timer.id # t.id}
     IN  toastTimers' = kept \cup {[id |-> t.id, at |-> clock + Remaining(t)] : t \in fresh}
  /\ effectDue' = FALSE
  /\ UNCHANGED <<clock, toasts, notices, copyVars>>

Expire ==
  /\ \E timer \in toastTimers :
       /\ timer.at <= clock
       /\ toastTimers' = toastTimers \ {timer}
       /\ DismissToast(timer.id)
  /\ UNCHANGED <<clock, notices, copyVars>>

Tick == clock < MaxClock /\ clock' = clock + 1
        /\ UNCHANGED <<toasts, toastTimers, effectDue, notices, copyVars>>

-----------------------------------------------------------------------------
(* The button that copies.                                                  *)

\* copy() up to writeClipboard: the remembered timer is cleared, if it still runs.
Copy ==
  /\ copies < MaxCopies
  /\ copies' = copies + 1
  /\ copying' = copying \cup {copies + 1}
  /\ copyTimers' = copyTimers \ {copyRef}
  /\ UNCHANGED <<copyState, copyRef, toastVars>>

\* ... the text is on the clipboard, or the browser refuses and the page says so in a toast;
\* either way a timer will put the button back.
CopyEnds(c, outcome) ==
  /\ copying' = copying \ {c}
  /\ copyState' = outcome
  /\ copyTimers' = copyTimers \cup {c}
  /\ copyRef' = c
  /\ UNCHANGED copies

Copied == /\ \E c \in copying : CopyEnds(c, "success")
          /\ UNCHANGED toastVars

\* copyFailed: the notice of the page.
CopyFails == /\ clock + Duration <= MaxClock
             /\ \E c \in copying : CopyEnds(c, "error")
             /\ ShowToast
             /\ UNCHANGED <<clock, toastTimers>>

CopyShown ==
  /\ \E c \in copyTimers : copyTimers' = copyTimers \ {c}
  /\ copyState' = "idle"
  /\ UNCHANGED <<copying, copyRef, copies, toastVars>>

ToastsNext ==
  \/ Notify \/ CloseToast \/ SyncTimers \/ Expire \/ Tick
  \/ Copy \/ Copied \/ CopyFails \/ CopyShown

\* Effects run, timers fire and the clipboard answers; nobody has to press anything.
ToastsFairness ==
  /\ WF_noticeVars(SyncTimers) /\ WF_noticeVars(Expire) /\ WF_noticeVars(Tick)
  /\ WF_noticeVars(Copied) /\ WF_noticeVars(CopyShown)

ToastsSpec == ToastsInit /\ [][ToastsNext]_noticeVars /\ ToastsFairness

-----------------------------------------------------------------------------
ToastsTypeOK ==
  /\ clock \in 0..MaxClock /\ notices \in 0..(MaxNotices + MaxCopies)
  /\ Len(toasts) <= ToastLimit
  /\ \A t \in Range(toasts) : t.id \in 1..notices /\ t.createdAt \in 0..clock
  /\ \A timer \in toastTimers : timer.id \in 1..notices /\ timer.at \in 0..(MaxClock + Duration)
  /\ effectDue \in BOOLEAN
  /\ copyState \in {"idle", "success", "error"}
  /\ copying \subseteq 1..copies /\ copyTimers \subseteq 1..copies /\ copyRef \in 0..copies

\* However toasts come, go and push each other out while effects are still to run, a toast
\* has one timer, which is for the end of its own time (or for at once, when the effect was
\* later than that), and it leaves no timer behind:
\* whenever the effect has run, the timers are exactly those of the toasts of the stack.
TimersAreOfToasts ==
  /\ \A timer \in toastTimers : \A t \in Range(toasts) :
       timer.id = t.id =>
         LET end == t.createdAt + Duration
         IN  timer.at = end \/ (end < timer.at /\ timer.at <= clock)
  /\ ~effectDue =>
       /\ {timer.id : timer \in toastTimers} = {t.id : t \in Range(toasts)}
       /\ Cardinality(toastTimers) = Len(toasts)

\* Every notice leaves the screen and the button goes back to what it says it does.
NoticesOver == toasts = << >> /\ toastTimers = {} /\ copyState = "idle" /\ copying = {}
NoticesClear == <>[]NoticesOver
=============================================================================
