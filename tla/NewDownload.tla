----------------------------- MODULE NewDownload -----------------------------
(***************************************************************************)
(* The form for a new download, packages/ui/src/pages/NewTaskPage.tsx,     *)
(* with the fields of SearchField.tsx and the files of FileTree.tsx.       *)
(*                                                                         *)
(* Three effects look things up while the user types: models that match,   *)
(* the revisions of a model, and the preflight ("estimate") of the         *)
(* download.  Each waits a moment, asks the server, and is cleaned up and  *)
(* run anew when a field it depends on changes; the answer of the second   *)
(* changes a field of the third.  What is submitted is read from the form. *)
(***************************************************************************)
EXTENDS FileTree

CONSTANTS
  FormIds,        \* complete model ids (of a hub), or addresses
  DefaultOf,      \* the default revision of each, as the hub says
  Estimates,      \* what the server may say of a download
  MaxEdits, MaxPicks  \* bounds on what the user does

NoFormId == "no id"
Partial  == "partial id"
FormProviders == {"hub", "http"}
ProviderRevision == [hub |-> "main", http |-> "content"]
Typed == "typed"
Revisions == {"main", "content", Typed} \cup {DefaultOf[i] : i \in FormIds}

\* The routing for this task: as the server is configured, round it, or through a temporary
\* mirror whose address is not complete yet.  disableMirror, the mirror and disableProxy are
\* alike: each is a part of the key, and a change of it drops the preflight.
Routings == {"server", "bypass", "typing"}

Form == [provider : FormProviders, id : FormIds \cup {NoFormId, Partial},
         revision : Revisions, routing : Routings]

ASSUME NewDownloadAssumption ==
  /\ FormIds \cap {NoFormId, Partial} = {}
  /\ DOMAIN DefaultOf = FormIds
  /\ \A e \in Estimates :
       /\ DOMAIN e = {"files", "variants", "resolved", "downloadable", "free", "duplicate"}
       /\ e.downloadable \in BOOLEAN /\ e.free \in Nat
       /\ e.duplicate \in {"none", "task", "artifact"}
       /\ << >> \notin e.files /\ \A p \in e.files : p \in Seq(Range(p))
       /\ \A v \in e.variants : v \subseteq e.files /\ v # {}
  /\ MaxEdits \in Nat /\ MaxPicks \in Nat

VARIABLES
  form,      \* the fields
  edited,    \* revisionEdited: the revision is the user's own
  lookups,   \* of each effect: the state it shows, and whether its timer is set
  flights,   \* requests of the effects that have not been aborted
  estimate,  \* the state `estimate` with estimateKey
  resetDue,  \* another estimate has been drawn, and its effect has not run
  choosing,  \* selectFiles
  selected, expanded, query,  \* selectedPaths, expandedPaths, variantFilter
  picked,    \* the download that was on the screen when files were last chosen
  sent,      \* the request of submit; there is one while busy
  where,     \* the address
  formSpent

formVars == <<form, edited, lookups, flights, estimate, resetDue, choosing, selected, expanded,
              query, picked, sent, where, formSpent>>
choice == <<resetDue, choosing, selected, expanded, query, picked>>

Kinds == {"models", "revisions", "estimate"}
NoEstimate == [of |-> <<>>]
NotSent    == [of |-> <<>>]
AllFiles   == {<<>>}

\* The fields an effect depends on; for the estimate they make up the key.
Deps(k, f) == IF k = "estimate" THEN <<f.provider, f.id, f.revision, f.routing>>
                                ELSE <<f.provider, f.id>>

\* currentEstimateKey
Key == Deps("estimate", form)

Ready(k, f) ==
  CASE k = "models"    -> f.provider # "http" /\ f.id # NoFormId
    [] k = "revisions" -> f.provider # "http" /\ f.id \in FormIds
    [] k = "estimate"  -> f.id \in FormIds /\ f.routing # "typing"

\* What the reset of the selection depends on: the identity of the estimate, without routing.
Identity(e) ==
  IF e = NoEstimate THEN <<>> ELSE <<e.of[1], e.of[2], e.of[3], e.body.resolved>>

FormTypeOK ==
  /\ form \in Form /\ edited \in BOOLEAN
  /\ lookups \in [Kinds -> [state : {"idle", "loading", "ready", "error"}, timer : BOOLEAN]]
  /\ \A x \in flights : x.kind \in Kinds
  /\ estimate # NoEstimate => estimate.body \in Estimates
  /\ choosing \in BOOLEAN /\ resetDue \in BOOLEAN
  /\ where \in {"form", "tasks", "task", "artifacts"}

-----------------------------------------------------------------------------
(* What the form renders *)

\* The review is shown for the key of the fields only, and so are the files to choose from.
Reviewed == /\ where = "form" /\ estimate # NoEstimate
            /\ lookups["estimate"].state = "ready" /\ estimate.of = Key

\* A bug for comparison: the estimate that is there is taken for the one of the fields.
EstimateIsCurrentAlways ==
  /\ lookups["estimate"].state = "ready"
  /\ estimate # NoEstimate /\ estimate.body.downloadable

EstimateIsCurrent ==
  /\ lookups["estimate"].state = "ready" /\ estimate.of = Key
  /\ estimate # NoEstimate /\ estimate.body.downloadable

UsesVariants(e) == e.variants # {}

ValidSelection ==
  IF UsesVariants(estimate.body)
    THEN selected \in estimate.body.variants
    ELSE selected # {} /\ selected \subseteq estimate.body.files

\* Every file has the size 1 and none is reused.
TransferSize == Cardinality(IF choosing THEN selected ELSE estimate.body.files)

StorageSufficient == TransferSize <= estimate.body.free

\* The duplicate takes the place of the submit button.
Duplicate == IF EstimateIsCurrent /\ ~choosing THEN estimate.body.duplicate ELSE "none"

CanSubmit ==
  /\ where = "form" /\ sent = NotSent /\ lookups["estimate"].state # "loading"
  /\ EstimateIsCurrent /\ StorageSufficient
  /\ choosing => ValidSelection
  /\ Duplicate = "none"

-----------------------------------------------------------------------------
(* Effects *)

\* React runs the effects of what it has drawn before it draws again.  An answer is drawn a
\* moment before its effect runs, and in between only a click can find the form as it is.
Flushed == ~resetDue

SetEstimate(e) ==
  /\ estimate' = e /\ resetDue' = (Identity(e) # Identity(estimate))
  /\ UNCHANGED <<choosing, selected, expanded, query, picked>>

\* A bug for comparison: an effect that runs anew leaves its request alone.
KeptFlights(changed) == flights

\* controller.abort of the effects that are cleaned up.
AbortedFlights(changed) == {x \in flights : x.kind \notin changed}

\* The fields become f.  With `invalid` the handler has called invalidateEstimate; an effect
\* that is not ready drops its result, and one that is keeps showing its state till its timer.
SetForm(f, invalid) ==
  LET changed == {k \in Kinds : Deps(k, f) # Deps(k, form)} IN
  /\ form' = f
  /\ flights' = AbortedFlights(changed)
  /\ lookups' =
       [k \in Kinds |->
          LET stays == ~(invalid /\ k = "estimate") IN
          IF k \notin changed THEN [lookups[k] EXCEPT !.state = IF stays THEN @ ELSE "idle"]
          ELSE IF Ready(k, f) THEN [state |-> IF stays THEN lookups[k].state ELSE "idle",
                                    timer |-> TRUE]
          ELSE [state |-> "idle", timer |-> FALSE]]
  /\ SetEstimate(IF invalid \/ ~Ready("estimate", f) THEN NoEstimate ELSE estimate)

-----------------------------------------------------------------------------
FormInit ==
  /\ form = [provider |-> "hub", id |-> NoFormId, revision |-> "main", routing |-> "server"]
  /\ edited = FALSE
  /\ lookups = [k \in Kinds |-> [state |-> "idle", timer |-> FALSE]]
  /\ flights = {} /\ estimate = NoEstimate
  /\ resetDue = FALSE /\ choosing = FALSE /\ selected = {} /\ expanded = {} /\ query = NoQuery
  /\ picked = <<>>
  /\ sent = NotSent /\ where = "form"
  /\ formSpent = [edits |-> 0, picks |-> 0]

SpendForm(bound, limit) ==
  /\ where = "form" /\ Flushed /\ formSpent[bound] < limit
  /\ formSpent' = [formSpent EXCEPT ![bound] = @ + 1]

\* A bug for comparison: the selection is kept for the next estimate.
ResetSelectionNever ==
  /\ resetDue /\ resetDue' = FALSE
  /\ UNCHANGED <<form, edited, lookups, flights, estimate, choosing, selected, expanded, query,
                 picked, sent, where, formSpent>>

\* The effect that starts a selection anew when the identity of the estimate has changed.
ResetSelection ==
  /\ resetDue /\ resetDue' = FALSE
  /\ choosing' = FALSE /\ selected' = {} /\ expanded' = {} /\ query' = NoQuery
  /\ picked' = <<>>
  /\ UNCHANGED <<form, edited, lookups, flights, estimate, sent, where, formSpent>>

Edits == SpendForm("edits", MaxEdits)

ChooseProvider ==
  /\ Edits
  /\ \E p \in FormProviders :
       SetForm([provider |-> p, id |-> NoFormId, revision |-> ProviderRevision[p],
                routing |-> "server"], TRUE)
  /\ edited' = FALSE
  /\ UNCHANGED <<sent, where>>

\* The search field of a hub takes the revision back to the provider's default.
EditId ==
  /\ Edits
  /\ \E i \in (FormIds \cup {NoFormId, Partial}) \ {form.id} :
       IF form.provider = "http"
         THEN SetForm([form EXCEPT !.id = i], TRUE) /\ UNCHANGED edited
         ELSE /\ SetForm([form EXCEPT !.id = i, !.revision = ProviderRevision["hub"]], TRUE)
              /\ edited' = FALSE
  /\ UNCHANGED <<sent, where>>

EditRevision ==
  /\ Edits
  /\ \E r \in {"main", Typed} \ {form.revision} : SetForm([form EXCEPT !.revision = r], TRUE)
  /\ edited' = (edited \/ form.provider # "http")
  /\ UNCHANGED <<sent, where>>

EditRouting ==
  /\ Edits
  /\ \E r \in Routings \ {form.routing} :
       /\ r = "typing" => form.provider # "http"
       /\ SetForm([form EXCEPT !.routing = r], TRUE)
  /\ UNCHANGED <<edited, sent, where>>

TimerFires(k) ==
  /\ lookups[k].timer /\ Flushed
  /\ lookups' = [lookups EXCEPT ![k] = [state |-> "loading", timer |-> FALSE]]
  /\ flights' = flights \cup {[kind |-> k, of |-> Deps(k, form)]}
  /\ UNCHANGED <<form, edited, estimate, choice, sent, where, formSpent>>

Settled(k, state) == lookups' = [lookups EXCEPT ![k].state = state]

ModelsFound ==
  /\ Flushed
  /\ \E x \in flights : x.kind = "models" /\ flights' = flights \ {x}
  /\ Settled("models", "ready")
  /\ UNCHANGED <<form, edited, estimate, choice, sent, where, formSpent>>

\* The revision the hub has as its default replaces one that the user has not edited; the
\* preflight is run anew, and the one that is there is not dropped.
RevisionsFound ==
  /\ Flushed
  /\ \E x \in flights :
       /\ x.kind = "revisions"
       /\ LET f == IF edited THEN form ELSE [form EXCEPT !.revision = DefaultOf[x.of[2]]]
              changed == IF f = form THEN {} ELSE {"estimate"}
          IN  /\ form' = f
              /\ flights' = AbortedFlights(changed) \ {x}
              /\ lookups' = [k \in Kinds |->
                   CASE k = "revisions" -> [lookups[k] EXCEPT !.state = "ready"]
                     [] k \in changed /\ Ready(k, f) -> [lookups[k] EXCEPT !.timer = TRUE]
                     [] OTHER -> lookups[k]]
  /\ UNCHANGED <<edited, estimate, choice, sent, where, formSpent>>

Estimated ==
  /\ Flushed
  /\ \E x \in flights, body \in Estimates :
       /\ x.kind = "estimate" /\ flights' = flights \ {x}
       /\ SetEstimate([of |-> x.of, body |-> body])
  /\ Settled("estimate", "ready")
  /\ UNCHANGED <<form, edited, sent, where, formSpent>>

IsAbortError(cause) == cause = "AbortError"

LookupBreaks(x, cause) ==
  /\ Flushed
  /\ flights' = flights \ {x}
  /\ IF IsAbortError(cause) THEN UNCHANGED <<lookups, estimate, choice>>
     ELSE /\ Settled(x.kind, "error")
          /\ IF x.kind = "estimate" THEN SetEstimate(NoEstimate)
                                    ELSE UNCHANGED <<estimate, choice>>
  /\ UNCHANGED <<form, edited, sent, where>>

LookupRefused ==
  /\ \E x \in flights : LookupBreaks(x, "ApiError")
  /\ UNCHANGED formSpent

\* The timeout of `lookup`.
LookupTimesOut ==
  /\ \E x \in flights : LookupBreaks(x, "TimeoutError")
  /\ UNCHANGED formSpent

-----------------------------------------------------------------------------
(* The choice of files *)

Picks == SpendForm("picks", MaxPicks) /\ Reviewed

Choose(paths) ==
  /\ selected' = paths
  /\ picked' = IF paths = {} THEN <<>> ELSE Identity(estimate)

SwitchSelectFiles ==
  /\ Picks /\ estimate.body.files # {}
  /\ choosing' = ~choosing
  /\ IF choosing THEN Choose({}) ELSE UNCHANGED <<selected, picked>>
  /\ UNCHANGED <<form, edited, lookups, flights, estimate, resetDue, expanded, query, sent,
                 where>>

ChooseVariant ==
  /\ Picks /\ choosing
  /\ \E v \in estimate.body.variants : Choose(v)
  /\ UNCHANGED <<form, edited, lookups, flights, estimate, resetDue, choosing, expanded, query,
                 sent, where>>

ChooseFiles ==
  /\ Picks /\ choosing /\ ~UsesVariants(estimate.body)
  /\ \/ Choose(estimate.body.files) \/ Choose({})
     \/ \E n \in TreeRows(estimate.body.files, expanded, query) :
          Choose(ToggleRow(n, estimate.body.files, selected))
  /\ UNCHANGED <<form, edited, lookups, flights, estimate, resetDue, choosing, expanded, query,
                 sent, where>>

\* toggleExpandedPath, and the filter.
LookAround ==
  /\ Picks /\ choosing /\ ~UsesVariants(estimate.body)
  /\ \/ /\ \E n \in TreeRows(estimate.body.files, expanded, query) :
             /\ IsFolder(n, estimate.body.files)
             /\ expanded' = IF n \in expanded THEN expanded \ {n} ELSE expanded \cup {n}
        /\ UNCHANGED query
     \/ /\ query' \in ({NoQuery} \cup UNION {Range(p) : p \in estimate.body.files}) \ {query}
        /\ UNCHANGED expanded
  /\ UNCHANGED <<form, edited, lookups, flights, estimate, resetDue, choosing, selected, picked,
                 sent, where>>

-----------------------------------------------------------------------------
(* The end of the form *)

\* `submit`; the page can be left, and the fields edited, while it waits.  The click can come
\* before the effect of a new estimate: the files chosen are then measured against that one.
Submit ==
  /\ CanSubmit
  /\ sent' = [of |-> Key, paths |-> IF choosing THEN selected ELSE AllFiles,
              review |-> estimate, picked |-> picked]
  /\ UNCHANGED <<form, edited, lookups, flights, estimate, choice, where, formSpent>>

\* The page is gone: its effects are cleaned up.
Leave(to) ==
  /\ where' = to
  /\ lookups' = [k \in Kinds |-> [state |-> "idle", timer |-> FALSE]]
  /\ flights' = {}
  /\ UNCHANGED <<form, edited, estimate, choice, formSpent>>

\* The answer leads to the task, from wherever the user is by now.
SubmitReturns == Flushed /\ sent # NotSent /\ sent' = NotSent /\ Leave("task")

SubmitFails ==
  /\ Flushed /\ sent # NotSent /\ sent' = NotSent
  /\ UNCHANGED <<form, edited, lookups, flights, estimate, choice, where, formSpent>>

\* Cancel, or the button that stands for the submit button of a duplicate.
LeaveForm ==
  /\ where = "form" /\ Flushed
  /\ \/ Leave("tasks")
     \/ Duplicate = "task" /\ Leave("task")
     \/ Duplicate = "artifact" /\ Leave("artifacts")
  /\ UNCHANGED sent

FormNext ==
  \/ ChooseProvider \/ EditId \/ EditRevision \/ EditRouting
  \/ \E k \in Kinds : TimerFires(k)
  \/ ModelsFound \/ RevisionsFound \/ Estimated \/ LookupRefused \/ LookupTimesOut
  \/ ResetSelection
  \/ SwitchSelectFiles \/ ChooseVariant \/ ChooseFiles \/ LookAround
  \/ Submit \/ SubmitReturns \/ SubmitFails \/ LeaveForm

\* Effects run, and timers fire, those that end a lookup the server does not answer included.
FormFairness ==
  /\ WF_formVars(ResetSelection)
  /\ \A k \in Kinds : WF_formVars(TimerFires(k))
  /\ WF_formVars(LookupTimesOut)

FormSpec == FormInit /\ [][FormNext]_formVars /\ FormFairness

-----------------------------------------------------------------------------
(* Properties *)

\* "Preflight and the actual download will use the same choices": what is submitted has been
\* validated in every field, and is a download the server said it can make: it fits, and it
\* is all of the files or a choice among those it named.  The revision lookup changes a
\* field without dropping the estimate that is there.
SubmittedIsPreflighted ==
  sent # NotSent =>
    LET body == sent.review.body IN
    /\ sent.of = sent.review.of
    /\ body.downloadable
    /\ IF sent.paths = AllFiles
         THEN Cardinality(body.files) <= body.free
         ELSE /\ sent.paths \subseteq body.files /\ sent.paths # {}
              /\ Cardinality(sent.paths) <= body.free
              /\ UsesVariants(body) => sent.paths \in body.variants

\* Once the effects have run (NewTaskPage, effect on the identity of the estimate), the chosen
\* files are files of the estimate that is there and were chosen for its model and revision,
\* also when the answer for the default revision follows one for another.
SelectionIsOfEstimate ==
  (Flushed /\ selected # {}) =>
    /\ estimate # NoEstimate /\ picked = Identity(estimate)
    /\ selected \subseteq estimate.body.files

\* The revision of a hub's model is the user's own, the provider's usual one, or the default
\* of this model: never the default of a model that was entered before.
RevisionIsOfModel ==
  (where = "form" /\ form.provider = "hub" /\ ~edited) =>
    form.revision \in {ProviderRevision["hub"]}
                        \cup (IF form.id \in FormIds THEN {DefaultOf[form.id]} ELSE {})

\* A filter never hides a file that matches it, whatever folders it lies in and whether or
\* not they have been opened.
FilterShowsMatches ==
  (Reviewed /\ query # NoQuery) =>
    \A p \in estimate.body.files :
      Matches(p, query) => p \in TreeRows(estimate.body.files, expanded, query)

\* Once the user stops typing no lookup is shown as under way for good, also when the server
\* never answers.
LookupIsOver == \A k \in Kinds : lookups[k].state # "loading"
LookupsSettle == <>[]LookupIsOver
=============================================================================
