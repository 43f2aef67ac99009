-------------------------- MODULE NewDownloadProofs --------------------------
(***************************************************************************)
(* Proofs about the form for a new download, for any models and revisions, *)
(* any answers of the server, and any number of edits.                     *)
(***************************************************************************)
EXTENDS NewDownload, SequenceTheorems, TLAPS

Flight(k, f) == [kind |-> k, of |-> Deps(k, f)]

\* What waits or is under way is for the fields as they are, and not both at once.
TimersReady == \A k \in Kinds : lookups[k].timer => Ready(k, form)
FlightsMatch ==
  \A x \in flights : \E k \in Kinds :
    x = Flight(k, form) /\ Ready(k, form) /\ ~lookups[k].timer

RevisionKnown ==
  form.provider = "hub" /\ ~edited =>
    form.revision \in {ProviderRevision["hub"]}
                        \cup (IF form.id \in FormIds THEN {DefaultOf[form.id]} ELSE {})

\* The preflight that is there is for the fields as they are and no other one is on its way,
\* or it is for the revision that the default of the model has replaced.
EstimateShaped ==
  estimate # NoEstimate =>
    \E f \in Form, body \in Estimates :
      estimate = [of |-> Deps("estimate", f), body |-> body]
Settling == lookups["estimate"].timer \/ Flight("estimate", form) \in flights
Replaced == /\ ~edited /\ form.id \in FormIds /\ form.revision = DefaultOf[form.id]
            /\ estimate.of[3] # form.revision
EstimateIsOfFields == estimate # NoEstimate => (estimate.of = Key /\ ~Settling) \/ Replaced

LookupsTyped ==
  lookups \in [Kinds -> [state : {"idle", "loading", "ready", "error"}, timer : BOOLEAN]]
FieldsTyped == form \in Form /\ edited \in BOOLEAN

FormInv ==
  /\ FieldsTyped /\ LookupsTyped
  /\ TimersReady /\ FlightsMatch /\ RevisionKnown
  /\ EstimateShaped /\ EstimateIsOfFields /\ SelectionIsOfEstimate

-----------------------------------------------------------------------------
(* The key and the identity of an estimate *)

LEMMA DepsOf ==
  ASSUME NEW f, NEW g
  PROVE  /\ Deps("estimate", f) = Deps("estimate", g)
              <=> f.provider = g.provider /\ f.id = g.id /\ f.revision = g.revision
                  /\ f.routing = g.routing
         /\ Deps("models", f) = Deps("models", g) <=> f.provider = g.provider /\ f.id = g.id
         /\ Deps("revisions", f) = Deps("revisions", g)
              <=> f.provider = g.provider /\ f.id = g.id
         /\ Deps("revisions", f)[2] = f.id /\ Deps("estimate", f)[3] = f.revision
         /\ Deps("estimate", f) # << >>
BY DEF Deps

LEMMA ReadyByDeps ==
  ASSUME NEW f, NEW g, NEW k \in Kinds, Deps(k, f) = Deps(k, g), Ready(k, f)
  PROVE  Ready(k, g)
BY DepsOf DEF Ready, Kinds

LEMMA Estimated4 ==
  ASSUME NEW f, NEW body
  PROVE  [of |-> Deps("estimate", f), body |-> body] # NoEstimate
BY DepsOf DEF NoEstimate

LEMMA IdentityOf ==
  ASSUME NEW e, NEW f, e # NoEstimate, e.of = Deps("estimate", f)
  PROVE  Identity(e) # << >> /\ Identity(e)[3] = e.of[3]
BY DEF Deps, Identity

\* Another estimate, or none, comes with a reset of the choice of files.
LEMMA SelectionGoes ==
  ASSUME FormInv, Flushed, NEW e, SetEstimate(e),
         e # NoEstimate => \E f, body : e = [of |-> Deps("estimate", f), body |-> body],
         e # NoEstimate /\ estimate # NoEstimate => e.of[3] # estimate.of[3]
  PROVE  SelectionIsOfEstimate'
<1>1. CASE Identity(e) # Identity(estimate)
  BY <1>1 DEF SetEstimate, SelectionIsOfEstimate, Flushed
<1>2. CASE Identity(e) = Identity(estimate)
  <2>1. selected' = selected
    BY DEF SetEstimate
  <2>2. e # NoEstimate => Identity(e) # << >> /\ Identity(e)[3] = e.of[3]
    BY IdentityOf
  <2>3. estimate # NoEstimate =>
          Identity(estimate) # << >> /\ Identity(estimate)[3] = estimate.of[3]
    BY IdentityOf DEF FormInv, EstimateShaped
  <2>4. Identity(NoEstimate) = << >>
    BY DEF Identity
  <2>5. estimate = NoEstimate
    BY <1>2, <2>2, <2>3, <2>4
  <2> QED
    BY <2>1, <2>5 DEF FormInv, SelectionIsOfEstimate
<1> QED
  BY <1>1, <1>2

-----------------------------------------------------------------------------
(* The fields change *)

\* Every handler of a field drops the estimate, and its effects are run anew.
LEMMA SetFormKeeps ==
  ASSUME FormInv, Flushed, NEW f \in Form, SetForm(f, TRUE), edited' \in BOOLEAN,
         f.provider = "hub" /\ ~edited' =>
           f.revision \in {ProviderRevision["hub"]}
                            \cup (IF f.id \in FormIds THEN {DefaultOf[f.id]} ELSE {})
  PROVE  FormInv'
<1> DEFINE changed == {k \in Kinds : Deps(k, f) # Deps(k, form)}
           next(k) ==
             IF k \notin changed
               THEN [lookups[k] EXCEPT !.state = IF ~(TRUE /\ k = "estimate") THEN @ ELSE "idle"]
             ELSE IF Ready(k, f)
               THEN [state |-> IF ~(TRUE /\ k = "estimate") THEN lookups[k].state ELSE "idle",
                     timer |-> TRUE]
             ELSE [state |-> "idle", timer |-> FALSE]
<1>1. /\ form' = f /\ flights' = {x \in flights : x.kind \notin changed}
      /\ lookups' = [k \in Kinds |-> next(k)]
      /\ SetEstimate(NoEstimate)
  BY DEF SetForm, AbortedFlights
<1>2. estimate' = NoEstimate /\ SelectionIsOfEstimate'
  BY <1>1, SelectionGoes DEF SetEstimate
<1>3. ASSUME NEW k \in Kinds
      PROVE  /\ next(k) \in [state : {"idle", "loading", "ready", "error"}, timer : BOOLEAN]
             /\ k \notin changed => next(k).timer = lookups[k].timer
             /\ k \in changed /\ next(k).timer => Ready(k, f)
  <2>1. lookups[k] \in [state : {"idle", "loading", "ready", "error"}, timer : BOOLEAN]
    BY DEF FormInv, LookupsTyped
  <2>2. CASE k \notin changed
    BY <2>1, <2>2
  <2>3. CASE k \in changed /\ Ready(k, f)
    BY <2>1, <2>3
  <2>4. CASE k \in changed /\ ~Ready(k, f)
    BY <2>1, <2>4
  <2> QED
    BY <2>2, <2>3, <2>4
<1>4. \A k \in Kinds \ changed : Deps(k, f) = Deps(k, form)
  OBVIOUS
<1> HIDE DEF changed, next
<1>5. FieldsTyped' /\ LookupsTyped'
  BY <1>1, <1>3 DEF FieldsTyped, LookupsTyped
<1>6. TimersReady'
  BY <1>1, <1>3, <1>4, ReadyByDeps DEF TimersReady, FormInv
<1>7. FlightsMatch'
  <2> SUFFICES ASSUME NEW x \in flights'
               PROVE  \E k \in Kinds : x = Flight(k, form') /\ Ready(k, form')
                                        /\ ~lookups'[k].timer
    BY DEF FlightsMatch, Flight, Deps, Ready
  <2>1. PICK k \in Kinds : x = Flight(k, form) /\ Ready(k, form) /\ ~lookups[k].timer
    BY <1>1 DEF FormInv, FlightsMatch
  <2>2. k \notin changed
    BY <1>1, <2>1 DEF Flight
  <2>3. x = Flight(k, form') /\ Ready(k, form')
    BY <1>1, <1>4, <2>1, <2>2, ReadyByDeps DEF Flight
  <2> QED
    BY <1>1, <1>3, <2>1, <2>2, <2>3
<1>8. RevisionKnown'
  BY <1>1 DEF RevisionKnown
<1>9. (EstimateShaped /\ EstimateIsOfFields /\ SelectionIsOfEstimate)'
  BY <1>2 DEF EstimateShaped, EstimateIsOfFields
<1> QED
  BY <1>5, <1>6, <1>7, <1>8, <1>9 DEF FormInv

LEMMA RevisionsTyped ==
  /\ "main" \in Revisions /\ Typed \in Revisions
  /\ \A p \in FormProviders : ProviderRevision[p] \in Revisions
  /\ \A i \in FormIds : DefaultOf[i] \in Revisions
BY DEF Revisions, FormProviders, ProviderRevision

LEMMA HandlersKeep ==
  FormInv /\ (ChooseProvider \/ EditId \/ EditRevision \/ EditRouting) => FormInv'
<1> SUFFICES ASSUME FormInv PROVE ChooseProvider \/ EditId \/ EditRevision \/ EditRouting => FormInv'
  OBVIOUS
<1>1. form \in Form /\ edited \in BOOLEAN /\ RevisionKnown
  BY DEF FormInv, FieldsTyped
<1>0. ChooseProvider \/ EditId \/ EditRevision \/ EditRouting => Flushed
  BY DEF ChooseProvider, EditId, EditRevision, EditRouting, Edits, SpendForm
<1>2. ASSUME ChooseProvider PROVE FormInv'
  <2>1. PICK p \in FormProviders :
          SetForm([provider |-> p, id |-> NoFormId, revision |-> ProviderRevision[p],
                   routing |-> "server"], TRUE)
    BY <1>2 DEF ChooseProvider
  <2> DEFINE f == [provider |-> p, id |-> NoFormId, revision |-> ProviderRevision[p],
                   routing |-> "server"]
  <2>2. f \in Form
    BY RevisionsTyped DEF Form, Routings
  <2>3. f.provider = "hub" => f.revision = ProviderRevision["hub"]
    OBVIOUS
  <2>4. edited' \in BOOLEAN
    BY <1>2 DEF ChooseProvider
  <2> HIDE DEF f
  <2> QED
    BY <1>0, <1>2, <2>1, <2>2, <2>3, <2>4, SetFormKeeps DEF f
<1>3. ASSUME EditId PROVE FormInv'
  <2>1. PICK i \in FormIds \cup {NoFormId, Partial} :
          IF form.provider = "http"
            THEN SetForm([form EXCEPT !.id = i], TRUE) /\ UNCHANGED edited
            ELSE /\ SetForm([form EXCEPT !.id = i, !.revision = ProviderRevision["hub"]], TRUE)
                 /\ edited' = FALSE
    BY <1>3 DEF EditId
  <2>2. CASE form.provider = "http"
    <3> DEFINE f == [form EXCEPT !.id = i]
    <3>1. f \in Form /\ f.provider = "http"
      BY <1>1, <2>2 DEF Form
    <3>2. SetForm(f, TRUE) /\ edited' \in BOOLEAN
      BY <1>1, <2>1, <2>2
    <3> HIDE DEF f
    <3> QED
      BY <1>0, <1>3, <3>1, <3>2, SetFormKeeps
  <2>3. CASE form.provider # "http"
    <3> DEFINE f == [form EXCEPT !.id = i, !.revision = ProviderRevision["hub"]]
    <3>1. f \in Form /\ f.revision = ProviderRevision["hub"]
      BY <1>1, RevisionsTyped DEF Form, FormProviders
    <3>2. SetForm(f, TRUE) /\ edited' \in BOOLEAN
      BY <2>1, <2>3
    <3> HIDE DEF f
    <3> QED
      BY <1>0, <1>3, <3>1, <3>2, SetFormKeeps
  <2> QED
    BY <2>2, <2>3
<1>4. ASSUME EditRevision PROVE FormInv'
  <2>1. PICK r \in {"main", Typed} : SetForm([form EXCEPT !.revision = r], TRUE)
    BY <1>4 DEF EditRevision
  <2> DEFINE f == [form EXCEPT !.revision = r]
  <2>2. f \in Form /\ f.provider = form.provider
    BY <1>1, RevisionsTyped DEF Form
  <2>3. edited' = (edited \/ form.provider # "http")
    BY <1>4 DEF EditRevision
  <2>4. edited' \in BOOLEAN /\ (f.provider = "hub" => edited')
    BY <1>1, <2>2, <2>3
  <2> HIDE DEF f
  <2> QED
    BY <1>0, <1>4, <2>1, <2>2, <2>4, SetFormKeeps DEF f
<1>5. ASSUME EditRouting PROVE FormInv'
  <2>1. PICK r \in Routings : SetForm([form EXCEPT !.routing = r], TRUE)
    BY <1>5 DEF EditRouting
  <2> DEFINE f == [form EXCEPT !.routing = r]
  <2>2. f \in Form /\ f.provider = form.provider /\ f.id = form.id /\ f.revision = form.revision
    BY <1>1 DEF Form
  <2>3. edited' = edited
    BY <1>5 DEF EditRouting
  <2> HIDE DEF f
  <2> QED
    BY <1>0, <1>1, <1>5, <2>1, <2>2, <2>3, SetFormKeeps DEF f, RevisionKnown
<1> QED
  BY <1>2, <1>3, <1>4, <1>5

-----------------------------------------------------------------------------
(* The lookups *)

\* A step that leaves the fields, the estimate and the files chosen of it alone, and takes at
\* most answers away.
LEMMA LookupsKeep ==
  ASSUME FormInv, UNCHANGED <<form, edited, estimate>>, LookupsTyped', SelectionIsOfEstimate',
         flights' \subseteq flights,
         \A k \in Kinds : lookups'[k].timer => lookups[k].timer
  PROVE  FormInv'
<1>1. \A k \in Kinds : Flight(k, form') = Flight(k, form) /\ Ready(k, form') = Ready(k, form)
  OBVIOUS
<1>2. (FieldsTyped /\ TimersReady /\ FlightsMatch)'
  BY DEF FormInv, FieldsTyped, TimersReady, FlightsMatch
<1>3. (RevisionKnown /\ EstimateShaped)'
  BY DEF FormInv, RevisionKnown, EstimateShaped
<1>4. EstimateIsOfFields'
  BY DEF FormInv, EstimateIsOfFields, Settling, Replaced, Key, Kinds
<1> QED
  BY <1>2, <1>3, <1>4 DEF FormInv

LEMMA TimerKeeps == FormInv /\ (\E k \in Kinds : TimerFires(k)) => FormInv'
<1> SUFFICES ASSUME FormInv, NEW k \in Kinds, TimerFires(k) PROVE FormInv'
  OBVIOUS
<1>1. /\ lookups[k].timer /\ Ready(k, form)
      /\ lookups' = [lookups EXCEPT ![k] = [state |-> "loading", timer |-> FALSE]]
      /\ flights' = flights \cup {Flight(k, form)}
      /\ form' = form /\ edited' = edited /\ estimate' = estimate
      /\ selected' = selected /\ picked' = picked /\ resetDue' = resetDue
  BY DEF TimerFires, Flight, FormInv, TimersReady, choice
<1>2. LookupsTyped'
  BY <1>1 DEF FormInv, LookupsTyped
<1>3. /\ ~lookups'[k].timer
      /\ \A j \in Kinds : j # k => lookups'[j] = lookups[j]
  BY <1>1 DEF FormInv, LookupsTyped
<1>4. (FieldsTyped /\ TimersReady /\ RevisionKnown /\ EstimateShaped /\ SelectionIsOfEstimate)'
  BY <1>1, <1>3
     DEF FormInv, FieldsTyped, TimersReady, RevisionKnown, EstimateShaped, SelectionIsOfEstimate,
         Flushed
<1>5. FlightsMatch'
  <2> SUFFICES ASSUME NEW x \in flights'
               PROVE  \E j \in Kinds : x = Flight(j, form) /\ Ready(j, form) /\ ~lookups'[j].timer
    BY <1>1 DEF FlightsMatch
  <2>1. CASE x = Flight(k, form)
    BY <1>1, <1>3, <2>1
  <2>2. CASE x \in flights
    <3>1. PICK j \in Kinds : x = Flight(j, form) /\ Ready(j, form) /\ ~lookups[j].timer
      BY <2>2 DEF FormInv, FlightsMatch
    <3> QED
      BY <1>1, <1>3, <3>1
  <2> QED
    BY <1>1, <2>1, <2>2
<1>6. EstimateIsOfFields'
  <2>1. CASE k = "estimate"
    <3>1. estimate # NoEstimate => Replaced
      BY <1>1, <2>1 DEF FormInv, EstimateIsOfFields, Settling
    <3> QED
      BY <1>1, <3>1 DEF EstimateIsOfFields, Replaced
  <2>2. CASE k # "estimate"
    <3>1. Settling' <=> Settling
      BY <1>1, <1>3, <2>2 DEF Settling, Flight, Kinds
    <3> QED
      BY <1>1, <3>1 DEF FormInv, EstimateIsOfFields, Replaced, Key
  <2> QED
    BY <2>1, <2>2
<1> QED
  BY <1>2, <1>4, <1>5, <1>6 DEF FormInv

LEMMA SettledTyped ==
  ASSUME LookupsTyped, NEW k \in Kinds, NEW state \in {"idle", "loading", "ready", "error"},
         Settled(k, state)
  PROVE  LookupsTyped' /\ \A j \in Kinds : lookups'[j].timer = lookups[j].timer
BY DEF LookupsTyped, Settled

LEMMA ModelsKeep == FormInv /\ ModelsFound => FormInv'
<1> SUFFICES ASSUME FormInv, ModelsFound PROVE FormInv'
  OBVIOUS
<1>1. /\ flights' \subseteq flights /\ Settled("models", "ready")
      /\ UNCHANGED <<form, edited, estimate, resetDue, selected, picked>>
  BY DEF ModelsFound, choice
<1>2. LookupsTyped' /\ \A j \in Kinds : lookups'[j].timer = lookups[j].timer
  BY <1>1, SettledTyped DEF FormInv, Kinds
<1>3. SelectionIsOfEstimate'
  BY <1>1 DEF FormInv, SelectionIsOfEstimate, Flushed
<1> QED
  BY <1>1, <1>2, <1>3, LookupsKeep

\* The default of the model takes the place of a revision that the user has not typed.
LEMMA RevisionsKeep == FormInv /\ RevisionsFound => FormInv'
<1> SUFFICES ASSUME FormInv, RevisionsFound PROVE FormInv'
  OBVIOUS
<1>1. PICK x \in flights :
        /\ x.kind = "revisions"
        /\ LET f == IF edited THEN form ELSE [form EXCEPT !.revision = DefaultOf[x.of[2]]]
               changed == IF f = form THEN {} ELSE {"estimate"}
           IN  /\ form' = f
               /\ flights' = AbortedFlights(changed) \ {x}
               /\ lookups' = [k \in Kinds |->
                    CASE k = "revisions" -> [lookups[k] EXCEPT !.state = "ready"]
                      [] k \in changed /\ Ready(k, f) -> [lookups[k] EXCEPT !.timer = TRUE]
                      [] OTHER -> lookups[k]]
  BY DEF RevisionsFound
<1>2. UNCHANGED <<edited, estimate, resetDue, selected, picked>>
  BY DEF RevisionsFound, choice
<1>3. x = Flight("revisions", form) /\ form.id \in FormIds /\ x.of[2] = form.id
  <2>1. PICK k \in Kinds : x = Flight(k, form) /\ Ready(k, form)
    BY DEF FormInv, FlightsMatch
  <2>2. k = "revisions"
    BY <1>1, <2>1 DEF Flight
  <2>3. form.id \in FormIds
    BY <2>1, <2>2 DEF Ready
  <2>4. x.of = Deps("revisions", form)
    BY <2>1, <2>2 DEF Flight
  <2> QED
    BY <2>1, <2>2, <2>3, <2>4, DepsOf
<1>4. form \in Form /\ edited \in BOOLEAN
  BY DEF FormInv, FieldsTyped
<1>5. SelectionIsOfEstimate' /\ EstimateShaped'
  BY <1>2 DEF FormInv, SelectionIsOfEstimate, EstimateShaped, Flushed
<1>6. CASE form' = form
  <2>1. /\ flights' \subseteq flights
        /\ lookups' = [lookups EXCEPT !["revisions"].state = "ready"]
    BY <1>1, <1>6 DEF AbortedFlights, Kinds, FormInv, LookupsTyped
  <2>2. LookupsTyped' /\ \A j \in Kinds : lookups'[j].timer = lookups[j].timer
    BY <2>1, SettledTyped DEF FormInv, Kinds, Settled
  <2> QED
    BY <1>2, <1>5, <1>6, <2>1, <2>2, LookupsKeep
<1>7. CASE form' # form
  <2> DEFINE f == [form EXCEPT !.revision = DefaultOf[form.id]]
  <2>1. /\ ~edited /\ form' = f
        /\ flights' = AbortedFlights({"estimate"}) \ {x}
        /\ lookups' = [k \in Kinds |->
             CASE k = "revisions" -> [lookups[k] EXCEPT !.state = "ready"]
               [] k \in {"estimate"} /\ Ready(k, f) -> [lookups[k] EXCEPT !.timer = TRUE]
               [] OTHER -> lookups[k]]
    BY <1>1, <1>3, <1>7
  <2>2. /\ f \in Form /\ f.provider = form.provider /\ f.id = form.id
        /\ f.revision = DefaultOf[form.id] /\ f.routing = form.routing
    BY <1>3, <1>4, RevisionsTyped DEF Form
  <2>3. f.revision # form.revision
    BY <1>4, <1>7, <2>1 DEF Form
  <2> HIDE DEF f
  <2>4. \A k \in Kinds \ {"estimate"} : Deps(k, f) = Deps(k, form)
    BY <2>2 DEF Kinds, Deps
  <2>5. ASSUME NEW k \in Kinds
        PROVE  /\ lookups'[k] \in [state : {"idle", "loading", "ready", "error"}, timer : BOOLEAN]
               /\ k # "estimate" => lookups'[k].timer = lookups[k].timer
               /\ lookups'[k].timer => lookups[k].timer \/ Ready(k, f)
    <3>1. lookups[k] \in [state : {"idle", "loading", "ready", "error"}, timer : BOOLEAN]
      BY DEF FormInv, LookupsTyped
    <3>2. CASE k = "revisions"
      BY <2>1, <3>1, <3>2
    <3>3. CASE k = "estimate" /\ Ready(k, f)
      BY <2>1, <3>1, <3>3
    <3>4. CASE k # "revisions" /\ ~(k = "estimate" /\ Ready(k, f))
      BY <2>1, <3>1, <3>4
    <3> QED
      BY <3>2, <3>3, <3>4
  <2>6. FieldsTyped' /\ LookupsTyped'
    BY <1>2, <1>4, <2>1, <2>2, <2>5 DEF FieldsTyped, LookupsTyped
  <2>7. \A k \in Kinds : Ready(k, form) => Ready(k, f)
    BY <2>2 DEF Kinds, Ready
  <2>8. TimersReady'
    BY <2>1, <2>5, <2>7 DEF FormInv, TimersReady
  <2>9. FlightsMatch'
    <3> SUFFICES ASSUME NEW y \in flights'
                 PROVE  \E k \in Kinds : y = Flight(k, f) /\ Ready(k, f) /\ ~lookups'[k].timer
      BY <2>1 DEF FlightsMatch
    <3>1. PICK k \in Kinds : y = Flight(k, form) /\ Ready(k, form) /\ ~lookups[k].timer
      BY <2>1 DEF FormInv, FlightsMatch, AbortedFlights
    <3>2. k # "estimate"
      BY <2>1, <3>1 DEF AbortedFlights, Flight
    <3> QED
      BY <2>4, <2>5, <2>7, <3>1, <3>2 DEF Flight
  <2>10. RevisionKnown'
    BY <1>3, <2>1, <2>2 DEF RevisionKnown
  <2>11. EstimateIsOfFields'
    <3> SUFFICES ASSUME estimate # NoEstimate PROVE Replaced'
      BY <1>2 DEF EstimateIsOfFields
    <3>1. ~Replaced
      BY <1>4, <2>1, <2>2, <2>3 DEF Replaced
    <3>2. estimate.of = Key
      BY <3>1 DEF FormInv, EstimateIsOfFields
    <3>3. estimate.of[3] = form.revision
      BY <3>2, DepsOf DEF Key
    <3> QED
      BY <1>2, <1>3, <2>1, <2>2, <2>3, <3>3 DEF Replaced
  <2> QED
    BY <1>5, <2>6, <2>8, <2>9, <2>10, <2>11 DEF FormInv
<1> QED
  BY <1>6, <1>7

LEMMA EstimatedKeep == FormInv /\ Estimated => FormInv'
<1> SUFFICES ASSUME FormInv, Estimated PROVE FormInv'
  OBVIOUS
<1>1. PICK x \in flights, body \in Estimates :
        /\ x.kind = "estimate" /\ flights' = flights \ {x}
        /\ SetEstimate([of |-> x.of, body |-> body])
  BY DEF Estimated
<1>2. Settled("estimate", "ready") /\ UNCHANGED <<form, edited>>
  BY DEF Estimated
<1>3. LookupsTyped' /\ \A j \in Kinds : lookups'[j].timer = lookups[j].timer
  BY <1>2, SettledTyped DEF FormInv, Kinds
<1>4. x = Flight("estimate", form) /\ ~lookups["estimate"].timer
  BY <1>1 DEF FormInv, FlightsMatch, Flight, Kinds
<1> DEFINE e == [of |-> Deps("estimate", form), body |-> body]
<1>5. estimate' = e /\ SetEstimate(e)
  BY <1>1, <1>4 DEF SetEstimate, Flight
<1>6. e.of[3] = form.revision /\ e # NoEstimate
  BY DepsOf, Estimated4
<1>7. estimate # NoEstimate => Replaced
  BY <1>1, <1>4 DEF FormInv, EstimateIsOfFields, Settling
<1>8. estimate # NoEstimate => e.of[3] # estimate.of[3]
  BY <1>6, <1>7 DEF Replaced
<1>9. SelectionIsOfEstimate'
  <2>1. Flushed
    BY DEF Estimated
  <2> QED
    BY <1>5, <1>8, <2>1, SelectionGoes
<1>10. (FieldsTyped /\ TimersReady /\ FlightsMatch /\ RevisionKnown)'
  BY <1>1, <1>2, <1>3
     DEF FormInv, FieldsTyped, TimersReady, FlightsMatch, RevisionKnown
<1>11. EstimateShaped' /\ SelectionIsOfEstimate'
  BY <1>5, <1>9 DEF FormInv, FieldsTyped, EstimateShaped
<1>12. EstimateIsOfFields'
  <2>1. ~Settling'
    BY <1>1, <1>2, <1>3, <1>4 DEF Settling, Kinds
  <2> QED
    BY <1>2, <1>5, <2>1 DEF EstimateIsOfFields, Key
<1> QED
  BY <1>3, <1>10, <1>11, <1>12 DEF FormInv

LEMMA BreaksKeep == FormInv /\ (LookupRefused \/ LookupTimesOut) => FormInv'
<1> SUFFICES ASSUME FormInv, LookupRefused \/ LookupTimesOut PROVE FormInv'
  OBVIOUS
<1>1. PICK x \in flights, cause \in {"ApiError", "TimeoutError"} : LookupBreaks(x, cause)
  BY DEF LookupRefused, LookupTimesOut
<1>2. /\ flights' = flights \ {x} /\ Settled(x.kind, "error")
      /\ IF x.kind = "estimate" THEN SetEstimate(NoEstimate) ELSE UNCHANGED <<estimate, choice>>
      /\ UNCHANGED <<form, edited>>
  BY <1>1 DEF LookupBreaks, IsAbortError
<1>3. x.kind \in Kinds
  BY DEF FormInv, FlightsMatch, Flight
<1>4. LookupsTyped' /\ \A j \in Kinds : lookups'[j].timer = lookups[j].timer
  BY <1>2, <1>3, SettledTyped DEF FormInv
<1>5. CASE x.kind = "estimate"
  <2>1. estimate' = NoEstimate /\ SelectionIsOfEstimate'
    <3>1. Flushed
      BY <1>1 DEF LookupBreaks
    <3> QED
      BY <1>2, <1>5, <3>1, SelectionGoes DEF SetEstimate
  <2>2. (FieldsTyped /\ TimersReady /\ FlightsMatch /\ RevisionKnown)'
    BY <1>2, <1>4 DEF FormInv, FieldsTyped, TimersReady, FlightsMatch, RevisionKnown
  <2> QED
    BY <1>4, <2>1, <2>2 DEF FormInv, EstimateShaped, EstimateIsOfFields
<1>6. CASE x.kind # "estimate"
  <2>1. SelectionIsOfEstimate'
    BY <1>2, <1>6 DEF FormInv, SelectionIsOfEstimate, choice, Flushed
  <2> QED
    BY <1>2, <1>4, <1>6, <2>1, LookupsKeep
<1> QED
  BY <1>5, <1>6

-----------------------------------------------------------------------------
(* Files are chosen; the form is sent and left *)

LEMMA EstimateTyped ==
  ASSUME FormInv, estimate # NoEstimate
  PROVE  /\ estimate.body \in Estimates
         /\ \A v \in estimate.body.variants : v \subseteq estimate.body.files
<1>1. estimate.body \in Estimates
  BY DEF FormInv, EstimateShaped
<1> QED
  BY <1>1, NewDownloadAssumption

LEMMA ToggledWithin ==
  ASSUME NEW n, NEW files, NEW s, s \subseteq files
  PROVE  ToggleRow(n, files, s) \subseteq files
BY DEF ToggleRow, FilesUnder

LEMMA ChooseKeeps ==
  ASSUME FormInv, NEW paths, Choose(paths), estimate # NoEstimate,
         paths \subseteq estimate.body.files, estimate' = estimate
  PROVE  SelectionIsOfEstimate'
BY DEF Choose, SelectionIsOfEstimate

LEMMA PicksKeep ==
  FormInv /\ (SwitchSelectFiles \/ ChooseVariant \/ ChooseFiles \/ LookAround) => FormInv'
<1> SUFFICES ASSUME FormInv, SwitchSelectFiles \/ ChooseVariant \/ ChooseFiles \/ LookAround
             PROVE  FormInv'
  OBVIOUS
<1>1. /\ UNCHANGED <<form, edited, lookups, flights, estimate, resetDue>>
      /\ estimate # NoEstimate /\ Flushed
  BY DEF SwitchSelectFiles, ChooseVariant, ChooseFiles, LookAround, Picks, Reviewed, SpendForm
<1>2. SelectionIsOfEstimate'
  <2>1. CASE SwitchSelectFiles
    <3>1. CASE choosing
      BY <1>1, <2>1, <3>1, ChooseKeeps DEF SwitchSelectFiles
    <3>2. CASE ~choosing
      BY <1>1, <2>1, <3>2 DEF SwitchSelectFiles, FormInv, SelectionIsOfEstimate, Flushed
    <3> QED
      BY <3>1, <3>2
  <2>2. CASE ChooseVariant
    BY <1>1, <2>2, ChooseKeeps, EstimateTyped DEF ChooseVariant
  <2>3. CASE ChooseFiles
    <3>1. selected \subseteq estimate.body.files
      BY <1>1 DEF FormInv, SelectionIsOfEstimate
    <3>2. PICK paths : Choose(paths) /\ paths \subseteq estimate.body.files
      BY <2>3, <3>1, ToggledWithin DEF ChooseFiles
    <3> QED
      BY <1>1, <3>2, ChooseKeeps
  <2>4. CASE LookAround
    BY <1>1, <2>4 DEF LookAround, FormInv, SelectionIsOfEstimate, Flushed
  <2> QED
    BY <2>1, <2>2, <2>3, <2>4
<1>3. LookupsTyped'
  BY <1>1 DEF FormInv, LookupsTyped
<1> QED
  BY <1>1, <1>2, <1>3, LookupsKeep

LEMMA EndsKeep ==
  FormInv /\ (Submit \/ SubmitReturns \/ SubmitFails \/ LeaveForm) => FormInv'
<1> SUFFICES ASSUME FormInv, Submit \/ SubmitReturns \/ SubmitFails \/ LeaveForm PROVE FormInv'
  OBVIOUS
<1>1. UNCHANGED <<form, edited, estimate, resetDue, selected, picked>>
  BY DEF Submit, SubmitReturns, SubmitFails, LeaveForm, Leave, choice
<1>2. SelectionIsOfEstimate'
  BY <1>1 DEF FormInv, SelectionIsOfEstimate, Flushed
<1>3. CASE UNCHANGED <<lookups, flights>>
  BY <1>1, <1>2, <1>3, LookupsKeep DEF FormInv, LookupsTyped
<1>4. CASE /\ lookups' = [k \in Kinds |-> [state |-> "idle", timer |-> FALSE]]
           /\ flights' = {}
  BY <1>1, <1>2, <1>4, LookupsKeep DEF LookupsTyped
<1> QED
  BY <1>3, <1>4 DEF Submit, SubmitReturns, SubmitFails, LeaveForm, Leave

\* The effect leaves nothing chosen.
LEMMA ResetKeeps == FormInv /\ ResetSelection => FormInv'
<1> SUFFICES ASSUME FormInv, ResetSelection PROVE FormInv'
  OBVIOUS
<1>1. UNCHANGED <<form, edited, lookups, flights, estimate>> /\ selected' = {}
  BY DEF ResetSelection
<1>2. LookupsTyped' /\ SelectionIsOfEstimate'
  BY <1>1 DEF FormInv, LookupsTyped, SelectionIsOfEstimate
<1> QED
  BY <1>1, <1>2, LookupsKeep

-----------------------------------------------------------------------------
LEMMA FormInvInit == FormInit => FormInv
<1> SUFFICES ASSUME FormInit PROVE FormInv
  OBVIOUS
<1>1. FieldsTyped /\ LookupsTyped /\ TimersReady /\ FlightsMatch
  BY RevisionsTyped
     DEF FormInit, FieldsTyped, LookupsTyped, TimersReady, FlightsMatch, Form, FormProviders,
         Routings
<1>2. RevisionKnown
  BY DEF FormInit, RevisionKnown, ProviderRevision
<1> QED
  BY <1>1, <1>2
  DEF FormInit, FormInv, EstimateShaped, EstimateIsOfFields, SelectionIsOfEstimate

LEMMA FormInvStep == FormInv /\ [FormNext]_formVars => FormInv'
<1> SUFFICES ASSUME FormInv, [FormNext]_formVars PROVE FormInv'
  OBVIOUS
<1>1. CASE UNCHANGED formVars
  <2>1. UNCHANGED <<form, edited, lookups, flights, estimate, resetDue, selected, picked>>
    BY <1>1 DEF formVars
  <2>2. SelectionIsOfEstimate' /\ LookupsTyped'
    BY <2>1 DEF FormInv, SelectionIsOfEstimate, LookupsTyped, Flushed
  <2> QED
    BY <2>1, <2>2, LookupsKeep
<1> QED
  BY <1>1, HandlersKeep, TimerKeeps, ModelsKeep, RevisionsKeep, EstimatedKeep, BreaksKeep,
     PicksKeep, EndsKeep, ResetKeeps
  DEF FormNext

LEMMA FormInvariant == FormSpec => []FormInv
<1> QED
  BY FormInvInit, FormInvStep, PTL DEF FormSpec

\* Whether single files are chosen, and where the user is.
PagesTyped == /\ choosing \in BOOLEAN /\ resetDue \in BOOLEAN
              /\ where \in {"form", "tasks", "task", "artifacts"}

LEMMA PagesTypedInit == FormInit => PagesTyped
BY DEF FormInit, PagesTyped

LEMMA PagesStep == FormInv /\ PagesTyped /\ [FormNext]_formVars => PagesTyped'
<1> SUFFICES ASSUME FormInv, PagesTyped, [FormNext]_formVars PROVE PagesTyped'
  OBVIOUS
<1>1. where' = where \/ where' \in {"tasks", "task", "artifacts"}
  BY DEF FormNext, formVars, ChooseProvider, EditId, EditRevision, EditRouting, TimerFires,
         ModelsFound, RevisionsFound, Estimated, LookupRefused, LookupTimesOut, LookupBreaks,
         SwitchSelectFiles, ChooseVariant, ChooseFiles, LookAround, Submit, SubmitReturns,
         SubmitFails, LeaveForm, Leave, ResetSelection
<1>2. choosing' = choosing \/ choosing' = FALSE \/ choosing' = ~choosing
  BY DEF FormNext, formVars, choice, ChooseProvider, EditId, EditRevision, EditRouting,
         SetForm, SetEstimate, ResetSelection, TimerFires, ModelsFound, RevisionsFound,
         Estimated, LookupRefused, LookupTimesOut, LookupBreaks, SwitchSelectFiles,
         ChooseVariant, ChooseFiles, LookAround, Submit, SubmitReturns, SubmitFails,
         LeaveForm, Leave
<1>3. resetDue' = resetDue \/ resetDue' = FALSE \/ \E e : SetEstimate(e)
  BY DEF FormNext, formVars, choice, ChooseProvider, EditId, EditRevision, EditRouting,
         SetForm, ResetSelection, TimerFires, ModelsFound, RevisionsFound,
         Estimated, LookupRefused, LookupTimesOut, LookupBreaks, SwitchSelectFiles,
         ChooseVariant, ChooseFiles, LookAround, Submit, SubmitReturns, SubmitFails,
         LeaveForm, Leave
<1>4. resetDue' \in BOOLEAN
  BY <1>3 DEF PagesTyped, SetEstimate
<1> QED
  BY <1>1, <1>2, <1>4 DEF PagesTyped

LEMMA FormTyped == FormInv /\ PagesTyped => FormTypeOK
BY DEF FormInv, PagesTyped, FieldsTyped, LookupsTyped, FlightsMatch, Flight, EstimateShaped,
       FormTypeOK

\* Every variable keeps its type.
THEOREM FormTypeCorrect == FormSpec => []FormTypeOK
BY PagesTypedInit, PagesStep, FormTyped, FormInvariant, PTL DEF FormSpec

\* Once the effects have run no file is chosen by a click that was made for another model or
\* revision, although the default revision changes the fields under the estimate that is there.
THEOREM SelectionOfEstimate == FormSpec => []SelectionIsOfEstimate
<1>1. FormInv => SelectionIsOfEstimate
  BY DEF FormInv
<1> QED
  BY <1>1, FormInvariant, PTL

\* A revision the user has not typed is never the default of a model entered before: the
\* lookup of its revisions is cleaned up with the change of the model.
THEOREM RevisionOfModel == FormSpec => []RevisionIsOfModel
<1>1. FormInv => RevisionIsOfModel
  BY DEF FormInv, RevisionKnown, RevisionIsOfModel
<1> QED
  BY <1>1, FormInvariant, PTL

LEMMA SubmitsPreflighted ==
  ASSUME FormInv, Submit
  PROVE  SubmittedIsPreflighted'
<1> DEFINE paths == IF choosing THEN selected ELSE AllFiles
<1>1. sent' = [of |-> Key, paths |-> paths, review |-> estimate, picked |-> picked]
  BY DEF Submit
<1>2. /\ estimate # NoEstimate /\ estimate.of = Key /\ estimate.body.downloadable
      /\ StorageSufficient /\ (choosing => ValidSelection)
  BY DEF Submit, CanSubmit, EstimateIsCurrent
<1>3. estimate.body \in Estimates
  BY <1>2, EstimateTyped
<1>4. /\ << >> \notin estimate.body.files
      /\ \A v \in estimate.body.variants : v \subseteq estimate.body.files /\ v # {}
  BY <1>3, NewDownloadAssumption
<1>5. CASE ~choosing
  <2>1. paths = AllFiles /\ Cardinality(estimate.body.files) <= estimate.body.free
    BY <1>2, <1>5 DEF StorageSufficient, TransferSize
  <2> QED
    BY <1>1, <1>2, <2>1 DEF SubmittedIsPreflighted
<1>6. CASE choosing
  <2>1. paths = selected /\ Cardinality(selected) <= estimate.body.free
    BY <1>2, <1>6 DEF StorageSufficient, TransferSize
  <2>2. /\ selected \subseteq estimate.body.files /\ selected # {}
        /\ UsesVariants(estimate.body) => selected \in estimate.body.variants
    BY <1>2, <1>4, <1>6 DEF ValidSelection
  <2>3. selected # AllFiles
    BY <1>4, <2>2 DEF AllFiles
  <2> QED
    BY <1>1, <1>2, <2>1, <2>2, <2>3 DEF SubmittedIsPreflighted
<1> QED
  BY <1>5, <1>6

\* What is sent is what the server was asked about and can make, whatever has changed in the
\* form since the estimate came and whatever changes while the request is under way.
THEOREM SubmittedPreflighted == FormSpec => []SubmittedIsPreflighted
<1>1. FormInit => SubmittedIsPreflighted
  BY DEF FormInit, SubmittedIsPreflighted
<1>2. FormInv /\ SubmittedIsPreflighted /\ [FormNext]_formVars => SubmittedIsPreflighted'
  <2> SUFFICES ASSUME FormInv, SubmittedIsPreflighted, [FormNext]_formVars
               PROVE  SubmittedIsPreflighted'
    OBVIOUS
  <2>1. CASE Submit
    BY <2>1, SubmitsPreflighted
  <2>2. CASE ~Submit
    <3>1. sent' = sent \/ sent' = NotSent
      BY <2>2
      DEF FormNext, formVars, ChooseProvider, EditId, EditRevision, EditRouting, TimerFires,
          ModelsFound, RevisionsFound, Estimated, LookupRefused, LookupTimesOut, LookupBreaks,
          SwitchSelectFiles, ChooseVariant, ChooseFiles, LookAround, SubmitReturns,
          SubmitFails, LeaveForm, ResetSelection
    <3> QED
      BY <3>1 DEF SubmittedIsPreflighted
  <2> QED
    BY <2>1, <2>2
<1> QED
  BY <1>1, <1>2, FormInvariant, PTL DEF FormSpec

-----------------------------------------------------------------------------
(* The filter of the files *)

\* A node is in the tree of its files, and lies in itself.
LEMMA FilesAreNodes ==
  ASSUME NEW files, NEW p \in files, p \in Seq(Range(p)), p # << >>
  PROVE  p \in TreeNodes(files) /\ IsPrefix(p, p)
<1>1. Len(p) \in Nat /\ Len(p) # 0
  BY LenProperties, EmptySeq
<1>2. SubSeq(p, 1, Len(p)) = p
  OBVIOUS
<1>3. Len(p) \in 1 .. Len(p)
  BY <1>1
<1>4. p \in {SubSeq(p, 1, k) : k \in 1 .. Len(p)}
  BY <1>2, <1>3
<1>5. p \in TreeNodes(files)
  BY <1>4 DEF TreeNodes
<1>6. IsPrefix(p, p)
  BY <1>1 DEF IsPrefix
<1> QED
  BY <1>5, <1>6

\* A file that matches has its row, whatever has been folded.
LEMMA MatchesHaveRows ==
  ASSUME NEW files, NEW open, NEW q, q # NoQuery,
         NEW p \in files, p \in Seq(Range(p)), p # << >>, Matches(p, q)
  PROVE  p \in TreeRows(files, open, q)
<1>1. p \in FilterTree(files, q)
  BY FilesAreNodes DEF FilterTree
<1> QED
  BY <1>1 DEF TreeRows, IsOpen

\* FilterShowsMatches: whatever files a model has and whichever folders have been opened, the
\* filter of FileTree.tsx hides no file that matches it.
THEOREM FilterHidesNoMatch == FormSpec => []FilterShowsMatches
<1>1. FormInv => FilterShowsMatches
  <2> SUFFICES ASSUME FormInv, Reviewed, query # NoQuery,
                      NEW p \in estimate.body.files, Matches(p, query)
               PROVE  p \in TreeRows(estimate.body.files, expanded, query)
    BY DEF FilterShowsMatches
  <2>1. estimate.body \in Estimates
    BY EstimateTyped DEF Reviewed
  <2>2. p \in Seq(Range(p)) /\ p # << >>
    BY <2>1, NewDownloadAssumption
  <2> QED
    BY <2>2, MatchesHaveRows
<1> QED
  BY <1>1, FormInvariant, PTL

=============================================================================
