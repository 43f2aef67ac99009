------------------------------ MODULE Session -------------------------------
(* Signing in and out (App, Shell, LoginPage) over the history of the browser tab.  The       *)
(* history changes at once; the page on the screen follows when React commits it, which may   *)
(* be after it has committed other state that changed with it.                                *)
EXTENDS Naturals, Sequences, SequencesExt

CONSTANTS MaxMoves,      \* bound on where the user goes
          MaxSignings    \* bound on the times the user signs in or out, and on bad luck

ASSUME SessionAssumption == MaxMoves \in Nat /\ MaxSignings \in Nat

Nowhere == "nowhere"
Private == {"/tasks", "/tasks/1"}
Paths == Private \cup {"/", "/login", "/integration", "/artifacts"}

VARIABLES session,          \* the server's: is the cookie of the browser good?
          publicArtifacts,  \* a setting of the server
          boot,             \* is the program "loading", "failed" or "open"?
          authenticated,    \* what the program believes
          history,          \* entries of the tab: a path and the path that was sent to /login
          shown,            \* the entry on the screen
          effect,           \* the redirect of the page on the screen has yet to run
          requests,         \* sign-ins and sign-outs on their way
          busy,             \* the buttons that wait: "login", "logout"
          headed,           \* (of the property) where the user was headed when sent to /login
          moves, signings

sessionVars == <<session, publicArtifacts, boot, authenticated, history, shown, effect,
                 requests, busy, headed, moves, signings>>

Entry(path, from) == [path |-> path, from |-> from]

\* The page of an address: a page, or a redirect.
Screen(path, auth) ==
  IF path \in {"/login", "/integration"} THEN path
  ELSE IF path \in Private THEN (IF auth THEN "/tasks" ELSE "toLogin")
  ELSE IF path = "/artifacts"
         THEN (IF auth \/ publicArtifacts THEN path ELSE "toLogin")
  ELSE "toDefault"

Redirects(screen) == screen \in {"toLogin", "toDefault"}

DefaultPath == IF authenticated THEN "/tasks"
               ELSE IF publicArtifacts THEN "/artifacts" ELSE "/login"

SessionInit ==
  /\ session \in BOOLEAN /\ publicArtifacts \in BOOLEAN
  /\ boot = "loading" /\ authenticated = FALSE
  /\ \E p \in Paths : history = << Entry(p, Nowhere) >>
  /\ shown = history[1] /\ effect = FALSE
  /\ requests = {} /\ busy = {} /\ headed = Nowhere
  /\ moves = 0 /\ signings = 0

-----------------------------------------------------------------------------
(* Starting.                                                                *)

\* The answers of /auth/session and /info, both or none.
Bootstrap ==
  /\ boot = "loading"
  /\ \/ /\ boot' = "open" /\ authenticated' = session
        /\ shown' = Last(history)
        /\ effect' = Redirects(Screen(Last(history).path, session))
        /\ UNCHANGED <<moves>>
     \/ /\ moves < MaxMoves /\ moves' = moves + 1
        /\ boot' = "failed"
        /\ UNCHANGED <<authenticated, shown, effect>>
  /\ UNCHANGED <<session, publicArtifacts, history, requests, busy, headed, signings>>

\* The user reloads, presses Retry, or types an address: the program starts again, and
\* nobody waits for the answers of the one before.
Start(entries) ==
  /\ history' = entries
  /\ boot' = "loading" /\ authenticated' = FALSE /\ effect' = FALSE
  /\ shown' = Last(entries)
  /\ requests' = {[r EXCEPT !.heard = FALSE] : r \in {q \in requests : q.stage = "sent"}}
  /\ busy' = {}
  /\ UNCHANGED <<session, publicArtifacts, signings>>

Reload == boot # "loading" /\ moves < MaxMoves /\ moves' = moves + 1
          /\ Start(history) /\ UNCHANGED headed

TypeAddress ==
  /\ moves < MaxMoves /\ moves' = moves + 1
  /\ \E p \in Paths : Start(Append(history, Entry(p, Nowhere)))
  /\ headed' = Nowhere

-----------------------------------------------------------------------------
(* Going about.                                                             *)

\* The user leaves where he was: answers that come later come to another page.
Left(rs) == {[r EXCEPT !.left = TRUE] : r \in rs}

\* The links of the header, where the page has one, and of the login page.
Links ==
  IF Screen(shown.path, authenticated) = "/login" THEN {"/integration"}
  ELSE {"/artifacts", "/integration"} \cup (IF authenticated THEN {"/tasks"} ELSE {"/login"})

\* Goes to `path`: a link to the address that is shown replaces its entry.
Visited(path) ==
  IF path = shown.path THEN [history EXCEPT ![Len(history)] = Entry(path, Nowhere)]
  ELSE Append(history, Entry(path, Nowhere))

\* (Nobody follows a link in the moment between a change of the history and its commit.)
Follow ==
  /\ boot = "open" /\ shown = Last(history) /\ ~Redirects(Screen(shown.path, authenticated))
  /\ moves < MaxMoves /\ moves' = moves + 1
  /\ \E p \in Links : history' = Visited(p)
  /\ requests' = Left(requests) /\ headed' = Nowhere
  /\ UNCHANGED <<session, publicArtifacts, boot, authenticated, shown, effect, busy, signings>>

Back ==
  /\ boot = "open" /\ shown = Last(history) /\ Len(history) > 1
  /\ moves < MaxMoves /\ moves' = moves + 1
  /\ history' = Front(history)
  /\ requests' = Left(requests) /\ headed' = Nowhere
  /\ UNCHANGED <<session, publicArtifacts, boot, authenticated, shown, effect, busy, signings>>

\* React shows the entry of the history.  A login page that goes away takes its spinner
\* along, and so does the header when the login page, which has none, replaces it.
Commit ==
  /\ boot = "open" /\ shown # Last(history)
  /\ shown' = Last(history)
  /\ effect' = Redirects(Screen(shown'.path, authenticated))
  /\ LET other == (shown.path = "/login") # (shown'.path = "/login")
     IN  /\ busy' = IF other THEN {} ELSE busy
         /\ requests' = IF other THEN {[r EXCEPT !.mounted = FALSE] : r \in requests}
                        ELSE requests
  /\ UNCHANGED <<session, publicArtifacts, boot, authenticated, history, headed, moves,
                 signings>>

\* Bug: the redirect does not say where the user was headed.
SentWithout(path) == Entry("/login", Nowhere)

\* <Navigate to="/login" state={{ from: location }} replace />
SentFrom(path) == Entry("/login", path)

Redirect ==
  /\ boot = "open" /\ effect
  /\ effect' = FALSE
  /\ LET top == Len(history)
         screen == Screen(shown.path, authenticated)
     IN  \/ /\ screen = "toLogin"
            /\ history' = [history EXCEPT ![top] = SentFrom(shown.path)]
            /\ headed' = shown.path
         \/ /\ screen = "toDefault"
            /\ history' = [history EXCEPT ![top] = Entry(DefaultPath, Nowhere)]
            /\ UNCHANGED headed
         \/ /\ ~Redirects(screen) /\ UNCHANGED <<history, headed>>
  /\ UNCHANGED <<session, publicArtifacts, boot, authenticated, shown, requests, busy, moves,
                 signings>>

-----------------------------------------------------------------------------
(* Signing in and out.                                                      *)

\* `heard`: by the program that sent it; `mounted`: the page that sent it is still there.
Request(kind) == [id |-> signings, kind |-> kind, stage |-> "sent", heard |-> TRUE,
                  mounted |-> TRUE, left |-> FALSE, from |-> shown.from, asked |-> headed]

Login ==
  /\ boot = "open" /\ shown.path = "/login" /\ "login" \notin busy
  /\ signings < MaxSignings /\ signings' = signings + 1
  /\ requests' = requests \cup {Request("login")} /\ busy' = busy \cup {"login"}
  /\ UNCHANGED <<session, publicArtifacts, boot, authenticated, history, shown, effect,
                 headed, moves>>

Logout ==
  /\ boot = "open" /\ authenticated /\ "logout" \notin busy
  /\ Screen(shown.path, TRUE) \in {"/tasks", "/artifacts", "/integration"}
  /\ signings < MaxSignings /\ signings' = signings + 1
  /\ requests' = requests \cup {Request("logout")} /\ busy' = busy \cup {"logout"}
  /\ UNCHANGED <<session, publicArtifacts, boot, authenticated, history, shown, effect,
                 headed, moves>>

\* The server does it, or does not: a wrong password, no connection.
Serve ==
  /\ \E r \in requests, stage \in {"done", "refused"} :
       /\ r.stage = "sent"
       /\ requests' = (requests \ {r})
                        \cup (IF r.heard THEN {[r EXCEPT !.stage = stage]} ELSE {})
       /\ session' = IF stage = "done" THEN r.kind = "login" ELSE session
  /\ UNCHANGED <<publicArtifacts, boot, authenticated, history, shown, effect, busy, headed,
                 moves, signings>>

\* navigate(from ?? "/tasks", { replace: true }), in place of whatever is there by now.
LoggedIn(r) ==
  /\ r.kind = "login" /\ r.stage = "done"
  /\ authenticated' = TRUE
  /\ history' = [history EXCEPT ![Len(history)] =
                   Entry(IF r.from = Nowhere THEN "/tasks" ELSE r.from, Nowhere)]

LoggedOut(r) ==
  /\ r.kind = "logout" /\ r.stage = "done"
  /\ authenticated' = FALSE
  /\ history' = Append(history, Entry(IF publicArtifacts THEN "/artifacts" ELSE "/login",
                                      Nowhere))

\* The page with the new state is there before the page of the new address: a redirect of
\* the old page that the new state calls for runs as well.
Answered ==
  /\ boot = "open"
  /\ \E r \in {q \in requests : q.stage # "sent"} :
       /\ \/ LoggedIn(r)
          \/ LoggedOut(r)
          \/ r.stage = "refused" /\ UNCHANGED <<authenticated, history>>
       /\ requests' = requests \ {r}
       /\ busy' = IF r.mounted THEN busy \ {r.kind} ELSE busy
       /\ effect' = (effect \/ Redirects(Screen(shown.path, authenticated')))
       /\ headed' = IF r.stage = "done" THEN Nowhere ELSE headed
  /\ UNCHANGED <<session, publicArtifacts, boot, shown, moves, signings>>

\* The cookie ends; the program does not know.
SessionExpires ==
  /\ session /\ signings < MaxSignings /\ signings' = signings + 1
  /\ session' = FALSE
  /\ UNCHANGED <<publicArtifacts, boot, authenticated, history, shown, effect, requests, busy,
                 headed, moves>>

SessionNext ==
  \/ Bootstrap \/ Reload \/ TypeAddress \/ Follow \/ Back \/ Commit \/ Redirect
  \/ Login \/ Logout \/ Serve \/ Answered \/ SessionExpires

\* React commits and runs effects; the server answers.
SessionFairness ==
  /\ WF_sessionVars(Bootstrap) /\ WF_sessionVars(Commit) /\ WF_sessionVars(Redirect)
  /\ WF_sessionVars(Serve) /\ WF_sessionVars(Answered)

SessionSpec == SessionInit /\ [][SessionNext]_sessionVars /\ SessionFairness

-----------------------------------------------------------------------------
SessionTypeOK ==
  /\ {session, publicArtifacts, authenticated, effect} \subseteq BOOLEAN
  /\ boot \in {"loading", "failed", "open"}
  /\ Len(history) > 0
  /\ \A e \in Range(history) \cup {shown} :
       e.path \in Paths /\ e.from \in Paths \cup {Nowhere}
  /\ \A r \in requests : r.kind \in {"login", "logout"} /\ r.stage \in {"sent", "done", "refused"}
  /\ busy \subseteq {"login", "logout"} /\ headed \in Paths \cup {Nowhere}

\* A user who was sent to the login page, and signs in there without going elsewhere while
\* the server thinks, gets to the page he was headed for; also after a wrong password, a
\* reload of the login page, or a sign-out that raced a page of the tasks.
ReturnsWhereHeaded ==
  [][\A r \in requests :
       (r \notin requests' /\ LoggedIn(r) /\ ~r.left /\ r.asked # Nowhere)
         => Last(history').path = r.asked]_sessionVars

\* The tab comes to rest on a page: no redirect goes round in circles and no button waits.
SessionAtRest ==
  \/ boot = "failed"
  \/ /\ boot = "open" /\ shown = Last(history) /\ busy = {}
     /\ ~Redirects(Screen(shown.path, authenticated))
SessionSettles == <>[]SessionAtRest
=============================================================================
