---------------------------- MODULE SessionProofs ----------------------------
(* Proofs about signing in and out, for any number of moves, requests and expiries: where a   *)
(* user gets to who was sent to the login page.                                               *)
EXTENDS Session, SequenceTheorems, TLAPS

Entries == [path : Paths, from : Paths \cup {Nowhere}]

Requests ==
  [id : Nat, kind : {"login", "logout"}, stage : {"sent", "done", "refused"},
   heard : BOOLEAN, mounted : BOOLEAN, left : BOOLEAN,
   from : Paths \cup {Nowhere}, asked : Paths \cup {Nowhere}]

HistoryTyped ==
  /\ history \in Seq(Entries) /\ history # << >> /\ shown \in Entries
  /\ headed \in Paths \cup {Nowhere} /\ signings \in Nat

RequestsTyped == requests \subseteq Requests

\* While a user is headed somewhere, the top of the history is the login page that knows it,
\* and either that is on the screen or the page he was sent away from still is.
HeadedIsKnown ==
  headed # Nowhere =>
    /\ Last(history) = Entry("/login", headed)
    /\ headed \in Private \cup {"/artifacts"}
    /\ shown = Last(history) \/ shown.path = headed

\* A sign-in whose user has not gone elsewhere since leads to where he was headed.
AskedIsFrom(rs) ==
  \A r \in rs : r.kind = "login" /\ ~r.left /\ r.asked # Nowhere => r.from = r.asked

SessionInv == HistoryTyped /\ RequestsTyped /\ HeadedIsKnown /\ AskedIsFrom(requests)

-----------------------------------------------------------------------------
(* Lemmas                                                                   *)

LEMMA EntryTyped ==
  ASSUME NEW p \in Paths, NEW f \in Paths \cup {Nowhere}
  PROVE  Entry(p, f) \in Entries /\ Entry(p, f).path = p /\ Entry(p, f).from = f
BY DEF Entry, Entries

LEMMA LastTyped ==
  ASSUME NEW h \in Seq(Entries), h # << >>
  PROVE  Last(h) \in Entries /\ Len(h) \in 1..Len(h) /\ Last(h) = h[Len(h)]
BY DEF Last

LEMMA LastOfAppend ==
  ASSUME NEW h \in Seq(Entries), NEW e \in Entries
  PROVE  Append(h, e) \in Seq(Entries) /\ Append(h, e) # << >> /\ Last(Append(h, e)) = e
BY DEF Last

LEMMA LastOfReplaced ==
  ASSUME NEW h \in Seq(Entries), h # << >>, NEW e \in Entries
  PROVE  LET g == [h EXCEPT ![Len(h)] = e]
         IN  g \in Seq(Entries) /\ g # << >> /\ Last(g) = e
BY DEF Last

\* No path is the login page that one is sent to from there.
LEMMA PrivateIsNotLogin ==
  /\ "/login" \notin Private \cup {"/artifacts"} /\ "/" \notin Private \cup {"/artifacts"}
  /\ Private \cup {"/artifacts"} \subseteq Paths
  /\ Nowhere \notin Paths /\ {"/login", "/tasks", "/artifacts", "/"} \subseteq Paths
BY DEF Private, Paths, Nowhere

\* Requests that only learn something keep leading where they led.
LEMMA LearnedRequests ==
  ASSUME RequestsTyped, AskedIsFrom(requests), NEW rs,
         \A q \in rs : q \in requests
           \/ \E r \in requests : \/ q = [r EXCEPT !.heard = FALSE]
                                  \/ q = [r EXCEPT !.left = TRUE]
                                  \/ q = [r EXCEPT !.mounted = FALSE]
                                  \/ \E stage \in {"done", "refused"} : q = [r EXCEPT !.stage = stage]
  PROVE  rs \subseteq Requests /\ AskedIsFrom(rs)
<1> SUFFICES ASSUME NEW q \in rs
             PROVE  /\ q \in Requests
                    /\ q.kind = "login" /\ ~q.left /\ q.asked # Nowhere => q.from = q.asked
  BY DEF AskedIsFrom
<1>1. CASE q \in requests
  BY <1>1 DEF RequestsTyped, AskedIsFrom
<1>2. ASSUME NEW r \in requests, \/ q = [r EXCEPT !.heard = FALSE]
                                 \/ q = [r EXCEPT !.left = TRUE]
                                 \/ q = [r EXCEPT !.mounted = FALSE]
                                 \/ \E stage \in {"done", "refused"} : q = [r EXCEPT !.stage = stage]
      PROVE  /\ q \in Requests
             /\ q.kind = "login" /\ ~q.left /\ q.asked # Nowhere => q.from = q.asked
  <2>1. r \in Requests
    BY DEF RequestsTyped
  <2>2. q \in Requests /\ q.kind = r.kind /\ q.from = r.from /\ q.asked = r.asked
    BY <1>2, <2>1 DEF Requests
  <2>3. q.left = r.left \/ q.left = TRUE
    BY <1>2, <2>1 DEF Requests
  <2> QED
    BY <2>2, <2>3 DEF AskedIsFrom
<1> QED
  BY <1>1, <1>2

-----------------------------------------------------------------------------
(* Starting and going about                                                 *)

LEMMA SessionInitKeeps == SessionInit => SessionInv
<1> SUFFICES ASSUME SessionInit PROVE SessionInv
  OBVIOUS
<1>1. PICK p \in Paths : history = << Entry(p, Nowhere) >>
  BY DEF SessionInit
<1>2. Entry(p, Nowhere) \in Entries
  BY EntryTyped
<1>3. HistoryTyped
  BY <1>1, <1>2 DEF SessionInit, HistoryTyped
<1> QED
  BY <1>3 DEF SessionInit, SessionInv, RequestsTyped, HeadedIsKnown, AskedIsFrom

LEMMA BootstrapKeeps == SessionInv /\ Bootstrap => SessionInv'
<1> SUFFICES ASSUME SessionInv, Bootstrap PROVE SessionInv'
  OBVIOUS
<1>1. UNCHANGED <<history, requests, headed, signings>>
  BY DEF Bootstrap
<1>2. shown' = shown \/ shown' = Last(history)
  BY DEF Bootstrap
<1>3. Last(history) \in Entries
  BY LastTyped DEF SessionInv, HistoryTyped
<1> QED
  BY <1>1, <1>2, <1>3 DEF SessionInv, HistoryTyped, RequestsTyped, HeadedIsKnown, AskedIsFrom

LEMMA StartKeeps ==
  ASSUME SessionInv, NEW h \in Seq(Entries), h # << >>, Start(h),
         \/ headed' = Nowhere
         \/ h = history /\ headed' = headed
  PROVE  SessionInv'
<1>1. history' = h /\ shown' = Last(h) /\ signings' = signings
  BY DEF Start
<1>2. requests' = {[r EXCEPT !.heard = FALSE] : r \in {q \in requests : q.stage = "sent"}}
  BY DEF Start
<1>3. requests' \subseteq Requests /\ AskedIsFrom(requests')
  <2> DEFINE rs == {[r EXCEPT !.heard = FALSE] : r \in {q \in requests : q.stage = "sent"}}
  <2>1. \A q \in rs : \E r \in requests : q = [r EXCEPT !.heard = FALSE]
    OBVIOUS
  <2>2. rs \subseteq Requests /\ AskedIsFrom(rs)
    <3> HIDE DEF rs
    <3> QED
      BY <2>1, LearnedRequests DEF SessionInv
  <2> QED
    BY <1>2, <2>2
<1>4. Last(h) \in Entries
  BY LastTyped
<1>5. HistoryTyped'
  BY <1>1, <1>4 DEF SessionInv, HistoryTyped
<1>6. HeadedIsKnown'
  BY <1>1 DEF SessionInv, HeadedIsKnown
<1> QED
  BY <1>3, <1>5, <1>6 DEF SessionInv, RequestsTyped, AskedIsFrom

LEMMA StartsKeep == SessionInv /\ (Reload \/ TypeAddress) => SessionInv'
<1>1. ASSUME SessionInv, Reload PROVE SessionInv'
  BY <1>1, StartKeeps DEF Reload, SessionInv, HistoryTyped
<1>2. ASSUME SessionInv, TypeAddress PROVE SessionInv'
  <2>1. PICK p \in Paths : Start(Append(history, Entry(p, Nowhere)))
    BY <1>2 DEF TypeAddress
  <2>2. headed' = Nowhere /\ Entry(p, Nowhere) \in Entries
    BY <1>2, EntryTyped DEF TypeAddress
  <2>3. Append(history, Entry(p, Nowhere)) \in Seq(Entries)
        /\ Append(history, Entry(p, Nowhere)) # << >>
    BY <1>2, <2>2, LastOfAppend DEF SessionInv, HistoryTyped
  <2> QED
    BY <1>2, <2>1, <2>2, <2>3, StartKeeps
<1> QED
  BY <1>1, <1>2

\* What comes after the user has left comes to another page.
LEMMA LeftKeeps ==
  ASSUME SessionInv
  PROVE  Left(requests) \subseteq Requests /\ AskedIsFrom(Left(requests))
<1>1. \A q \in Left(requests) : \E r \in requests : q = [r EXCEPT !.left = TRUE]
  BY DEF Left
<1> QED
  BY <1>1, LearnedRequests DEF SessionInv

LEMMA LinkIsPath == ASSUME NEW p \in Links PROVE p \in Paths
BY DEF Links, Paths, Private

LEMMA FrontTyped ==
  ASSUME NEW h \in Seq(Entries), Len(h) > 1
  PROVE  Front(h) \in Seq(Entries) /\ Front(h) # << >>
<1>1. Len(h) \in Nat
  OBVIOUS
<1> DEFINE s == SubSeq(h, 1, Len(h) - 1)
<1>2. \A i \in 1 .. Len(h) - 1 : h[i] \in Entries
  BY <1>1
<1>3. s \in Seq(Entries) /\ Len(s) = Len(h) - 1
  BY <1>1, <1>2, SubSeqProperties, SMT
<1>4. Len(s) # Len(<< >>)
  <2>1. Len(<< >>) = 0
    OBVIOUS
  <2> HIDE DEF s
  <2> QED
    BY <1>1, <1>3, <2>1
<1>5. s # << >>
  BY <1>4
<1> QED
  BY <1>3, <1>5 DEF Front

LEMMA GoesKeep == SessionInv /\ (Follow \/ Back) => SessionInv'
<1> SUFFICES ASSUME SessionInv, Follow \/ Back PROVE SessionInv'
  OBVIOUS
<1>1. /\ requests' = Left(requests) /\ headed' = Nowhere
      /\ UNCHANGED <<shown, signings>>
  BY DEF Follow, Back
<1>2. history' \in Seq(Entries) /\ history' # << >>
  <2>1. CASE Follow
    <3>1. PICK p \in Links : history' = Visited(p)
      BY <2>1 DEF Follow
    <3>2. Entry(p, Nowhere) \in Entries
      BY LinkIsPath, EntryTyped
    <3> QED
      BY <3>1, <3>2, LastOfAppend, LastOfReplaced DEF Visited, SessionInv, HistoryTyped
  <2>2. CASE Back
    <3>1. Len(history) > 1 /\ history' = Front(history)
      BY <2>2 DEF Back
    <3> QED
      BY <3>1, FrontTyped DEF SessionInv, HistoryTyped
  <2> QED
    BY <2>1, <2>2
<1>3. HistoryTyped' /\ HeadedIsKnown'
  BY <1>1, <1>2 DEF SessionInv, HistoryTyped, HeadedIsKnown
<1> QED
  BY <1>1, <1>3, LeftKeeps DEF SessionInv, RequestsTyped, AskedIsFrom

LEMMA CommitOfPageKeeps == SessionInv /\ Commit => SessionInv'
<1> SUFFICES ASSUME SessionInv, Commit PROVE SessionInv'
  OBVIOUS
<1>1. shown' = Last(history) /\ UNCHANGED <<history, headed, signings>>
  BY DEF Commit
<1>2. Last(history) \in Entries
  BY LastTyped DEF SessionInv, HistoryTyped
<1>3. HistoryTyped' /\ HeadedIsKnown'
  BY <1>1, <1>2 DEF SessionInv, HistoryTyped, HeadedIsKnown
<1>4. requests' = requests \/ requests' = {[r EXCEPT !.mounted = FALSE] : r \in requests}
  BY DEF Commit
<1>5. \A q \in requests' : q \in requests \/ \E r \in requests : q = [r EXCEPT !.mounted = FALSE]
  BY <1>4
<1>6. requests' \subseteq Requests /\ AskedIsFrom(requests')
  BY <1>5, LearnedRequests DEF SessionInv
<1> QED
  BY <1>3, <1>6 DEF SessionInv, RequestsTyped, AskedIsFrom

\* A redirect to the login page tells it where the user was headed; no other one runs while
\* he is headed somewhere.
LEMMA RedirectKeeps == SessionInv /\ Redirect => SessionInv'
<1> SUFFICES ASSUME SessionInv, Redirect PROVE SessionInv'
  OBVIOUS
<1> DEFINE screen == Screen(shown.path, authenticated)
<1>1. UNCHANGED <<shown, requests, signings>>
  BY DEF Redirect
<1>2. shown.path \in Paths
  BY DEF SessionInv, HistoryTyped, Entries
<1>3. CASE screen = "toLogin"
  <2>1. history' = [history EXCEPT ![Len(history)] = SentFrom(shown.path)]
        /\ headed' = shown.path
    BY <1>3 DEF Redirect, Redirects
  <2>2. SentFrom(shown.path) \in Entries /\ SentFrom(shown.path) = Entry("/login", shown.path)
    BY <1>2, EntryTyped, PrivateIsNotLogin DEF SentFrom
  <2>3. history' \in Seq(Entries) /\ history' # << >> /\ Last(history') = Entry("/login", shown.path)
    BY <2>1, <2>2, LastOfReplaced DEF SessionInv, HistoryTyped
  <2>4. shown.path \in Private \cup {"/artifacts"}
    BY <1>3 DEF Screen
  <2> QED
    BY <1>1, <1>2, <2>1, <2>3, <2>4
    DEF SessionInv, HistoryTyped, HeadedIsKnown, RequestsTyped, AskedIsFrom
<1>4. CASE screen = "toDefault"
  <2>1. history' = [history EXCEPT ![Len(history)] = Entry(DefaultPath, Nowhere)]
        /\ headed' = headed
    BY <1>4 DEF Redirect, Redirects
  <2>2. Entry(DefaultPath, Nowhere) \in Entries
    BY EntryTyped, PrivateIsNotLogin DEF DefaultPath
  <2>3. history' \in Seq(Entries) /\ history' # << >>
    BY <2>1, <2>2, LastOfReplaced DEF SessionInv, HistoryTyped
  <2>4. shown.path \notin Private \cup {"/artifacts", "/login"}
    BY <1>4 DEF Screen
  <2>5. headed = Nowhere
    <3> SUFFICES ASSUME headed # Nowhere PROVE FALSE
      OBVIOUS
    <3>1. Last(history).path = "/login" \/ shown.path = headed
      BY EntryTyped, PrivateIsNotLogin DEF SessionInv, HeadedIsKnown, HistoryTyped
    <3>2. shown = Last(history) \/ shown.path = headed
      BY DEF SessionInv, HeadedIsKnown
    <3>3. headed \in Private \cup {"/artifacts"} /\ Last(history) = Entry("/login", headed)
      BY DEF SessionInv, HeadedIsKnown
    <3>4. Last(history).path = "/login"
      BY <3>3 DEF Entry
    <3> QED
      BY <2>4, <3>2, <3>3, <3>4
  <2> QED
    BY <1>1, <2>1, <2>3, <2>5
    DEF SessionInv, HistoryTyped, HeadedIsKnown, RequestsTyped, AskedIsFrom
<1>5. CASE ~Redirects(screen)
  <2>1. UNCHANGED <<history, headed>>
    BY <1>5 DEF Redirect, Redirects
  <2> QED
    BY <1>1, <2>1 DEF SessionInv, HistoryTyped, HeadedIsKnown, RequestsTyped, AskedIsFrom
<1> QED
  BY <1>3, <1>4, <1>5 DEF Redirects

-----------------------------------------------------------------------------
(* Signing in and out                                                       *)

LEMMA SentKeeps ==
  ASSUME SessionInv, NEW kind \in {"login", "logout"},
         kind = "login" => shown.path = "/login",
         requests' = requests \cup {Request(kind)}, signings' = signings + 1,
         UNCHANGED <<history, shown, headed>>
  PROVE  SessionInv'
<1> DEFINE n == Request(kind)
<1>1. /\ n \in Requests /\ n.kind = kind
      /\ n.from = shown.from /\ n.asked = headed
  BY DEF Request, Requests, SessionInv, HistoryTyped, Entries
<1> HIDE DEF n
<1>2. kind = "login" /\ headed # Nowhere => shown.from = headed
  <2> SUFFICES ASSUME kind = "login", headed # Nowhere PROVE shown.from = headed
    OBVIOUS
  <2>1. shown.path = "/login" /\ headed # "/login"
    BY PrivateIsNotLogin DEF SessionInv, HeadedIsKnown
  <2>2. shown = Entry("/login", headed)
    BY <2>1 DEF SessionInv, HeadedIsKnown
  <2> QED
    BY <2>2 DEF Entry
<1>3. requests' = requests \cup {n}
  BY DEF n
<1>4. RequestsTyped' /\ AskedIsFrom(requests')
  BY <1>1, <1>2, <1>3 DEF SessionInv, RequestsTyped, AskedIsFrom
<1> QED
  BY <1>4 DEF SessionInv, HistoryTyped, HeadedIsKnown, AskedIsFrom

LEMMA ServeKeeps == SessionInv /\ Serve => SessionInv'
<1> SUFFICES ASSUME SessionInv, Serve PROVE SessionInv'
  OBVIOUS
<1>1. PICK r \in requests, stage \in {"done", "refused"} :
        requests' = (requests \ {r}) \cup (IF r.heard THEN {[r EXCEPT !.stage = stage]} ELSE {})
  BY DEF Serve
<1>2. \A q \in requests' : q \in requests \/ q = [r EXCEPT !.stage = stage]
  BY <1>1
<1>3. requests' \subseteq Requests /\ AskedIsFrom(requests')
  BY <1>2, LearnedRequests DEF SessionInv
<1> QED
  BY <1>3 DEF Serve, SessionInv, HistoryTyped, RequestsTyped, HeadedIsKnown, AskedIsFrom

\* An answer replaces the top of the history or adds to it, and then nobody is headed anywhere.
LEMMA AnsweredKeeps == SessionInv /\ Answered => SessionInv'
<1> SUFFICES ASSUME SessionInv, Answered PROVE SessionInv'
  OBVIOUS
<1>1. PICK r \in requests :
        /\ LoggedIn(r) \/ LoggedOut(r) \/ (r.stage = "refused" /\ history' = history)
        /\ requests' = requests \ {r}
        /\ headed' = IF r.stage = "done" THEN Nowhere ELSE headed
  BY DEF Answered
<1>2. UNCHANGED <<shown, signings>>
  BY DEF Answered
<1>3. RequestsTyped' /\ AskedIsFrom(requests')
  BY <1>1 DEF SessionInv, RequestsTyped, AskedIsFrom
<1>4. r.from \in Paths \cup {Nowhere}
  BY DEF SessionInv, RequestsTyped, Requests
<1>5. CASE LoggedIn(r)
  <2> DEFINE e == Entry(IF r.from = Nowhere THEN "/tasks" ELSE r.from, Nowhere)
  <2>1. history' = [history EXCEPT ![Len(history)] = e] /\ headed' = Nowhere
    BY <1>1, <1>5 DEF LoggedIn
  <2>2. e \in Entries
    BY <1>4, EntryTyped, PrivateIsNotLogin
  <2> HIDE DEF e
  <2>3. history' \in Seq(Entries) /\ history' # << >>
    BY <2>1, <2>2, LastOfReplaced DEF SessionInv, HistoryTyped
  <2> QED
    BY <1>2, <1>3, <2>1, <2>3 DEF SessionInv, HistoryTyped, HeadedIsKnown, AskedIsFrom
<1>6. CASE LoggedOut(r)
  <2> DEFINE e == Entry(IF publicArtifacts THEN "/artifacts" ELSE "/login", Nowhere)
  <2>1. history' = Append(history, e) /\ headed' = Nowhere
    BY <1>1, <1>6 DEF LoggedOut
  <2>2. e \in Entries
    BY EntryTyped, PrivateIsNotLogin
  <2> HIDE DEF e
  <2>3. history' \in Seq(Entries) /\ history' # << >>
    BY <2>1, <2>2, LastOfAppend DEF SessionInv, HistoryTyped
  <2> QED
    BY <1>2, <1>3, <2>1, <2>3 DEF SessionInv, HistoryTyped, HeadedIsKnown, AskedIsFrom
<1>7. CASE r.stage = "refused" /\ history' = history
  <2>1. headed' = headed
    BY <1>1, <1>7
  <2> QED
    BY <1>2, <1>3, <1>7, <2>1 DEF SessionInv, HistoryTyped, HeadedIsKnown, AskedIsFrom
<1> QED
  BY <1>1, <1>5, <1>6, <1>7

LEMMA SessionStep == SessionInv /\ [SessionNext]_sessionVars => SessionInv'
<1> SUFFICES ASSUME SessionInv, [SessionNext]_sessionVars PROVE SessionInv'
  OBVIOUS
<1>1. CASE Login
  BY <1>1, SentKeeps DEF Login
<1>2. CASE Logout
  BY <1>2, SentKeeps DEF Logout
<1>3. CASE SessionExpires
  BY <1>3 DEF SessionExpires, SessionInv, HistoryTyped, RequestsTyped, HeadedIsKnown, AskedIsFrom
<1>4. CASE UNCHANGED sessionVars
  BY <1>4 DEF sessionVars, SessionInv, HistoryTyped, RequestsTyped, HeadedIsKnown, AskedIsFrom
<1> QED
  BY <1>1, <1>2, <1>3, <1>4, BootstrapKeeps, StartsKeep, GoesKeep, CommitOfPageKeeps, RedirectKeeps,
     ServeKeeps, AnsweredKeeps DEF SessionNext

-----------------------------------------------------------------------------
\* A user who was sent to the login page, and has not gone elsewhere while the server thought,
\* gets to the page he was headed for, however many moves and requests there were.
THEOREM UsersReturn == SessionSpec => ReturnsWhereHeaded
<1> DEFINE Returned(r) ==
      (r \notin requests' /\ LoggedIn(r) /\ ~r.left /\ r.asked # Nowhere)
        => Last(history').path = r.asked
<1>1. SessionInv /\ [SessionNext]_sessionVars => [\A r \in requests : Returned(r)]_sessionVars
  <2> SUFFICES ASSUME SessionInv, NEW r \in requests, LoggedIn(r), ~r.left, r.asked # Nowhere
               PROVE  Last(history').path = r.asked
    OBVIOUS
  <2> DEFINE e == Entry(IF r.from = Nowhere THEN "/tasks" ELSE r.from, Nowhere)
  <2>1. r.from = r.asked /\ r.asked \in Paths
    BY DEF LoggedIn, SessionInv, RequestsTyped, Requests, AskedIsFrom
  <2>2. history' = [history EXCEPT ![Len(history)] = e]
    BY DEF LoggedIn
  <2>3. e \in Entries /\ e.path = r.asked
    BY <2>1, EntryTyped
  <2> HIDE DEF e
  <2>4. Last(history') = e
    BY <2>2, <2>3, LastOfReplaced DEF SessionInv, HistoryTyped
  <2> QED
    BY <2>3, <2>4
<1>2. SessionSpec => [][\A r \in requests : Returned(r)]_sessionVars
  BY <1>1, SessionInitKeeps, SessionStep, PTL DEF SessionSpec
<1> QED
  BY <1>2 DEF ReturnsWhereHeaded

-----------------------------------------------------------------------------
\* What the program believes, and which of its buttons wait.
TabTyped ==
  /\ session \in BOOLEAN /\ publicArtifacts \in BOOLEAN /\ authenticated \in BOOLEAN
  /\ effect \in BOOLEAN /\ boot \in {"loading", "failed", "open"}
  /\ busy \subseteq {"login", "logout"}

LEMMA TabStep == SessionInv /\ TabTyped /\ [SessionNext]_sessionVars => TabTyped'
<1> SUFFICES ASSUME SessionInv, TabTyped, [SessionNext]_sessionVars PROVE TabTyped'
  OBVIOUS
<1> USE DEF TabTyped
<1>1. \A p, b : Redirects(Screen(p, b)) \in BOOLEAN
  BY DEF Redirects
<1>2. CASE Bootstrap
  BY <1>1, <1>2 DEF Bootstrap
<1>3. CASE Reload \/ TypeAddress
  BY <1>3 DEF Reload, TypeAddress, Start
<1>4. CASE Follow \/ Back
  BY <1>4 DEF Follow, Back
<1>5. CASE Commit
  <2>1. effect' \in BOOLEAN
    BY <1>5 DEF Commit, Redirects
  <2>2. busy' \subseteq busy /\ UNCHANGED <<session, publicArtifacts, authenticated, boot>>
    BY <1>5 DEF Commit
  <2> QED
    BY <2>1, <2>2
<1>6. CASE Redirect
  BY <1>6 DEF Redirect
<1>7. CASE Login \/ Logout
  BY <1>7 DEF Login, Logout
<1>8. CASE Serve
  <2>1. session' \in BOOLEAN
    BY <1>8 DEF Serve
  <2> QED
    BY <1>8, <2>1 DEF Serve
<1>9. CASE Answered
  <2>1. authenticated' \in BOOLEAN
    BY <1>9 DEF Answered, LoggedIn, LoggedOut
  <2>2. effect' \in BOOLEAN
    BY <1>9 DEF Answered
  <2>3. busy' \subseteq busy /\ UNCHANGED <<session, publicArtifacts, boot>>
    BY <1>9 DEF Answered
  <2> QED
    BY <2>1, <2>2, <2>3
<1>10. CASE SessionExpires
  BY <1>10 DEF SessionExpires
<1>11. CASE UNCHANGED sessionVars
  BY <1>11 DEF sessionVars
<1> QED
  BY <1>2, <1>3, <1>4, <1>5, <1>6, <1>7, <1>8, <1>9, <1>10, <1>11 DEF SessionNext

LEMMA TabInit == SessionInit => TabTyped
BY DEF SessionInit, TabTyped

LEMMA SessionTyped == SessionInv /\ TabTyped => SessionTypeOK
<1> SUFFICES ASSUME SessionInv, TabTyped PROVE SessionTypeOK
  OBVIOUS
<1>1. history \in Seq(Entries) /\ history # << >> /\ shown \in Entries
  BY DEF SessionInv, HistoryTyped
<1>2. Len(history) > 0 /\ Range(history) \subseteq Entries
  BY <1>1 DEF Range
<1>3. \A e \in Entries : e.path \in Paths /\ e.from \in Paths \cup {Nowhere}
  BY DEF Entries
<1>4. \A r \in requests : /\ r.kind \in {"login", "logout"}
                          /\ r.stage \in {"sent", "done", "refused"}
  BY DEF SessionInv, RequestsTyped, Requests
<1> QED
  BY <1>1, <1>2, <1>3, <1>4 DEF SessionTypeOK, TabTyped, SessionInv, HistoryTyped

=============================================================================
