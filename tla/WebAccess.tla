----------------------------- MODULE WebAccess -----------------------------
(***************************************************************************)
(* Sessions of the web interface: routes/auth.ts with the password and the *)
(* second factor of utils/authSettings.ts and utils/security.ts, and what  *)
(* browsers make of the answers (frontend services/auth.ts,                *)
(* hooks/useAuthSession.ts).  A request is taken in the pieces that the    *)
(* awaits of its handler leave; its answer reaches the browser later, and  *)
(* the browser has several requests under way.                             *)
(***************************************************************************)
EXTENDS Integers, Sequences, FiniteSets

CONSTANTS
    Devices,      \* browsers
    Requests,     \* requests that are under way at a time
    MaxRequests,  \* bound on requests
    MaxEvents     \* bound on failed reads, lost answers, reloads and sessions that run out

AccessAssumption ==
    /\ IsFiniteSet(Devices) /\ IsFiniteSet(Requests)
    /\ MaxRequests \in Nat /\ MaxEvents \in Nat

VARIABLES
    password,   \* the password of the administrator, by its number: 0 while there is none
    sessions,   \* the rows of web_sessions
    enabled,    \* 2fa_enabled
    secret,     \* totp_secret, by its number
    request,    \* the requests
    browser,    \* of each browser: its page and its cookie
    scanned,    \* the secret of the last code that the administrator scanned
    confirmed,  \* the secret that the activation checked
    odd,        \* a read of the settings failed; two requests generated a secret
    count       \* requests, sessions, secrets and events so far
vars == << password, sessions, enabled, secret, request, browser, scanned, confirmed, odd, count >>
accounts == << password, sessions, enabled, secret, confirmed >>

Guarded == {"api", "qr", "activate", "disable", "change", "revoke"}
None == [op |-> "none", dev |-> "none", cookie |-> 0, typed |-> 0, at |-> "done", status |-> 0, got |-> 0]

Init ==
    /\ password = 0 /\ sessions = {} /\ enabled = FALSE /\ secret = 0
    /\ request = [r \in Requests |-> None]
    /\ browser = [d \in Devices |-> [page |-> "checking", cookie |-> 0]]
    /\ scanned = 0 /\ confirmed = 0
    /\ odd = [read |-> FALSE, twice |-> FALSE]
    /\ count = [requests |-> 0, sessions |-> 0, secrets |-> 0, events |-> 0]
-----------------------------------------------------------------------------
At(r, at) == request[r].at = at
To(r, at) == request' = [request EXCEPT ![r].at = at]
Got(r, at, what) == request' = [request EXCEPT ![r].at = at, ![r].got = what]
Reply(r, status) == request' = [request EXCEPT ![r].at = "answer", ![r].status = status]
Event == count.events < MaxEvents /\ count' = [count EXCEPT !.events = @ + 1]
Live(cookie) == \E s \in sessions : s.id = cookie

(* What a page asks.  The administrator types the password or another one, *)
(* and the code of the secret scanned last.                                *)
Loads == {"load"}
LoginForm == {"setup", "login"}
CodeForm == {"totp"}
Settings == Guarded \cup {"logout"}
Asks(page) ==
    CASE page = "checking" -> Loads [] page = "login" -> LoginForm
      [] page = "totp" -> CodeForm [] page = "app" -> Settings

Send(r, d, op) ==
    /\ At(r, "done") /\ count.requests < MaxRequests /\ op \in Asks(browser[d].page)
    /\ \E typed \in {password, 0} :
          /\ op \in {"api", "qr", "revoke", "logout", "load", "activate"} => typed = 0
          /\ request' = [request EXCEPT ![r] =
                [op |-> op, dev |-> d, cookie |-> browser[d].cookie, typed |-> typed, at |-> "check",
                 status |-> 0, got |-> 0]]
    /\ count' = [count EXCEPT !.requests = @ + 1]
    /\ UNCHANGED << accounts, browser, scanned, odd >>
-----------------------------------------------------------------------------
(* requireAuth, and /verify.  A read of the settings that fails looks like *)
(* a server that has not been set up.                                      *)
Admit(r) ==
    /\ At(r, "check") /\ request[r].op \in Guarded \cup {"load"}
    /\ IF password = 0 THEN Reply(r, 428)
       ELSE IF ~Live(request[r].cookie) THEN Reply(r, 401)
       ELSE IF request[r].op \in {"load", "api"} THEN Reply(r, 200)
       ELSE To(r, request[r].op)
    /\ UNCHANGED << accounts, browser, scanned, odd, count >>

ReadFails(r) ==
    /\ At(r, "check") /\ request[r].op \in Guarded \cup {"load", "login"} /\ Event
    /\ Reply(r, 428) /\ odd' = [odd EXCEPT !.read = TRUE]
    /\ UNCHANGED << accounts, browser, scanned >>

\* /setup: one transaction under an advisory lock.
SetUp(r) ==
    /\ At(r, "check") /\ request[r].op = "setup"
    /\ IF password = 0 THEN password' = 1 /\ Got(r, "issue", 1)
                       ELSE Reply(r, 409) /\ UNCHANGED password
    /\ UNCHANGED << sessions, enabled, secret, confirmed, browser, scanned, odd, count >>

Typed(r) == password # 0 /\ request[r].typed = password

\* /login and /verify-totp: the password first.
LogIn(r) ==
    /\ At(r, "check") /\ request[r].op \in {"login", "totp"}
    /\ IF password = 0 /\ request[r].op = "login" THEN Reply(r, 428)
       ELSE IF ~Typed(r) THEN Reply(r, 401)
       ELSE Got(r, IF request[r].op = "login" THEN "factor" ELSE "code", password)
    /\ UNCHANGED << accounts, browser, scanned, odd, count >>

Factor(r) ==
    /\ At(r, "factor") /\ (IF enabled THEN Reply(r, 202) ELSE To(r, "issue"))
    /\ UNCHANGED << accounts, browser, scanned, odd, count >>

\* verifyTOTP.
Matches == secret # 0 /\ scanned = secret
Code(r) ==
    /\ At(r, "code") \/ At(r, "activate")
    /\ \/ Matches /\ Got(r, IF At(r, "code") THEN "issue" ELSE "enable",
                         IF At(r, "code") THEN request[r].got ELSE secret)
       \/ Reply(r, 401)
    /\ UNCHANGED << accounts, browser, scanned, odd, count >>

\* issueSession.
Issue(r) ==
    /\ At(r, "issue") /\ count' = [count EXCEPT !.sessions = @ + 1]
    /\ sessions' = sessions \cup {[id |-> count.sessions + 1, at |-> password]}
    /\ request' = [request EXCEPT ![r].at = "answer", ![r].status = 200,
                                  ![r].cookie = count.sessions + 1]
    /\ UNCHANGED << password, enabled, secret, confirmed, browser, scanned, odd >>
-----------------------------------------------------------------------------
(* The second factor.  A secret that is missing, or that could not be      *)
(* read, is generated and stored when its code is asked for.               *)
QrKnown(r) == IF secret = 0 THEN To(r, "generate") ELSE Got(r, "show", secret)
Qr(r) ==
    /\ At(r, "qr") /\ QrKnown(r)
    /\ UNCHANGED << accounts, browser, scanned, odd, count >>

Unreadable(r) ==
    /\ At(r, "qr") /\ Event /\ To(r, "generate") /\ odd' = [odd EXCEPT !.read = TRUE]
    /\ UNCHANGED << accounts, browser, scanned >>

Generate(r) ==
    /\ At(r, "generate") /\ count' = [count EXCEPT !.secrets = @ + 1]
    /\ secret' = count.secrets + 1 /\ Got(r, "show", count.secrets + 1)
    /\ odd' = [odd EXCEPT !.twice = @ \/ \E q \in Requests \ {r} : At(q, "generate")]
    /\ UNCHANGED << password, sessions, enabled, confirmed, browser, scanned >>

Show(r) ==
    /\ At(r, "show") /\ Reply(r, 200)
    /\ UNCHANGED << accounts, browser, scanned, odd, count >>

Enable(r) ==
    /\ At(r, "enable") /\ enabled' = TRUE /\ confirmed' = request[r].got /\ Reply(r, 200)
    /\ UNCHANGED << password, sessions, secret, browser, scanned, odd, count >>

Disable(r) ==
    \/ /\ At(r, "disable") /\ (IF Typed(r) THEN To(r, "off") ELSE Reply(r, 401))
       /\ UNCHANGED << accounts, browser, scanned, odd, count >>
    \/ /\ At(r, "off") /\ enabled' = FALSE /\ Reply(r, 200)
       /\ UNCHANGED << password, sessions, secret, confirmed, browser, scanned, odd, count >>
-----------------------------------------------------------------------------
Revoked(r) == {}
\* Mutant: a wrong current password is answered like a session that has run out.
Forbidden401 == 401
Forbidden == 403
\* /change-password: one transaction.
Change(r) ==
    /\ At(r, "change")
    /\ IF Typed(r) THEN password' = password + 1 /\ sessions' = Revoked(r) /\ Reply(r, 200)
                   ELSE Reply(r, Forbidden) /\ UNCHANGED << password, sessions >>
    /\ UNCHANGED << enabled, secret, confirmed, browser, scanned, odd, count >>

Revoke(r) ==
    /\ At(r, "revoke") /\ sessions' = {} /\ Reply(r, 200)
    /\ UNCHANGED << password, enabled, secret, confirmed, browser, scanned, odd, count >>

LogOut(r) ==
    /\ At(r, "check") /\ request[r].op = "logout"
    /\ sessions' = {s \in sessions : s.id # request[r].cookie} /\ Reply(r, 200)
    /\ UNCHANGED << password, enabled, secret, confirmed, browser, scanned, odd, count >>

RunsOut ==
    /\ Event /\ \E s \in sessions : sessions' = sessions \ {s}
    /\ UNCHANGED << password, enabled, secret, confirmed, request, browser, scanned, odd >>
-----------------------------------------------------------------------------
(* The browser gets the answer.  401 and 428 of a guarded request mean     *)
(* that the session is over (invalidateForAuthStatus).                     *)
Page(d, page) == browser' = [browser EXCEPT ![d].page = page]
PageAndCookie(d, page, cookie) == browser' = [browser EXCEPT ![d] = [page |-> page, cookie |-> cookie]]

Refused(q) == q.op \in Guarded /\ q.status \in {401, 428} /\ Page(q.dev, "login")
Kept(q) ==
    /\ q.op \in Guarded /\ q.status \notin {401, 428} /\ ~(q.op \in {"change", "revoke"} /\ q.status = 200)
    /\ UNCHANGED browser
SignedOut(q) ==
    /\ q.op \in {"change", "revoke"} => q.status = 200
    /\ q.op \in {"logout", "change", "revoke"}
    /\ PageAndCookie(q.dev, "login", 0)
Loaded(q) == q.op = "load" /\ Page(q.dev, IF q.status = 200 THEN "app" ELSE "login")
Entered(q) ==
    /\ q.op \in {"setup", "login", "totp"}
    /\ CASE q.status = 200 -> PageAndCookie(q.dev, "app", q.cookie)
         [] q.status = 202 -> Page(q.dev, "totp")
         [] OTHER -> UNCHANGED browser

Answer(r) ==
    LET q == request[r] IN
    /\ At(r, "answer") /\ request' = [request EXCEPT ![r] = None]
    /\ Refused(q) \/ Kept(q) \/ SignedOut(q) \/ Loaded(q) \/ Entered(q)
    /\ scanned' = IF q.op = "qr" /\ q.status = 200 THEN q.got ELSE scanned
    /\ UNCHANGED << accounts, odd, count >>

\* The connection fails: signing out ends at the login page all the same.
Lost(r) ==
    /\ request[r].at \in {"check", "answer"} /\ Event
    /\ request' = [request EXCEPT ![r] = None]
    /\ IF request[r].op \in {"logout", "load"} THEN Page(request[r].dev, "login") ELSE UNCHANGED browser
    /\ UNCHANGED << accounts, scanned, odd >>

\* The form of the code goes back to the password.
Back(d) ==
    /\ browser[d].page = "totp" /\ Page(d, "login")
    /\ UNCHANGED << accounts, request, scanned, odd, count >>

Reload(d) ==
    /\ Event /\ browser[d].page # "checking" /\ Page(d, "checking")
    /\ UNCHANGED << accounts, request, scanned, odd >>
-----------------------------------------------------------------------------
Serve(r) ==
    \/ Admit(r) \/ ReadFails(r) \/ SetUp(r) \/ LogIn(r) \/ Factor(r) \/ Code(r) \/ Issue(r)
    \/ Qr(r) \/ Unreadable(r) \/ Generate(r) \/ Show(r) \/ Enable(r) \/ Disable(r)
    \/ Change(r) \/ Revoke(r) \/ LogOut(r)
Next ==
    \/ \E r \in Requests :
          \/ Serve(r) \/ Answer(r) \/ Lost(r)
          \/ \E d \in Devices, op \in Guarded \cup {"load", "setup", "login", "totp", "logout"} :
                Send(r, d, op)
    \/ RunsOut \/ \E d \in Devices : Reload(d) \/ Back(d)
Spec == Init /\ [][Next]_vars
-----------------------------------------------------------------------------
\* Every variable has its type.
TypeOK ==
    /\ password \in Nat /\ enabled \in BOOLEAN /\ secret \in 0..count.secrets
    /\ \A s \in sessions : s.id \in 1..count.sessions /\ s.at \in 1..password
    /\ \A d \in Devices : browser[d].page \in {"checking", "login", "totp", "app"}
    /\ scanned \in 0..count.secrets /\ confirmed \in 0..count.secrets
    /\ \A r \in Requests : request[r].status \in {0, 200, 202, 401, 403, 409, 428}

\* A session was opened under the password of now: a change of the password ends the
\* sessions of all devices.
SessionsEndWithPassword == \A s \in sessions : s.at = password

\* The second factor that is asked for is the one that the administrator's device has
\* confirmed, unless a read failed or two requests generated secrets at a time.
ConfirmedIsAsked == enabled => \/ confirmed = secret \/ odd.read \/ odd.twice

\* The administrator left the page, or the server refused the request.
Asked(r) == request[r].op \in {"change", "revoke", "logout", "load"} /\ request[r].status = 200
Leaves(d) == browser[d].page = "app" /\ browser'[d].page = "login" /\ Live(browser[d].cookie)
Ends(r) == At(r, "answer") /\ request'[r].at = "done"
\* A browser shows the login page although its session is valid only when asked to, after
\* an answer about another cookie, a failed read or a refused code or password of the
\* second factor.
LeavesForReason ==
    \A d \in Devices : Leaves(d) =>
        \/ odd.read
        \/ \E r \in Requests : request[r].dev = d /\
              \/ request[r].op \in {"logout", "load"}
              \/ Ends(r) /\ (Asked(r) \/ request[r].cookie # browser[d].cookie
                              \/ request[r].op \in {"activate", "disable"})

\* authCredentialRejectionContract.test.ts: a wrong password or code keeps the session
\* that the browser has.
CredentialRejectionKeepsSession ==
    [][\A r \in Requests :
          Ends(r) /\ request[r].op \in {"activate", "disable", "change"}
             /\ Live(request[r].cookie) /\ request[r].status # 200 /\ ~odd.read
             /\ request[r].cookie = browser[request[r].dev].cookie
          => browser'[request[r].dev].page = browser[request[r].dev].page]_vars
=============================================================================
