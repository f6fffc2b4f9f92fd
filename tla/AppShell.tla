------------------------------ MODULE AppShell ------------------------------
(***************************************************************************)
(* The frame of the web interface: the token (authClient), who is signed   *)
(* in (AuthContext), the guarded routes (App, RequireAuth, LoginScreen),   *)
(* the search for the machine after a sign-in, the toolbar and its         *)
(* password dialog.  Requests are answered in any order, or fail; another  *)
(* tab of the browser signs in and out.  A token is a number, 0 for none.  *)
(* The pages between which only the toolbar moves are one, "programs".     *)
(***************************************************************************)
EXTENDS Naturals, FiniteSets

CONSTANTS MaxSent,     \* bound: requests and timers of one behaviour
          MaxTokens,   \* bound: tokens issued
          MaxAttempts  \* MAX_ATTEMPTS of checkMachines

VARIABLES
  token, tokens,  \* the stored token; tokens issued so far
  status,         \* AuthStatus: "loading", "anon" or "authed"
  closure,        \* the status the token's subscriber was created with
  submitting,     \* LoginScreen
  path, from,     \* the route shown; where the login page returns to
  menu,           \* the toolbar's open part: "none", "drawer", "user", "password"
  pwReq,          \* the password request the open dialog waits for, 0 for none
  hasMachine,     \* whether the Brain has a machine
  machine,        \* machineId is set
  loading,        \* machineLoading
  check, checks,  \* the search that is not cancelled, 0 for none; searches begun
  net, sent       \* requests and timers under way; how many there were

vars == <<token, tokens, status, closure, submitting, path, from, menu, pwReq,
          hasMachine, machine, loading, check, checks, net, sent>>
tokenVars == <<token, tokens, closure>>
search == <<machine, loading, check, checks>>

Pages == {"root", "programs", "onboarding"}

\* rest, with one more request: for search c in its attempt a, or for arg c.
Request(rest, op, c, a) ==
  /\ sent < MaxSent /\ sent' = sent + 1
  /\ net' = rest \union {[n |-> sent + 1, op |-> op, arg |-> c, attempt |-> a, token |-> token']}
Only(rest) == net' = rest /\ UNCHANGED sent

-----------------------------------------------------------------------------
(* App, RequireAuth and LoginScreen: every change may lead to other routes. *)

RequireAuth(p) == IF status' = "anon" THEN "login" ELSE p
LoginRoute == IF status' = "authed" THEN from ELSE "login"
GuardedRoute(p) == IF ~loading' /\ ~machine' THEN "onboarding" ELSE p
OnboardingRoute == IF machine' THEN "root" ELSE "onboarding"
Routes(p) ==
  CASE p = "login" -> LoginRoute
    [] p # "login" /\ status' # "authed" -> RequireAuth(p)
    [] p = "onboarding" /\ status' = "authed" -> OnboardingRoute
    [] OTHER -> GuardedRoute(p)

AppToolbar(p) == p \in {"root", "programs"} /\ status' = "authed" /\ ~loading' /\ machine'

\* Two redirections at most.  A page that is left loses what was open on it.
ShowForm(p, m, req, busy) ==
  /\ path' = Routes(Routes(p))
  /\ from' = CASE path' # "login" -> "root"
               [] path' = "login" /\ p # "login" -> p
               [] OTHER -> from
  /\ IF path' = path /\ AppToolbar(path') THEN menu' = m /\ pwReq' = req
                                          ELSE menu' = "none" /\ pwReq' = 0
  /\ submitting' = (busy /\ path' = "login")
Show(p, m, req) == ShowForm(p, m, req, submitting)
Stay == Show(path, menu, pwReq)

-----------------------------------------------------------------------------
(* AuthContext: what follows from a new status.                            *)

\* Signing in starts a search for the machine; otherwise it is forgotten and a
\* search that runs is cancelled.
SetStatus(st, rest) ==
  /\ status' = st
  /\ CASE st = status -> UNCHANGED search /\ Only(rest)
       [] st = "authed" /\ st # status ->
            /\ checks' = checks + 1 /\ check' = checks + 1
            /\ Request(rest, "machines", checks + 1, 1)
            /\ UNCHANGED <<machine, loading>>
       [] OTHER -> /\ machine' = FALSE /\ loading' = TRUE /\ check' = 0
                   /\ UNCHANGED checks /\ Only(rest)

\* The subscriber of setToken.  It knows the status of its first render only.
Notified(t, rest) ==
  IF t = 0 THEN SetStatus("anon", rest)
  ELSE IF closure = "anon"
  THEN /\ status' = "loading"
       /\ IF status = "loading" THEN UNCHANGED search
          ELSE machine' = FALSE /\ loading' = TRUE /\ check' = 0 /\ UNCHANGED checks
       /\ Request(rest, "me", 0, 0)
  ELSE UNCHANGED <<status, search>> /\ Only(rest)

setToken(t, rest) == token' = t /\ Notified(t, rest)
clearToken(rest) == setToken(0, rest) /\ UNCHANGED <<tokens, closure>>

NewToken == tokens < MaxTokens /\ tokens' = tokens + 1

-----------------------------------------------------------------------------
(* The user                                                                *)

\* LoginScreen's form.
handleSubmit ==
  /\ path = "login" /\ ~submitting
  /\ UNCHANGED <<tokenVars, status, search, hasMachine>>
  /\ Request(net, "login", 0, 0)
  /\ ShowForm(path, menu, pwReq, TRUE)

\* An entry of the drawer.
SideNav(p) == Show(p, "none", 0)
handleSignOut ==
  /\ clearToken(net) /\ Show("login", "none", 0)

Menus ==
  /\ path \in {"root", "programs"} /\ status = "authed" /\ ~loading /\ machine
  /\ UNCHANGED hasMachine
  /\ \/ /\ UNCHANGED <<tokenVars, status, search, net, sent>>
        /\ \/ menu = "none" /\ \E m \in {"drawer", "user", "password"} : Show(path, m, 0)
           \/ menu = "user" /\ Show(path, "password", 0)
           \/ menu = "drawer" /\ \E p \in {"root", "programs"} : SideNav(p)
           \/ menu # "none" /\ pwReq = 0 /\ Show(path, "none", 0)
     \/ menu = "user" /\ handleSignOut

\* The password dialog cannot be closed while it waits.
ChangePassword ==
  /\ menu = "password" /\ pwReq = 0
  /\ UNCHANGED <<tokenVars, status, search, hasMachine>>
  /\ Request(net, "patch", sent + 1, 0)
  /\ Show(path, menu, sent + 1)

\* The onboarding page creates a machine.
Wizard ==
  /\ path = "onboarding" /\ status = "authed" /\ ~\E r \in net : r.op = "create"
  /\ UNCHANGED <<tokenVars, status, search, hasMachine>>
  /\ Request(net, "create", 0, 0)
  /\ Stay

\* The address bar: the same page of the application without a reload.
Browse ==
  /\ status = "authed"
  /\ UNCHANGED <<tokenVars, status, search, hasMachine, net, sent>>
  /\ \E p \in Pages \ {path} : Show(p, "none", 0)

\* Another tab signs in or out.
OtherTab ==
  /\ \/ token # 0 /\ clearToken(net)
     \/ NewToken /\ setToken(tokens', net) /\ UNCHANGED closure
  /\ UNCHANGED hasMachine
  /\ Stay

-----------------------------------------------------------------------------
(* Answers.  A token the Brain does not take is thrown away, whichever     *)
(* token is stored by then.                                                *)

\* fetchMe, for the mount, the subscriber, the login form or the dialog.
MeAnswered(r, res, rest) ==
  /\ CASE res = "ok" /\ r.op # "refresh" -> UNCHANGED tokenVars /\ SetStatus("authed", rest)
       [] res = "refused" -> clearToken(rest)
       [] res = "error" /\ r.op = "me" -> UNCHANGED tokenVars /\ SetStatus("anon", rest)
       [] OTHER -> UNCHANGED <<tokenVars, status, search>> /\ Only(rest)
  /\ UNCHANGED hasMachine
  /\ ShowForm(path, IF r.op = "refresh" /\ r.arg = pwReq /\ res = "ok" THEN "none" ELSE menu,
              IF r.op = "refresh" /\ r.arg = pwReq THEN 0 ELSE pwReq,
              submitting /\ r.op # "loginMe")

\* postLogin: the token is stored, then the user is fetched.
LoginAnswered(r, res, rest) ==
  /\ IF res = "ok"
     THEN /\ NewToken /\ token' = tokens' /\ UNCHANGED closure
          /\ \E more \in {[n |-> sent + 1, op |-> "loginMe", arg |-> 0, attempt |-> 0, token |-> token']} :
               \* the subscriber's request leaves first
               IF closure = "anon"
               THEN /\ sent + 2 <= MaxSent /\ sent' = sent + 2
                    /\ net' = rest \union {[more EXCEPT !.op = "me"], [more EXCEPT !.n = sent + 2]}
                    /\ status' = "loading"
                    /\ IF status = "loading" THEN UNCHANGED search
                       ELSE machine' = FALSE /\ loading' = TRUE /\ check' = 0 /\ UNCHANGED checks
               ELSE /\ sent < MaxSent /\ sent' = sent + 1 /\ net' = rest \union {more}
                    /\ UNCHANGED <<status, search>>
     ELSE UNCHANGED <<tokenVars, status, search>> /\ Only(rest)
  /\ UNCHANGED hasMachine
  /\ ShowForm(path, menu, pwReq, submitting /\ res = "ok")

\* Mutant of Current: a search does not look whether it is cancelled.
CancelledToo(r) == r = r

Current(r) == r.arg = check

\* The attempt is over; the search may go on.
EndSearch(m, rest) ==
  machine' = m /\ loading' = FALSE /\ Only(rest) /\ UNCHANGED <<check, checks>>

MachinesAnswered(r, res, rest) ==
  /\ CASE res = "refused" -> clearToken(rest)
       [] res = "error" -> UNCHANGED <<tokenVars, status, search>> /\ Request(rest, "timer", r.arg, r.attempt)
       [] res = "ok" /\ ~Current(r) -> UNCHANGED <<tokenVars, status, search>> /\ Only(rest)
       [] OTHER -> /\ UNCHANGED <<tokenVars, status>>
                   /\ IF hasMachine THEN UNCHANGED search /\ Request(rest, "machine", r.arg, r.attempt)
                                    ELSE EndSearch(machine, rest)
  /\ UNCHANGED hasMachine
  /\ Stay

\* With or without its description the machine is taken.
MachineAnswered(r, res, rest) ==
  /\ CASE res = "refused" -> clearToken(rest)
       [] res # "refused" /\ ~Current(r) -> UNCHANGED <<tokenVars, status, search>> /\ Only(rest)
       [] OTHER -> UNCHANGED <<tokenVars, status>> /\ EndSearch(TRUE, rest)
  /\ UNCHANGED hasMachine
  /\ Stay

\* 500 ms later: the next attempt, or the search gives up.
TimerFired(r, rest) ==
  /\ UNCHANGED <<tokenVars, status, hasMachine>>
  /\ CASE ~Current(r) -> UNCHANGED search /\ Only(rest)
       [] Current(r) /\ r.attempt < MaxAttempts ->
            UNCHANGED search /\ Request(rest, "machines", r.arg, r.attempt + 1)
       [] OTHER -> EndSearch(machine, rest)
  /\ Stay

PatchAnswered(r, res, rest) ==
  /\ CASE res = "refused" -> clearToken(rest)
       [] res = "ok" -> UNCHANGED <<tokenVars, status, search>> /\ Request(rest, "refresh", r.arg, 0)
       [] OTHER -> UNCHANGED <<tokenVars, status, search>> /\ Only(rest)
  /\ UNCHANGED hasMachine
  /\ Show(path, menu, IF r.arg = pwReq /\ res # "ok" THEN 0 ELSE pwReq)

\* handleWizardDone, also after the page was left.
handleWizardDone(res, rest) ==
  /\ CASE res = "refused" -> clearToken(rest) /\ UNCHANGED hasMachine
       [] res = "ok" -> /\ hasMachine' = TRUE /\ machine' = TRUE /\ Only(rest)
                        /\ UNCHANGED <<tokenVars, status, loading, check, checks>>
       [] OTHER -> UNCHANGED <<tokenVars, status, search, hasMachine>> /\ Only(rest)
  /\ Stay

\* Only a request with a token succeeds; a password may be wrong.
Results(r) == IF r.op # "login" /\ r.token = 0 THEN {"refused", "error"} ELSE {"ok", "refused", "error"}

Answer ==
  \E r \in net : LET rest == net \ {r} IN
    \/ r.op = "timer" /\ TimerFired(r, rest)
    \/ \E res \in Results(r) :
         \/ r.op \in {"me", "loginMe", "refresh"} /\ MeAnswered(r, res, rest)
         \/ r.op = "login" /\ LoginAnswered(r, res, rest)
         \/ r.op = "machines" /\ MachinesAnswered(r, res, rest)
         \/ r.op = "machine" /\ MachineAnswered(r, res, rest)
         \/ r.op = "patch" /\ PatchAnswered(r, res, rest)
         \/ r.op = "create" /\ handleWizardDone(res, rest)

Init ==
  /\ token \in {0, 1} /\ tokens = token
  /\ status = (IF token = 0 THEN "anon" ELSE "loading") /\ closure = status
  /\ submitting = FALSE /\ path = (IF token = 0 THEN "login" ELSE "root")
  /\ from = "root" /\ menu = "none" /\ pwReq = 0
  /\ hasMachine \in BOOLEAN /\ machine = FALSE /\ loading = TRUE
  /\ check = 0 /\ checks = 0 /\ sent = token
  /\ net = IF token = 0 THEN {}
           ELSE {[n |-> 1, op |-> "me", arg |-> 0, attempt |-> 0, token |-> 1]}

Next == handleSubmit \/ Menus \/ ChangePassword \/ Wizard \/ Browse \/ OtherTab \/ Answer

Spec == Init /\ [][Next]_vars

-----------------------------------------------------------------------------
TypeOK ==
  /\ token \in 0..MaxTokens /\ tokens \in 0..MaxTokens
  /\ status \in {"loading", "anon", "authed"} /\ closure \in {"loading", "anon"}
  /\ path \in Pages \union {"login"} /\ from \in Pages \union {"login"}
  /\ menu \in {"none", "drawer", "user", "password"} /\ pwReq \in 0..MaxSent
  /\ submitting \in BOOLEAN /\ machine \in BOOLEAN /\ loading \in BOOLEAN /\ hasMachine \in BOOLEAN

(* The spinner is shown exactly as long as a search of this sign-in runs,  *)
(* and there is one such search: an earlier one, cancelled by a sign-out,  *)
(* neither hides the spinner of a later one nor keeps it turning.          *)
SpinnerIsSearch ==
  status = "authed" =>
    loading = (Cardinality({r \in net : r.op \in {"machines", "machine", "timer"} /\ r.arg = check}) = 1)
=============================================================================
