------------------------- MODULE MachinePagesProofs -------------------------
(***************************************************************************)
(* The invariants of the pages of the machine: for each part an inductive  *)
(* invariant, that its first states and its steps have it, and that it     *)
(* holds what WebProofs states of the part.  Bounds are used as numbers    *)
(* only, some of them not zero.                                            *)
(***************************************************************************)
EXTENDS MachinePages, Integers, Sequences, FiniteSets,
        FiniteSetTheorems, SequenceTheorems, WellFoundedInduction, TLAPS

-----------------------------------------------------------------------------
(* The shell and sign-in (AppShell)                                        *)

\* What is assumed of its constants.
LEMMA ShellBounds ==
  as_MaxSent \in Nat \ {0} /\ as_MaxTokens \in Nat \ {0} /\ as_MaxAttempts \in Nat
  BY MachinePagesAssumption

\* The requests and timers of a search for the machine.
ShellSearching == {"machines", "machine", "timer"}

\* Who is not signed in searches for nothing.  Of the search of this sign-in
\* one request or timer is under way exactly while the spinner is shown.
ShellSearchInv ==
  /\ as_status # "authed" => as_check = 0 /\ as_loading = TRUE
  /\ as_checks \in Nat /\ as_check \in 0..as_checks
  /\ \A r \in as_net : r.op \in ShellSearching => r.arg \in 1..as_checks
  /\ \A q, r \in as_net :
       /\ q.op \in ShellSearching /\ q.arg = as_check
       /\ r.op \in ShellSearching /\ r.arg = as_check
       => q = r
  /\ as_status = "authed" =>
       (as_loading = TRUE <=> \E r \in as_net : r.op \in ShellSearching /\ r.arg = as_check)
ShellInv == Shell!TypeOK /\ as_sent \in 0..as_MaxSent /\ ShellSearchInv

\* What a step does to the search: nothing; it begins, with a sign-in; it is
\* forgotten; a request or timer of one follows another; it ends.
ShellSame ==
  /\ UNCHANGED <<as_status, as_loading, as_check, as_checks>>
  /\ \A q \in as_net' \ as_net : q.op \notin ShellSearching
  /\ \A q \in as_net \ as_net' : q.op \in ShellSearching => q.arg # as_check
ShellBegins ==
  /\ as_status # "authed" /\ as_status' = "authed" /\ as_loading' = as_loading
  /\ as_checks' = as_checks + 1 /\ as_check' = as_checks + 1
  /\ \E q : /\ q.op \in ShellSearching /\ q.arg = as_checks + 1 /\ q \in as_net'
            /\ \A r \in as_net' : r \in as_net \/ r = q
ShellForgets ==
  /\ as_status' \in {"anon", "loading"} /\ as_check' = 0 /\ as_loading' = TRUE /\ as_checks' = as_checks
  /\ \A q \in as_net' \ as_net : q.op \notin ShellSearching
ShellGoesOn ==
  /\ UNCHANGED <<as_status, as_loading, as_check, as_checks>>
  /\ \E r \in as_net : \E q : /\ r.op \in ShellSearching /\ q.op \in ShellSearching /\ q.arg = r.arg
                                /\ as_net' = (as_net \ {r}) \union {q}
ShellEnds ==
  /\ UNCHANGED <<as_status, as_check, as_checks>> /\ as_loading' = FALSE
  /\ \E r \in as_net : /\ r.op \in ShellSearching /\ r.arg = as_check /\ as_net' = as_net \ {r}
ShellDoes == ShellSame \/ ShellBegins \/ ShellForgets \/ ShellGoesOn \/ ShellEnds

\* None of these leaves a spinner without its search.
LEMMA ShellSearchKept ==
  ASSUME ShellSearchInv, ShellDoes
  PROVE  ShellSearchInv'
<1> USE DEF ShellSearchInv
<1>1. CASE ShellSame
  BY <1>1 DEF ShellSame
<1>2. CASE ShellBegins
  <2>1. PICK q : /\ q.op \in ShellSearching /\ q.arg = as_checks + 1 /\ q \in as_net'
                 /\ \A r \in as_net' : r \in as_net \/ r = q
    BY <1>2 DEF ShellBegins
  <2>2. /\ as_status' = "authed" /\ as_loading' = TRUE
        /\ as_checks' = as_checks + 1 /\ as_check' = as_checks + 1
    BY <1>2 DEF ShellBegins
  <2>3. \A r \in as_net' : r.op \in ShellSearching => r = q \/ r.arg \in 1..as_checks
    BY <2>1
  <2>4. \A r \in as_net' : r.op \in ShellSearching /\ r.arg = as_checks + 1 => r = q
    BY <2>3
  <2>5. \A r \in as_net' : r.op \in ShellSearching => r.arg \in 1..as_checks + 1
    BY <2>1, <2>3
  <2>6. as_checks' \in Nat /\ as_check' \in 0..as_checks'
    BY <2>2
  <2> QED BY <2>1, <2>2, <2>4, <2>5, <2>6
<1>3. CASE ShellForgets
  <2>1. /\ as_status' # "authed" /\ as_check' = 0 /\ as_loading' = TRUE /\ as_checks' = as_checks
        /\ \A q \in as_net' : q.op \in ShellSearching => q \in as_net
    BY <1>3 DEF ShellForgets
  <2>2. \A q \in as_net' : q.op \in ShellSearching => q.arg \in 1..as_checks
    BY <2>1
  <2>3. \A q \in as_net' : q.op \in ShellSearching => q.arg # 0
    BY <2>2
  <2> QED BY <2>1, <2>2, <2>3
<1>4. CASE ShellGoesOn
  <2>1. PICK r \in as_net : \E q : /\ r.op \in ShellSearching /\ q.op \in ShellSearching /\ q.arg = r.arg
                                    /\ as_net' = (as_net \ {r}) \union {q}
    BY <1>4 DEF ShellGoesOn
  <2>3. PICK q : /\ r.op \in ShellSearching /\ q.op \in ShellSearching /\ q.arg = r.arg
                 /\ as_net' = (as_net \ {r}) \union {q}
    BY <2>1
  <2>2. UNCHANGED <<as_status, as_loading, as_check, as_checks>>
    BY <1>4 DEF ShellGoesOn
  <2> QED BY <2>2, <2>3
<1>5. CASE ShellEnds
  <2>1. PICK r \in as_net : r.op \in ShellSearching /\ r.arg = as_check /\ as_net' = as_net \ {r}
    BY <1>5 DEF ShellEnds
  <2>2. UNCHANGED <<as_status, as_check, as_checks>> /\ as_loading' = FALSE
    BY <1>5 DEF ShellEnds
  <2>3. as_status = "authed"
    <3>1. r.arg \in 1..as_checks
      BY <2>1
    <3>2. as_check # 0
      BY <2>1, <3>1
    <3> QED BY <3>2
  <2> QED BY <2>1, <2>2, <2>3
<1> QED BY <1>1, <1>2, <1>3, <1>4, <1>5 DEF ShellDoes

\* A new status: signing in begins a search, anything else forgets it.
LEMMA ShellStatus ==
  ASSUME ShellInv, NEW st \in {"anon", "authed"}, NEW rest \in SUBSET as_net, Shell!SetStatus(st, rest),
         \A q \in as_net \ rest : q.op \notin ShellSearching \/ st = "anon"
  PROVE  /\ ShellDoes /\ as_sent' \in 0..as_MaxSent /\ as_machine' \in BOOLEAN
         /\ as_status' = st /\ as_loading' \in BOOLEAN
<1> USE DEF Shell!search
<1>1. as_machine \in BOOLEAN /\ as_loading \in BOOLEAN /\ as_sent \in 0..as_MaxSent
  BY DEF ShellInv, Shell!TypeOK
<1>2. as_status' = st
  BY DEF Shell!SetStatus
<1>3. CASE st = as_status
  <2>1. UNCHANGED <<as_machine, as_loading, as_check, as_checks, as_sent>> /\ as_net' = rest
    BY <1>3 DEF Shell!SetStatus, Shell!Only
  <2>2. CASE st = "anon"
    <3>1. ShellForgets
      BY <1>2, <1>3, <2>1, <2>2 DEF ShellForgets, ShellInv, ShellSearchInv
    <3> QED BY <1>1, <1>2, <2>1, <3>1 DEF ShellDoes
  <2>3. CASE st # "anon"
    <3>1. ShellSame
      BY <1>2, <1>3, <2>1, <2>3 DEF ShellSame
    <3> QED BY <1>1, <1>2, <2>1, <3>1 DEF ShellDoes
  <2> QED BY <2>2, <2>3
<1>4. CASE st = "authed" /\ st # as_status
  <2>1. /\ as_checks' = as_checks + 1 /\ as_check' = as_checks + 1
        /\ Shell!Request(rest, "machines", as_checks + 1, 1) /\ UNCHANGED <<as_machine, as_loading>>
    BY <1>4 DEF Shell!SetStatus
  <2>2. PICK q : q = [n |-> as_sent + 1, op |-> "machines", arg |-> as_checks + 1, attempt |-> 1, token |-> as_token']
    OBVIOUS
  <2>3. as_sent < as_MaxSent /\ as_sent' = as_sent + 1 /\ as_net' = rest \union {q}
    BY <2>1, <2>2 DEF Shell!Request
  <2>4. q.op \in ShellSearching /\ q.arg = as_checks + 1
    BY <2>2 DEF ShellSearching
  <2>5. ShellBegins
    BY <1>2, <1>4, <2>1, <2>3, <2>4 DEF ShellBegins
  <2>6. as_sent' \in 0..as_MaxSent
    BY <1>1, <2>3, ShellBounds
  <2> QED BY <1>1, <1>2, <2>1, <2>5, <2>6 DEF ShellDoes
<1>5. CASE st = "anon" /\ st # as_status
  <2>1. /\ as_machine' = FALSE /\ as_loading' = TRUE /\ as_check' = 0 /\ as_checks' = as_checks
        /\ as_net' = rest /\ as_sent' = as_sent
    BY <1>5 DEF Shell!SetStatus, Shell!Only
  <2>2. ShellForgets
    BY <1>2, <1>5, <2>1 DEF ShellForgets
  <2> QED BY <1>1, <1>2, <2>1, <2>2 DEF ShellDoes
<1> QED BY <1>3, <1>4, <1>5

\* The token is thrown away, whatever was under way.
LEMMA ShellClears ==
  ASSUME ShellInv, NEW rest \in SUBSET as_net, Shell!clearToken(rest)
  PROVE  /\ ShellDoes /\ as_sent' \in 0..as_MaxSent /\ as_machine' \in BOOLEAN /\ as_loading' \in BOOLEAN
         /\ as_status' = "anon" /\ as_token' = 0 /\ as_tokens' = as_tokens /\ as_closure' = as_closure
<1>1. /\ as_token' = 0 /\ as_tokens' = as_tokens /\ as_closure' = as_closure
      /\ Shell!SetStatus("anon", rest)
  BY DEF Shell!clearToken, Shell!setToken, Shell!Notified
<1> QED BY <1>1, ShellStatus

\* The routes lead to routes.
LEMMA ShellRoutes ==
  ASSUME NEW p \in Shell!Pages \union {"login"}, as_from \in Shell!Pages \union {"login"}
  PROVE  Shell!Routes(p) \in Shell!Pages \union {"login"}
<1>1. CASE p = "login"
  BY <1>1 DEF Shell!Routes, Shell!LoginRoute
<1>2. CASE p # "login" /\ as_status' # "authed"
  BY <1>2 DEF Shell!Routes, Shell!RequireAuth
<1>3. CASE p = "onboarding" /\ as_status' = "authed"
  BY <1>3 DEF Shell!Routes, Shell!OnboardingRoute, Shell!Pages
<1>4. CASE p \notin {"login", "onboarding"} /\ as_status' = "authed"
  BY <1>4 DEF Shell!Routes, Shell!GuardedRoute, Shell!Pages
<1> QED BY <1>1, <1>2, <1>3, <1>4

\* What is shown after a step is of its type.
LEMMA ShellForm ==
  ASSUME ShellInv, NEW p \in Shell!Pages \union {"login"}, NEW m, NEW req, NEW busy,
         m \in {"none", "drawer", "user", "password"}, req \in 0..as_MaxSent,
         Shell!ShowForm(p, m, req, busy)
  PROVE  /\ as_path' \in Shell!Pages \union {"login"} /\ as_from' \in Shell!Pages \union {"login"}
         /\ as_menu' \in {"none", "drawer", "user", "password"} /\ as_pwReq' \in 0..as_MaxSent
         /\ as_submitting' \in BOOLEAN
<1>1. as_from \in Shell!Pages \union {"login"}
  BY DEF ShellInv, Shell!TypeOK
<1>2. PICK q : q = Shell!Routes(p)
  OBVIOUS
<1>3. q \in Shell!Pages \union {"login"}
  BY <1>1, <1>2, ShellRoutes
<1>4. as_path' = Shell!Routes(q)
  BY <1>2 DEF Shell!ShowForm
<1>5. as_path' \in Shell!Pages \union {"login"}
  BY <1>1, <1>3, <1>4, ShellRoutes
<1>6. as_from' \in {"root", p, as_from}
  BY DEF Shell!ShowForm
<1>7. as_menu' \in {m, "none"} /\ as_pwReq' \in {req, 0}
  BY DEF Shell!ShowForm
<1>8. as_submitting' \in BOOLEAN
  BY DEF Shell!ShowForm
<1>9. as_from' \in Shell!Pages \union {"login"}
  BY <1>1, <1>6 DEF Shell!Pages
<1> QED BY ShellBounds, <1>5, <1>7, <1>8, <1>9

\* A step that moves the search so, and shows something, keeps the invariant.
LEMMA ShellKept ==
  ASSUME ShellInv, ShellDoes, as_sent' \in 0..as_MaxSent,
         as_machine' \in BOOLEAN, as_loading' \in BOOLEAN, as_hasMachine' \in BOOLEAN,
         as_status' \in {"loading", "anon", "authed"}, as_closure' = as_closure,
         as_token' \in 0..as_MaxTokens, as_tokens' \in 0..as_MaxTokens,
         NEW p \in Shell!Pages \union {"login"}, NEW m \in {"none", "drawer", "user", "password"},
         NEW req \in 0..as_MaxSent, NEW busy, Shell!ShowForm(p, m, req, busy)
  PROVE  ShellInv'
<1>1. /\ as_path' \in Shell!Pages \union {"login"} /\ as_from' \in Shell!Pages \union {"login"}
      /\ as_menu' \in {"none", "drawer", "user", "password"} /\ as_pwReq' \in 0..as_MaxSent
      /\ as_submitting' \in BOOLEAN
  BY ShellForm
<1>2. as_closure' \in {"loading", "anon"}
  BY DEF ShellInv, Shell!TypeOK
<1>3. Shell!TypeOK'
  <2>1. Shell!Pages' = Shell!Pages
    BY DEF Shell!Pages
  <2> QED BY <1>1, <1>2, <2>1 DEF Shell!TypeOK
<1>4. ShellSearchInv'
  BY ShellSearchKept DEF ShellInv
<1> QED BY <1>3, <1>4 DEF ShellInv

\* At first a stored token is checked, or there is none.
LEMMA ShellFirst ==
  ASSUME Shell!Init
  PROVE  ShellInv
<1> USE ShellBounds DEF Shell!Init
<1>1. as_token \in 0..as_MaxTokens /\ as_tokens \in 0..as_MaxTokens
  OBVIOUS
<1>2. as_sent \in 0..as_MaxSent /\ as_pwReq \in 0..as_MaxSent
  OBVIOUS
<1>3. as_submitting \in BOOLEAN /\ as_machine \in BOOLEAN /\ as_loading \in BOOLEAN /\ as_hasMachine \in BOOLEAN
  OBVIOUS
<1>4. as_status \in {"loading", "anon"} /\ as_closure \in {"loading", "anon"} /\ as_status # "authed"
  OBVIOUS
<1>5. as_path \in Shell!Pages \union {"login"} /\ as_from \in Shell!Pages \union {"login"}
      /\ as_menu = "none"
  BY DEF Shell!Pages
<1>6. Shell!TypeOK
  BY <1>1, <1>2, <1>3, <1>4, <1>5 DEF Shell!TypeOK
<1>7. \A r \in as_net : r.op = "me"
  OBVIOUS
<1>8. ShellSearchInv
  <2>1. as_check = 0 /\ as_checks = 0 /\ as_loading = TRUE
    OBVIOUS
  <2> HIDE DEF Shell!Init
  <2> QED BY <1>4, <1>7, <2>1 DEF ShellSearchInv, ShellSearching
<1> QED BY <1>2, <1>6, <1>8 DEF ShellInv

\* A request that is none of a search.
LEMMA ShellAsks ==
  ASSUME ShellInv, NEW rest \in SUBSET as_net, NEW op, NEW c, NEW a,
         op \notin ShellSearching, Shell!Request(rest, op, c, a)
  PROVE  /\ as_sent' \in 0..as_MaxSent
         /\ \A q \in as_net' \ as_net : q.op \notin ShellSearching
         /\ rest \subseteq as_net' /\ as_sent' = as_sent + 1
<1>1. PICK q : q = [n |-> as_sent + 1, op |-> op, arg |-> c, attempt |-> a, token |-> as_token']
  OBVIOUS
<1>2. as_sent < as_MaxSent /\ as_sent' = as_sent + 1 /\ as_net' = rest \union {q} /\ q.op = op
  BY <1>1 DEF Shell!Request
<1>3. as_sent' \in 0..as_MaxSent
  BY <1>2, ShellBounds DEF ShellInv
<1> QED BY <1>2, <1>3

\* What the user does.
LEMMA ShellUser ==
  ASSUME ShellInv, Shell!handleSubmit \/ Shell!Menus \/ Shell!ChangePassword \/ Shell!Wizard \/ Shell!Browse
  PROVE  ShellInv'
<1> USE DEF Shell!tokenVars, Shell!search
<1>1. /\ as_machine \in BOOLEAN /\ as_loading \in BOOLEAN /\ as_hasMachine \in BOOLEAN
      /\ as_sent \in 0..as_MaxSent /\ as_status \in {"loading", "anon", "authed"}
      /\ as_token \in 0..as_MaxTokens /\ as_tokens \in 0..as_MaxTokens
      /\ as_path \in Shell!Pages \union {"login"} /\ as_menu \in {"none", "drawer", "user", "password"}
      /\ as_pwReq \in 0..as_MaxSent
  BY DEF ShellInv, Shell!TypeOK
<1>2. ASSUME NEW op \in {"login", "patch", "create"}, NEW c, Shell!Request(as_net, op, c, 0),
             UNCHANGED <<as_status, as_machine, as_loading, as_check, as_checks>>
      PROVE  ShellDoes /\ as_sent' \in 0..as_MaxSent
  <2>1. op \notin ShellSearching
    BY DEF ShellSearching
  <2>2. /\ as_sent' \in 0..as_MaxSent /\ as_net \subseteq as_net'
        /\ \A q \in as_net' \ as_net : q.op \notin ShellSearching
    BY <1>2, <2>1, ShellAsks
  <2> QED BY <1>2, <2>2 DEF ShellDoes, ShellSame
<1>3. ASSUME UNCHANGED <<as_token, as_tokens, as_closure, as_status, as_machine, as_loading, as_check,
                         as_checks, as_net, as_sent, as_hasMachine>>,
             NEW p \in Shell!Pages \union {"login"}, NEW m \in {"none", "drawer", "user", "password"},
             Shell!Show(p, m, 0)
      PROVE  ShellInv'
  <2>1. ShellDoes
    BY <1>3 DEF ShellDoes, ShellSame
  <2>2. 0 \in 0..as_MaxSent
    BY ShellBounds
  <2>3. Shell!ShowForm(p, m, 0, as_submitting)
    BY <1>3 DEF Shell!Show
  <2> QED BY <1>1, <1>3, <2>1, <2>2, <2>3, ShellKept
<1>4. CASE Shell!handleSubmit
  <2>1. /\ UNCHANGED <<as_token, as_tokens, as_closure, as_status, as_machine, as_loading, as_check,
                       as_checks, as_hasMachine>>
        /\ Shell!Request(as_net, "login", 0, 0) /\ Shell!ShowForm(as_path, as_menu, as_pwReq, TRUE)
    BY <1>4 DEF Shell!handleSubmit
  <2>2. ShellDoes /\ as_sent' \in 0..as_MaxSent
    BY <1>2, <2>1
  <2> QED BY <1>1, <2>1, <2>2, ShellKept
<1>5. CASE Shell!Menus
  <2>1. CASE Shell!handleSignOut
    <3>1. Shell!clearToken(as_net) /\ Shell!ShowForm("login", "none", 0, as_submitting) /\ as_hasMachine' = as_hasMachine
      BY <1>5, <2>1 DEF Shell!handleSignOut, Shell!Show, Shell!Menus
    <3>2. /\ ShellDoes /\ as_sent' \in 0..as_MaxSent /\ as_machine' \in BOOLEAN /\ as_loading' \in BOOLEAN
          /\ as_status' = "anon" /\ as_token' = 0 /\ as_tokens' = as_tokens /\ as_closure' = as_closure
      BY <3>1, ShellClears
    <3>3. 0 \in 0..as_MaxSent /\ 0 \in 0..as_MaxTokens
      BY ShellBounds
    <3> QED BY <1>1, <3>1, <3>2, <3>3, ShellKept
  <2>2. CASE ~Shell!handleSignOut
    <3>1. UNCHANGED <<as_token, as_tokens, as_closure, as_status, as_machine, as_loading, as_check,
                      as_checks, as_net, as_sent, as_hasMachine>>
      BY <1>5, <2>2 DEF Shell!Menus
    <3>2. \E p \in {as_path, "root", "programs"}, m \in {"none", "drawer", "user", "password"} : Shell!Show(p, m, 0)
      BY <1>5, <2>2 DEF Shell!Menus, Shell!SideNav
    <3>3. {as_path, "root", "programs"} \subseteq Shell!Pages \union {"login"}
      BY <1>1 DEF Shell!Pages
    <3> QED BY <1>3, <3>1, <3>2, <3>3
  <2> QED BY <2>1, <2>2
<1>6. CASE Shell!ChangePassword
  <2>1. PICK n : n = as_sent + 1
    OBVIOUS
  <2>2. /\ UNCHANGED <<as_token, as_tokens, as_closure, as_status, as_machine, as_loading, as_check,
                       as_checks, as_hasMachine>>
        /\ Shell!Request(as_net, "patch", n, 0) /\ Shell!ShowForm(as_path, as_menu, n, as_submitting)
    BY <1>6, <2>1 DEF Shell!ChangePassword, Shell!Show
  <2>3. ShellDoes /\ as_sent' \in 0..as_MaxSent
    BY <1>2, <2>2
  <2>4. n \in 0..as_MaxSent
    BY <2>1, <2>2, <2>3 DEF Shell!Request
  <2> QED BY <1>1, <2>2, <2>3, <2>4, ShellKept
<1>7. CASE Shell!Wizard
  <2>1. /\ UNCHANGED <<as_token, as_tokens, as_closure, as_status, as_machine, as_loading, as_check,
                       as_checks, as_hasMachine>>
        /\ Shell!Request(as_net, "create", 0, 0) /\ Shell!ShowForm(as_path, as_menu, as_pwReq, as_submitting)
    BY <1>7 DEF Shell!Wizard, Shell!Stay, Shell!Show
  <2>2. ShellDoes /\ as_sent' \in 0..as_MaxSent
    BY <1>2, <2>1
  <2> QED BY <1>1, <2>1, <2>2, ShellKept
<1>8. CASE Shell!Browse
  <2>1. PICK p \in Shell!Pages : Shell!Show(p, "none", 0)
    BY <1>8 DEF Shell!Browse
  <2>2. UNCHANGED <<as_token, as_tokens, as_closure, as_status, as_machine, as_loading, as_check,
                    as_checks, as_net, as_sent, as_hasMachine>>
    BY <1>8 DEF Shell!Browse
  <2> QED BY <1>3, <2>1, <2>2
<1> QED BY <1>4, <1>5, <1>6, <1>7, <1>8

\* Another tab signs in or out.
LEMMA ShellOtherTab ==
  ASSUME ShellInv, Shell!OtherTab
  PROVE  ShellInv'
<1> USE DEF Shell!search
<1>1. /\ as_machine \in BOOLEAN /\ as_loading \in BOOLEAN /\ as_hasMachine \in BOOLEAN
      /\ as_sent \in 0..as_MaxSent /\ as_status \in {"loading", "anon", "authed"}
      /\ as_token \in 0..as_MaxTokens /\ as_tokens \in 0..as_MaxTokens
      /\ as_path \in Shell!Pages \union {"login"} /\ as_menu \in {"none", "drawer", "user", "password"}
      /\ as_pwReq \in 0..as_MaxSent
  BY DEF ShellInv, Shell!TypeOK
<1>2. as_hasMachine' = as_hasMachine /\ Shell!ShowForm(as_path, as_menu, as_pwReq, as_submitting)
  BY DEF Shell!OtherTab, Shell!Stay, Shell!Show
<1>3. CASE Shell!clearToken(as_net)
  <2>1. /\ ShellDoes /\ as_sent' \in 0..as_MaxSent /\ as_machine' \in BOOLEAN /\ as_loading' \in BOOLEAN
        /\ as_status' = "anon" /\ as_token' = 0 /\ as_tokens' = as_tokens /\ as_closure' = as_closure
    BY <1>3, ShellClears
  <2>2. 0 \in 0..as_MaxTokens
    BY ShellBounds
  <2> QED BY <1>1, <1>2, <2>1, <2>2, ShellKept
<1>4. CASE Shell!NewToken /\ Shell!setToken(as_tokens', as_net) /\ as_closure' = as_closure
  <2>1. /\ as_tokens < as_MaxTokens /\ as_tokens' = as_tokens + 1 /\ as_token' = as_tokens'
        /\ Shell!Notified(as_tokens', as_net)
    BY <1>4 DEF Shell!NewToken, Shell!setToken
  <2>2. as_token' \in 0..as_MaxTokens /\ as_tokens' \in 0..as_MaxTokens /\ as_tokens' # 0
    BY <1>1, <2>1, ShellBounds
  <2>3. CASE as_closure = "anon"
    <3>1. /\ as_status' = "loading" /\ Shell!Request(as_net, "me", 0, 0)
          /\ IF as_status = "loading" THEN UNCHANGED <<as_machine, as_loading, as_check, as_checks>>
             ELSE as_machine' = FALSE /\ as_loading' = TRUE /\ as_check' = 0 /\ as_checks' = as_checks
      BY <2>1, <2>2, <2>3 DEF Shell!Notified
    <3>2. /\ as_sent' \in 0..as_MaxSent
          /\ \A q \in as_net' \ as_net : q.op \notin ShellSearching
      BY <3>1, ShellAsks DEF ShellSearching
    <3>3. as_check' = 0 /\ as_loading' = TRUE /\ as_checks' = as_checks
      BY <3>1 DEF ShellInv, ShellSearchInv
    <3>4. as_machine' \in BOOLEAN
      BY <1>1, <3>1
    <3>5. ShellDoes
      BY <3>1, <3>2, <3>3 DEF ShellDoes, ShellForgets
    <3> QED BY <1>1, <1>2, <1>4, <2>2, <3>1, <3>2, <3>3, <3>4, <3>5, ShellKept
  <2>4. CASE as_closure # "anon"
    <3>1. UNCHANGED <<as_status, as_machine, as_loading, as_check, as_checks, as_net, as_sent>>
      BY <2>1, <2>2, <2>4 DEF Shell!Notified, Shell!Only
    <3>2. ShellDoes
      BY <3>1 DEF ShellDoes, ShellSame
    <3> QED BY <1>1, <1>2, <1>4, <2>2, <3>1, <3>2, ShellKept
  <2> QED BY <2>3, <2>4
<1> QED BY <1>3, <1>4 DEF Shell!OtherTab

\* What an answer leaves: the token it throws away, or keeps.
ShellAnswered ==
  /\ ShellDoes /\ as_sent' \in 0..as_MaxSent /\ as_machine' \in BOOLEAN /\ as_loading' \in BOOLEAN
  /\ as_hasMachine' \in BOOLEAN /\ as_status' \in {"loading", "anon", "authed"}
  /\ as_token' \in 0..as_MaxTokens /\ as_tokens' \in 0..as_MaxTokens /\ as_closure' = as_closure

\* A refused answer throws the token away.
LEMMA ShellRefused ==
  ASSUME ShellInv, NEW r \in as_net, Shell!clearToken(as_net \ {r}), as_hasMachine' = as_hasMachine
  PROVE  ShellAnswered
<1>1. /\ ShellDoes /\ as_sent' \in 0..as_MaxSent /\ as_machine' \in BOOLEAN /\ as_loading' \in BOOLEAN
      /\ as_status' = "anon" /\ as_token' = 0 /\ as_tokens' = as_tokens /\ as_closure' = as_closure
  <2>1. PICK rest : rest = as_net \ {r}
    OBVIOUS
  <2>2. rest \in SUBSET as_net /\ Shell!clearToken(rest)
    BY <2>1
  <2> QED BY <2>2, ShellClears
<1>2. 0 \in 0..as_MaxTokens
  BY ShellBounds
<1> QED BY <1>1, <1>2 DEF ShellAnswered, ShellInv, Shell!TypeOK

\* An answer that changes neither the token nor the search, and asks for no more.
LEMMA ShellDropped ==
  ASSUME ShellInv, NEW r \in as_net, r.op \in ShellSearching => r.arg # as_check,
         as_net' = as_net \ {r}, as_machine' \in BOOLEAN, as_hasMachine' \in BOOLEAN,
         UNCHANGED <<as_token, as_tokens, as_closure, as_status, as_loading, as_check, as_checks, as_sent>>
  PROVE  ShellAnswered
<1>1. ShellDoes
  BY DEF ShellDoes, ShellSame
<1> QED BY <1>1 DEF ShellAnswered, ShellInv, Shell!TypeOK

\* A search that goes on after an answer, or is over with it.
LEMMA ShellSearches ==
  ASSUME ShellInv, NEW r \in as_net, r.op \in ShellSearching,
         UNCHANGED <<as_token, as_tokens, as_closure, as_status, as_hasMachine, as_check, as_checks>>,
         \/ /\ \E op \in ShellSearching : \E a : Shell!Request(as_net \ {r}, op, r.arg, a)
            /\ UNCHANGED <<as_machine, as_loading>>
         \/ /\ r.arg = as_check /\ as_loading' = FALSE /\ as_machine' \in BOOLEAN
            /\ as_net' = as_net \ {r} /\ as_sent' = as_sent
  PROVE  ShellAnswered
<1>1. /\ as_machine \in BOOLEAN /\ as_loading \in BOOLEAN /\ as_hasMachine \in BOOLEAN
      /\ as_sent \in 0..as_MaxSent /\ as_status \in {"loading", "anon", "authed"}
      /\ as_token \in 0..as_MaxTokens /\ as_tokens \in 0..as_MaxTokens
  BY DEF ShellInv, Shell!TypeOK
<1>2. CASE /\ \E op \in ShellSearching : \E a : Shell!Request(as_net \ {r}, op, r.arg, a)
           /\ UNCHANGED <<as_machine, as_loading>>
  <2>1. PICK op \in ShellSearching : \E a : Shell!Request(as_net \ {r}, op, r.arg, a)
    BY <1>2
  <2>2. PICK a : Shell!Request(as_net \ {r}, op, r.arg, a)
    BY <2>1
  <2>3. PICK q : q = [n |-> as_sent + 1, op |-> op, arg |-> r.arg, attempt |-> a, token |-> as_token']
    OBVIOUS
  <2>4. /\ as_sent < as_MaxSent /\ as_sent' = as_sent + 1 /\ as_net' = (as_net \ {r}) \union {q}
        /\ q.op = op /\ q.arg = r.arg
    BY <2>2, <2>3 DEF Shell!Request
  <2>5. as_sent' \in 0..as_MaxSent
    BY <1>1, <2>4, ShellBounds
  <2>6. ShellDoes
    BY <1>2, <2>4 DEF ShellDoes, ShellGoesOn
  <2> QED BY <1>1, <1>2, <2>5, <2>6 DEF ShellAnswered
<1>3. CASE /\ r.arg = as_check /\ as_loading' = FALSE /\ as_machine' \in BOOLEAN
           /\ as_net' = as_net \ {r} /\ as_sent' = as_sent
  <2>1. ShellDoes
    BY <1>3 DEF ShellDoes, ShellEnds
  <2> QED BY <1>1, <1>3, <2>1 DEF ShellAnswered
<1> QED BY <1>2, <1>3

\* What is shown after an answer: the same page, with the menu or without.
LEMMA ShellAnswerKept ==
  ASSUME ShellInv, ShellAnswered, NEW m \in {"none", as_menu}, NEW req \in {0, as_pwReq}, NEW busy,
         Shell!ShowForm(as_path, m, req, busy)
  PROVE  ShellInv'
<1>1. /\ as_path \in Shell!Pages \union {"login"} /\ as_menu \in {"none", "drawer", "user", "password"}
      /\ as_pwReq \in 0..as_MaxSent /\ 0 \in 0..as_MaxSent
  BY ShellBounds DEF ShellInv, Shell!TypeOK
<1> QED BY <1>1, ShellKept DEF ShellAnswered

\* The answer about the user signs in, signs out or changes nothing.
LEMMA ShellMe ==
  ASSUME ShellInv, NEW r \in as_net, NEW res \in {"ok", "refused", "error"}, r.op \in {"me", "loginMe", "refresh"},
         Shell!MeAnswered(r, res, as_net \ {r})
  PROVE  ShellInv'
<1> USE DEF Shell!tokenVars, Shell!search
<1>1. r.op \notin ShellSearching /\ as_hasMachine' = as_hasMachine
  BY DEF ShellSearching, Shell!MeAnswered
<1>2. PICK rest : rest = as_net \ {r}
  OBVIOUS
<1>3. rest \in SUBSET as_net /\ \A q \in as_net \ rest : q.op \notin ShellSearching
  BY <1>1, <1>2
<1>4. ShellAnswered
  <2>1. CASE \/ res = "ok" /\ r.op # "refresh"
             \/ res = "error" /\ r.op = "me"
    <3>1. PICK st \in {"anon", "authed"} : Shell!SetStatus(st, rest)
      BY <1>2, <2>1 DEF Shell!MeAnswered
    <3>2. UNCHANGED <<as_token, as_tokens, as_closure>>
      BY <2>1 DEF Shell!MeAnswered
    <3>3. /\ ShellDoes /\ as_sent' \in 0..as_MaxSent /\ as_machine' \in BOOLEAN
          /\ as_status' = st /\ as_loading' \in BOOLEAN
      BY <1>3, <3>1, ShellStatus
    <3> QED BY <1>1, <3>2, <3>3 DEF ShellAnswered, ShellInv, Shell!TypeOK
  <2>2. CASE res = "refused"
    <3>1. Shell!clearToken(as_net \ {r})
      BY <2>2 DEF Shell!MeAnswered
    <3> QED BY <1>1, <3>1, ShellRefused
  <2>3. CASE ~(res = "ok" /\ r.op # "refresh") /\ res # "refused" /\ ~(res = "error" /\ r.op = "me")
    <3>1. /\ UNCHANGED <<as_token, as_tokens, as_closure, as_status, as_machine, as_loading, as_check,
                         as_checks, as_sent>>
          /\ as_net' = as_net \ {r}
      BY <2>3 DEF Shell!MeAnswered, Shell!Only
    <3>2. as_machine' \in BOOLEAN /\ as_hasMachine' \in BOOLEAN
      BY <1>1, <3>1 DEF ShellInv, Shell!TypeOK
    <3> QED BY <1>1, <3>1, <3>2, ShellDropped
  <2> QED BY <2>1, <2>2, <2>3
<1>5. \E m \in {"none", as_menu}, req \in {0, as_pwReq} : \E busy : Shell!ShowForm(as_path, m, req, busy)
  <2>1. PICK m, req, busy : /\ m = IF r.op = "refresh" /\ r.arg = as_pwReq /\ res = "ok" THEN "none" ELSE as_menu
                            /\ req = IF r.op = "refresh" /\ r.arg = as_pwReq THEN 0 ELSE as_pwReq
                            /\ busy = (as_submitting /\ r.op # "loginMe")
    OBVIOUS
  <2>2. Shell!ShowForm(as_path, m, req, busy) /\ m \in {"none", as_menu} /\ req \in {0, as_pwReq}
    BY <2>1 DEF Shell!MeAnswered
  <2> QED BY <2>2
<1> QED BY <1>4, <1>5, ShellAnswerKept

\* A sign-in by the form: the token is stored, and the user asked for.
LEMMA ShellLogin ==
  ASSUME ShellInv, NEW r \in as_net, NEW res \in {"ok", "refused", "error"}, r.op = "login",
         Shell!LoginAnswered(r, res, as_net \ {r})
  PROVE  ShellInv'
<1> USE DEF Shell!tokenVars, Shell!search
<1>1. r.op \notin ShellSearching /\ as_hasMachine' = as_hasMachine
  BY DEF ShellSearching, Shell!LoginAnswered
<1>2. as_machine \in BOOLEAN /\ as_hasMachine' \in BOOLEAN /\ as_sent \in 0..as_MaxSent /\ as_tokens \in 0..as_MaxTokens
      /\ as_loading \in BOOLEAN /\ as_status \in {"loading", "anon", "authed"}
  BY <1>1 DEF ShellInv, Shell!TypeOK
<1>3. ShellAnswered
  <2>1. CASE res = "ok"
    <3>1. /\ as_tokens < as_MaxTokens /\ as_tokens' = as_tokens + 1 /\ as_token' = as_tokens' /\ as_closure' = as_closure
      BY <2>1 DEF Shell!LoginAnswered, Shell!NewToken
    <3>2. as_token' \in 0..as_MaxTokens /\ as_tokens' \in 0..as_MaxTokens
      BY <1>2, <3>1, ShellBounds
    <3>3. PICK more : more = [n |-> as_sent + 1, op |-> "loginMe", arg |-> 0, attempt |-> 0, token |-> as_token']
      OBVIOUS
    <3>4. /\ more.op = "loginMe"
          /\ IF as_closure = "anon"
             THEN /\ as_sent + 2 <= as_MaxSent /\ as_sent' = as_sent + 2
                  /\ as_net' = (as_net \ {r}) \union {[more EXCEPT !.op = "me"], [more EXCEPT !.n = as_sent + 2]}
                  /\ as_status' = "loading"
                  /\ IF as_status = "loading" THEN UNCHANGED <<as_machine, as_loading, as_check, as_checks>>
                     ELSE as_machine' = FALSE /\ as_loading' = TRUE /\ as_check' = 0 /\ as_checks' = as_checks
             ELSE /\ as_sent < as_MaxSent /\ as_sent' = as_sent + 1 /\ as_net' = (as_net \ {r}) \union {more}
                  /\ UNCHANGED <<as_status, as_machine, as_loading, as_check, as_checks>>
      BY <2>1, <3>3 DEF Shell!LoginAnswered
    <3>5. CASE as_closure = "anon"
      <4>1. PICK one, two : one = [more EXCEPT !.op = "me"] /\ two = [more EXCEPT !.n = as_sent + 2]
        OBVIOUS
      <4>2. one.op = "me" /\ two.op = "loginMe"
        BY <3>3, <4>1
      <4>3. as_net' = (as_net \ {r}) \union {one, two} /\ as_status' = "loading" /\ as_sent' = as_sent + 2 /\ as_sent + 2 <= as_MaxSent
        BY <3>4, <3>5, <4>1
      <4>4. as_check' = 0 /\ as_loading' = TRUE /\ as_checks' = as_checks /\ as_machine' \in BOOLEAN
        BY <1>2, <3>4, <3>5 DEF ShellInv, ShellSearchInv
      <4>5. \A q \in as_net' \ as_net : q.op \notin ShellSearching
        BY <4>2, <4>3 DEF ShellSearching
      <4>6. ShellDoes
        BY <4>3, <4>4, <4>5 DEF ShellDoes, ShellForgets
      <4>7. as_sent' \in 0..as_MaxSent
        BY <1>2, <4>3, ShellBounds
      <4> QED BY <1>2, <3>1, <3>2, <4>3, <4>4, <4>6, <4>7 DEF ShellAnswered
    <3>6. CASE as_closure # "anon"
      <4>1. /\ as_sent < as_MaxSent /\ as_sent' = as_sent + 1 /\ as_net' = (as_net \ {r}) \union {more}
            /\ UNCHANGED <<as_status, as_machine, as_loading, as_check, as_checks>>
        BY <3>4, <3>6
      <4>2. as_sent' \in 0..as_MaxSent
        BY <1>2, <4>1, ShellBounds
      <4>3. ShellDoes
        BY <1>1, <3>4, <4>1 DEF ShellDoes, ShellSame, ShellSearching
      <4> QED BY <1>2, <3>1, <3>2, <4>1, <4>2, <4>3 DEF ShellAnswered
    <3> QED BY <3>5, <3>6
  <2>2. CASE res # "ok"
    <3>1. /\ UNCHANGED <<as_token, as_tokens, as_closure, as_status, as_machine, as_loading, as_check,
                         as_checks, as_sent>>
          /\ as_net' = as_net \ {r}
      BY <2>2 DEF Shell!LoginAnswered, Shell!Only
    <3>2. as_machine' \in BOOLEAN
      BY <1>2, <3>1
    <3> QED BY <1>1, <1>2, <3>1, <3>2, ShellDropped
  <2> QED BY <2>1, <2>2
<1>4. PICK busy : Shell!ShowForm(as_path, as_menu, as_pwReq, busy)
  BY DEF Shell!LoginAnswered
<1> QED BY <1>3, <1>4, ShellAnswerKept

\* The answers and the timer of a search.
LEMMA ShellFinds ==
  ASSUME ShellInv, NEW r \in as_net, NEW res \in {"ok", "refused", "error"},
         \/ r.op = "timer" /\ Shell!TimerFired(r, as_net \ {r})
         \/ r.op = "machines" /\ Shell!MachinesAnswered(r, res, as_net \ {r})
         \/ r.op = "machine" /\ Shell!MachineAnswered(r, res, as_net \ {r})
  PROVE  ShellInv'
<1> USE DEF Shell!tokenVars, Shell!search
<1>1. r.op \in ShellSearching /\ as_hasMachine' = as_hasMachine
  BY DEF ShellSearching, Shell!TimerFired, Shell!MachinesAnswered, Shell!MachineAnswered
<1>2. as_machine \in BOOLEAN /\ as_hasMachine' \in BOOLEAN /\ TRUE \in BOOLEAN
  BY <1>1 DEF ShellInv, Shell!TypeOK
<1>3. \/ Shell!clearToken(as_net \ {r})
      \/ /\ UNCHANGED <<as_token, as_tokens, as_closure, as_status, as_machine, as_loading, as_check, as_checks, as_sent>>
         /\ as_net' = as_net \ {r} /\ r.arg # as_check
      \/ /\ UNCHANGED <<as_token, as_tokens, as_closure, as_status, as_check, as_checks>>
         /\ \/ /\ \E op \in ShellSearching : \E a : Shell!Request(as_net \ {r}, op, r.arg, a)
               /\ UNCHANGED <<as_machine, as_loading>>
            \/ /\ r.arg = as_check /\ as_loading' = FALSE /\ as_machine' \in {as_machine, TRUE}
               /\ as_net' = as_net \ {r} /\ as_sent' = as_sent
  <2>1. {"timer", "machine", "machines"} \subseteq ShellSearching
    BY DEF ShellSearching
  <2>2. CASE r.op = "timer" /\ Shell!TimerFired(r, as_net \ {r})
    <3>1. CASE ~Shell!Current(r)
      BY <2>2, <3>1 DEF Shell!TimerFired, Shell!Only, Shell!Current
    <3>2. CASE Shell!Current(r) /\ r.attempt < as_MaxAttempts
      <4>1. /\ UNCHANGED <<as_token, as_tokens, as_closure, as_status, as_check, as_checks, as_machine, as_loading>>
            /\ Shell!Request(as_net \ {r}, "machines", r.arg, r.attempt + 1)
        BY <2>2, <3>2 DEF Shell!TimerFired
      <4> QED BY <2>1, <4>1
    <3>3. CASE Shell!Current(r) /\ ~(r.attempt < as_MaxAttempts)
      BY <2>2, <3>3 DEF Shell!TimerFired, Shell!EndSearch, Shell!Only, Shell!Current
    <3> QED BY <3>1, <3>2, <3>3
  <2>3. CASE r.op = "machines" /\ Shell!MachinesAnswered(r, res, as_net \ {r})
    <3>1. CASE res = "refused"
      BY <2>3, <3>1 DEF Shell!MachinesAnswered
    <3>2. CASE res = "error"
      <4>1. /\ UNCHANGED <<as_token, as_tokens, as_closure, as_status, as_check, as_checks, as_machine, as_loading>>
            /\ Shell!Request(as_net \ {r}, "timer", r.arg, r.attempt)
        BY <2>3, <3>2 DEF Shell!MachinesAnswered
      <4> QED BY <2>1, <4>1
    <3>3. CASE res = "ok" /\ ~Shell!Current(r)
      BY <2>3, <3>3 DEF Shell!MachinesAnswered, Shell!Only, Shell!Current
    <3>4. CASE res = "ok" /\ Shell!Current(r) /\ as_hasMachine
      <4>1. /\ UNCHANGED <<as_token, as_tokens, as_closure, as_status, as_check, as_checks, as_machine, as_loading>>
            /\ Shell!Request(as_net \ {r}, "machine", r.arg, r.attempt)
        BY <2>3, <3>4 DEF Shell!MachinesAnswered
      <4> QED BY <2>1, <4>1
    <3>5. CASE res = "ok" /\ Shell!Current(r) /\ ~as_hasMachine
      BY <2>3, <3>5 DEF Shell!MachinesAnswered, Shell!EndSearch, Shell!Only, Shell!Current
    <3> QED BY <3>1, <3>2, <3>3, <3>4, <3>5
  <2>4. CASE r.op = "machine" /\ Shell!MachineAnswered(r, res, as_net \ {r})
    <3>1. CASE res = "refused"
      BY <2>4, <3>1 DEF Shell!MachineAnswered
    <3>2. CASE res # "refused" /\ ~Shell!Current(r)
      BY <2>4, <3>2 DEF Shell!MachineAnswered, Shell!Only, Shell!Current
    <3>3. CASE res # "refused" /\ Shell!Current(r)
      BY <2>4, <3>3 DEF Shell!MachineAnswered, Shell!EndSearch, Shell!Only, Shell!Current
    <3> QED BY <3>1, <3>2, <3>3
  <2> QED BY <2>2, <2>3, <2>4
<1>4. ShellAnswered
  <2>1. CASE Shell!clearToken(as_net \ {r})
    BY <1>1, <2>1, ShellRefused
  <2>2. CASE /\ UNCHANGED <<as_token, as_tokens, as_closure, as_status, as_machine, as_loading, as_check, as_checks, as_sent>>
             /\ as_net' = as_net \ {r} /\ r.arg # as_check
    BY <1>2, <2>2, ShellDropped
  <2>3. CASE /\ UNCHANGED <<as_token, as_tokens, as_closure, as_status, as_check, as_checks>>
             /\ \/ /\ \E op \in ShellSearching : \E a : Shell!Request(as_net \ {r}, op, r.arg, a)
                   /\ UNCHANGED <<as_machine, as_loading>>
                \/ /\ r.arg = as_check /\ as_loading' = FALSE /\ as_machine' \in {as_machine, TRUE}
                   /\ as_net' = as_net \ {r} /\ as_sent' = as_sent
    <3>1. as_machine' \in {as_machine, TRUE} => as_machine' \in BOOLEAN
      BY <1>2
    <3> QED BY <1>1, <2>3, <3>1, ShellSearches
  <2> QED BY <1>3, <2>1, <2>2, <2>3
<1>5. Shell!ShowForm(as_path, as_menu, as_pwReq, as_submitting)
  BY DEF Shell!TimerFired, Shell!MachinesAnswered, Shell!MachineAnswered, Shell!Stay, Shell!Show
<1> QED BY <1>4, <1>5, ShellAnswerKept

\* The answers to a new password and to a new machine.
LEMMA ShellSaves ==
  ASSUME ShellInv, NEW r \in as_net, NEW res \in {"ok", "refused", "error"},
         \/ r.op = "patch" /\ Shell!PatchAnswered(r, res, as_net \ {r})
         \/ r.op = "create" /\ Shell!handleWizardDone(res, as_net \ {r})
  PROVE  ShellInv'
<1> USE DEF Shell!tokenVars, Shell!search
<1>1. r.op \notin ShellSearching
  BY DEF ShellSearching
<1>2. as_machine \in BOOLEAN /\ as_hasMachine \in BOOLEAN /\ TRUE \in BOOLEAN
  BY DEF ShellInv, Shell!TypeOK
<1>3. \/ Shell!clearToken(as_net \ {r}) /\ as_hasMachine' = as_hasMachine
      \/ /\ UNCHANGED <<as_token, as_tokens, as_closure, as_status, as_loading, as_check, as_checks, as_sent>>
         /\ as_net' = as_net \ {r} /\ as_machine' \in {as_machine, TRUE} /\ as_hasMachine' \in {as_hasMachine, TRUE}
      \/ /\ UNCHANGED <<as_token, as_tokens, as_closure, as_status, as_machine, as_loading, as_check, as_checks, as_hasMachine>>
         /\ Shell!Request(as_net \ {r}, "refresh", r.arg, 0)
  <2>1. CASE r.op = "patch" /\ Shell!PatchAnswered(r, res, as_net \ {r})
    <3>1. as_hasMachine' = as_hasMachine
      BY <2>1 DEF Shell!PatchAnswered
    <3> QED BY <2>1, <3>1 DEF Shell!PatchAnswered, Shell!Only
  <2>2. CASE r.op = "create" /\ Shell!handleWizardDone(res, as_net \ {r})
    BY <2>2 DEF Shell!handleWizardDone, Shell!Only
  <2> QED BY <2>1, <2>2
<1>4. ShellAnswered
  <2>1. CASE Shell!clearToken(as_net \ {r}) /\ as_hasMachine' = as_hasMachine
    BY <2>1, ShellRefused
  <2>2. CASE /\ UNCHANGED <<as_token, as_tokens, as_closure, as_status, as_loading, as_check, as_checks, as_sent>>
             /\ as_net' = as_net \ {r} /\ as_machine' \in {as_machine, TRUE} /\ as_hasMachine' \in {as_hasMachine, TRUE}
    <3>1. as_machine' \in BOOLEAN /\ as_hasMachine' \in BOOLEAN
      BY <1>2, <2>2
    <3> QED BY <1>1, <2>2, <3>1, ShellDropped
  <2>3. CASE /\ UNCHANGED <<as_token, as_tokens, as_closure, as_status, as_machine, as_loading, as_check, as_checks, as_hasMachine>>
             /\ Shell!Request(as_net \ {r}, "refresh", r.arg, 0)
    <3>1. PICK rest, c, op : rest = as_net \ {r} /\ c = r.arg /\ op = "refresh"
      OBVIOUS
    <3>2. rest \in SUBSET as_net /\ op \notin ShellSearching /\ Shell!Request(rest, op, c, 0)
      BY <2>3, <3>1 DEF ShellSearching
    <3>3. /\ as_sent' \in 0..as_MaxSent /\ rest \subseteq as_net'
          /\ \A q \in as_net' \ as_net : q.op \notin ShellSearching
      BY <3>2, ShellAsks
    <3>4. ShellDoes
      BY <1>1, <2>3, <3>1, <3>3 DEF ShellDoes, ShellSame
    <3>5. as_machine' \in BOOLEAN /\ as_loading' \in BOOLEAN /\ as_hasMachine' \in BOOLEAN
      BY <2>3 DEF ShellInv, Shell!TypeOK
    <3> QED BY <2>3, <3>3, <3>4, <3>5 DEF ShellAnswered, ShellInv, Shell!TypeOK
  <2> QED BY <1>3, <2>1, <2>2, <2>3
<1>5. \E req \in {0, as_pwReq} : Shell!ShowForm(as_path, as_menu, req, as_submitting)
  <2>1. PICK req : req = IF r.arg = as_pwReq /\ res # "ok" THEN 0 ELSE as_pwReq
    OBVIOUS
  <2>2. Shell!ShowForm(as_path, as_menu, req, as_submitting) \/ Shell!ShowForm(as_path, as_menu, as_pwReq, as_submitting)
    BY <2>1 DEF Shell!PatchAnswered, Shell!handleWizardDone, Shell!Stay, Shell!Show
  <2> QED BY <2>1, <2>2
<1> QED BY <1>4, <1>5, ShellAnswerKept

\* Every step keeps the invariant.
LEMMA ShellNext ==
  ASSUME ShellInv, [Shell!Next]_(Shell!vars)
  PROVE  ShellInv'
<1>1. CASE UNCHANGED Shell!vars
  BY <1>1 DEF Shell!vars, ShellInv, Shell!TypeOK, ShellSearchInv
<1>2. CASE Shell!Answer
  <2>1. PICK r \in as_net :
          \/ r.op = "timer" /\ Shell!TimerFired(r, as_net \ {r})
          \/ \E res \in Shell!Results(r) :
               \/ r.op \in {"me", "loginMe", "refresh"} /\ Shell!MeAnswered(r, res, as_net \ {r})
               \/ r.op = "login" /\ Shell!LoginAnswered(r, res, as_net \ {r})
               \/ r.op = "machines" /\ Shell!MachinesAnswered(r, res, as_net \ {r})
               \/ r.op = "machine" /\ Shell!MachineAnswered(r, res, as_net \ {r})
               \/ r.op = "patch" /\ Shell!PatchAnswered(r, res, as_net \ {r})
               \/ r.op = "create" /\ Shell!handleWizardDone(res, as_net \ {r})
    BY <1>2 DEF Shell!Answer
  <2>2. Shell!Results(r) \subseteq {"ok", "refused", "error"}
    BY DEF Shell!Results
  <2> QED BY <2>1, <2>2, ShellMe, ShellLogin, ShellFinds, ShellSaves
<1> QED BY <1>1, <1>2, ShellUser, ShellOtherTab DEF Shell!Next

\* The module of the shell counts as this one does.
LEMMA ShellCardinality ==
  ASSUME NEW S
  PROVE  Shell!Cardinality(S) = Cardinality(S)
BY DEF Shell!Cardinality, Cardinality

\* What the invariant says of the properties.
LEMMA ShellShows ==
  ASSUME ShellInv
  PROVE  Shell!TypeOK /\ Shell!SpinnerIsSearch
<1>1. Shell!TypeOK
  BY DEF ShellInv
<1>2. Shell!SpinnerIsSearch
  <2>1. PICK S : S = {r \in as_net : r.op \in {"machines", "machine", "timer"} /\ r.arg = as_check}
    OBVIOUS
  <2>2. SUFFICES ASSUME as_status = "authed" PROVE as_loading = (Cardinality(S) = 1)
    BY <2>1, ShellCardinality DEF Shell!SpinnerIsSearch
  <2>3. /\ \A q, r \in S : q = r
        /\ as_loading = TRUE <=> S # {}
    BY <2>1, <2>2 DEF ShellInv, ShellSearchInv, ShellSearching
  <2>4. S # {} <=> Cardinality(S) = 1
    <3>1. CASE S = {}
      BY <3>1, FS_EmptySet
    <3>2. CASE S # {}
      <4>1. PICK x : x \in S
        BY <3>2
      <4>2. S = {x}
        BY <2>3, <4>1
      <4> QED BY <4>2, FS_Singleton
    <3> QED BY <3>1, <3>2
  <2>5. as_loading \in BOOLEAN
    BY DEF ShellInv, Shell!TypeOK
  <2> QED BY <2>3, <2>4, <2>5
<1> QED BY <1>1, <1>2
-----------------------------------------------------------------------------
(* Onboarding (Onboarding)                                                 *)

\* What is assumed of its constants.
LEMMA WizardBounds ==
  /\ ob_MaxTemplates \in Nat /\ ob_MaxLoads \in Nat \ {0} /\ ob_MaxBinds \in Nat
  /\ ob_MaxBuilds \in Nat /\ ob_MaxPicks \in Nat
  BY MachinePagesAssumption

WizardSlots == [Wizard!Slot -> {"none", "sim", "hardware"}]
WizardMachine == [template : 0..ob_MaxTemplates, slots : WizardSlots]
WizardBuild(k) == [n : Nat, template : 0..ob_MaxTemplates, machine : 0..k]
WizardBinding(k) ==
  [machine : 1..k, slot : Wizard!Slot, kind : {"sim", "hardware"}, queue : SUBSET Wizard!Slot,
   stage : {"sent", "read", "answered"}, ok : BOOLEAN, shown : BOOLEAN, heard : BOOLEAN,
   copy : WizardSlots]
WizardResult(k) == [machine : 1..k, kind : {"sim", "hardware"}]

WizardTypes ==
  /\ Wizard!TypeOK
  /\ ob_asked \in Nat /\ ob_bound \in Nat
  /\ ob_results \in [Wizard!Slot -> {Wizard!Unbound} \union WizardResult(Len(ob_machines))]
  /\ ob_machines \in Seq(WizardMachine)
  /\ \A b \in ob_builds : b \in WizardBuild(Len(ob_machines))
  /\ \A b \in ob_binds : b \in WizardBinding(Len(ob_machines))
  /\ ob_step = "bind" => ob_machineId # 0

\* A machine whose building has not been answered yet is nobody's business.
WizardFresh ==
  \A b \in ob_builds : b.machine # 0 =>
    /\ b.machine # ob_machineId
    /\ \A c \in ob_binds : c.machine # b.machine
    /\ \A s \in Wizard!Slot : ob_results[s].machine # b.machine
    /\ \A c \in ob_builds : c.machine = b.machine => c = b

\* The bindings a step left behind, and still hears of, are of machines it no
\* longer shows.
WizardHidden ==
  \A b \in ob_binds : ~b.shown /\ b.heard =>
    /\ ob_step = "bind" => b.machine # ob_machineId
    /\ \A s \in Wizard!Slot : ob_results[s].machine # b.machine
    /\ \A c \in ob_binds : c.shown => c.machine # b.machine

\* At most one binding is the step's, of a slot without a result, like those
\* that queue behind it; before the step shows there is none, and no result.
WizardShown ==
  /\ \A b \in ob_binds : b.shown =>
       /\ b.heard /\ b.slot = ob_binding /\ b.slot \notin b.queue
       /\ ob_results[b.slot] = Wizard!Unbound
       /\ \A s \in b.queue : ob_results[s] = Wizard!Unbound
       /\ \A c \in ob_binds : c.shown => c = b
  /\ ob_binding # 0 => \E b \in ob_binds : b.shown
WizardHeard == \A b \in ob_binds : b.stage = "answered" => b.heard
WizardEarly ==
  ob_step \in {"pick", "params"} =>
    /\ \A s \in Wizard!Slot : ob_results[s] = Wizard!Unbound
    /\ \A b \in ob_binds : ~b.shown

\* Unless something strayed, results and the step's binding are about the
\* step's machine, as the Brain has it: the copy read is of the slots it has,
\* and the answer that comes has been written.
WizardResults ==
  \A s \in Wizard!Slot : ob_results[s] # Wizard!Unbound =>
    ob_results[s].machine = ob_machineId /\ ob_machines[ob_machineId].slots[s] = ob_results[s].kind
WizardWritten ==
  \A b \in ob_binds : b.shown =>
    /\ b.machine = ob_machineId
    /\ b.stage = "read" => b.copy = ob_machines[b.machine].slots
    /\ b.stage = "answered" /\ b.ok => ob_machines[b.machine].slots[b.slot] = b.kind
WizardKept == ob_strayed = {} => WizardResults /\ WizardWritten

WizardInv ==
  WizardTypes /\ WizardFresh /\ WizardHidden /\ WizardShown /\ WizardEarly /\ WizardHeard /\ WizardKept

\* It holds of the first state.
LEMMA WizardFirst ==
  ASSUME Wizard!Init
  PROVE  WizardInv
<1>1. Wizard!TypeOK
  <2>1. ob_loading \in BOOLEAN /\ ob_pickErr \in BOOLEAN
    BY DEF Wizard!Init
  <2>2. Len(ob_machines) = 0
    BY DEF Wizard!Init
  <2> QED BY <2>1, <2>2, WizardBounds DEF Wizard!Init, Wizard!TypeOK, Wizard!Template, Wizard!Slot
<1>2. WizardTypes
  BY <1>1, WizardBounds DEF Wizard!Init, WizardTypes, WizardMachine, Wizard!Slot
<1>3. WizardFresh /\ WizardHidden /\ WizardShown /\ WizardEarly /\ WizardHeard /\ WizardKept
  BY DEF Wizard!Init, WizardFresh, WizardHidden, WizardHeard, WizardShown, WizardEarly, WizardKept, WizardResults, WizardWritten
<1> QED BY <1>2, <1>3 DEF WizardInv

\* What the picker and the parameters do concerns no binding.
LEMMA WizardQuiet ==
  ASSUME WizardInv, Wizard!TypeOK', ob_asked' \in Nat, ob_step' = "bind" => ob_step = "bind",
         ob_step' \in {"pick", "params"} => ob_step \in {"pick", "params"},
         UNCHANGED <<ob_results, ob_binding, ob_machines, ob_binds, ob_builds, ob_machineId, ob_bound, ob_strayed>>
  PROVE  WizardInv'
<1>1. WizardTypes'
  BY DEF WizardInv, WizardTypes
<1>2. WizardFresh' /\ WizardShown' /\ WizardKept'
  BY DEF WizardInv, WizardFresh, WizardShown, WizardKept, WizardResults, WizardWritten
<1>3. WizardHidden' /\ WizardEarly' /\ WizardHeard'
  BY DEF WizardInv, WizardHidden, WizardEarly, WizardHeard
<1> QED BY <1>1, <1>2, <1>3 DEF WizardInv

\* A template is taken: no result is shown, and no binding under way either.
LEMMA WizardPicks ==
  ASSUME WizardInv, NEW t \in Wizard!Template, Wizard!onPick(t),
         ob_fetches' \subseteq Wizard!Template, ob_asked' = ob_asked,
         UNCHANGED <<ob_attempts, ob_builds, ob_machines, ob_bound>>
  PROVE  WizardInv'
<1>1. /\ ob_template' = t /\ ob_step' = "params"
      /\ ob_loading' = FALSE /\ ob_templates' = {} /\ ob_pickErr' = FALSE
      /\ ob_results' = [s \in Wizard!Slot |-> Wizard!Unbound] /\ ob_binding' = 0
      /\ ob_binds' = {[b EXCEPT !.shown = FALSE] : b \in ob_binds}
      /\ ob_strayed' = {} /\ UNCHANGED ob_machineId
  BY DEF Wizard!onPick, Wizard!PickerGone
<1>2. Wizard!TypeOK'
  <2>1. ob_loading' \in BOOLEAN /\ ob_pickErr' \in BOOLEAN
    BY <1>1 DEF WizardInv, WizardTypes, Wizard!TypeOK
  <2>2. t \in 0..ob_MaxTemplates
    BY WizardBounds DEF Wizard!Template
  <2> QED BY <1>1, <2>1, <2>2, WizardBounds DEF WizardInv, WizardTypes, Wizard!TypeOK
<1>3. \A c \in ob_binds' : /\ c \in WizardBinding(Len(ob_machines)) /\ ~c.shown
                           /\ \E b \in ob_binds : c.machine = b.machine /\ c.stage = b.stage /\ c.heard = b.heard
  <2> TAKE c \in ob_binds'
  <2>1. PICK b \in ob_binds : c = [b EXCEPT !.shown = FALSE]
    BY <1>1
  <2>2. b \in WizardBinding(Len(ob_machines))
    BY DEF WizardInv, WizardTypes
  <2>3. /\ c \in WizardBinding(Len(ob_machines)) /\ ~c.shown /\ c.machine = b.machine
        /\ c.stage = b.stage /\ c.heard = b.heard
    BY <2>1, <2>2 DEF WizardBinding
  <2> QED BY <2>3
<1>4. WizardTypes'
  BY <1>1, <1>2, <1>3 DEF WizardInv, WizardTypes
<1>5. \A s \in Wizard!Slot : ob_results'[s].machine = 0
  BY <1>1 DEF Wizard!Unbound
<1>6. WizardFresh'
  BY <1>1, <1>3, <1>5 DEF WizardInv, WizardFresh
<1>7. WizardHidden'
  <2>1. \A c \in ob_binds' : c.machine # 0
    BY <1>3 DEF WizardBinding
  <2> QED BY <1>1, <1>3, <1>5, <2>1 DEF WizardHidden
<1>8. WizardShown' /\ WizardEarly' /\ WizardKept'
  BY <1>1, <1>3 DEF WizardShown, WizardEarly, WizardKept, WizardResults, WizardWritten
<1>9. WizardHeard'
  BY <1>3 DEF WizardInv, WizardHeard
<1> QED BY <1>4, <1>6, <1>7, <1>8, <1>9 DEF WizardInv

\* One more slot asked for, or none left, shown or behind the page's back.
WizardAsks(rest, m, q, shown) ==
  /\ m \in 1..Len(ob_machines) /\ q \in SUBSET Wizard!Slot /\ shown \in BOOLEAN
  /\ Wizard!bind(m, q, rest, shown)
  /\ \A c \in rest : /\ c \in WizardBinding(Len(ob_machines))
                     /\ c.shown \/ c.heard => c \in ob_binds
                     /\ c.stage = "answered" => c.heard
                     /\ \E d \in ob_binds : c.machine = d.machine
  /\ ob_results' \in [Wizard!Slot -> {Wizard!Unbound} \union WizardResult(Len(ob_machines))]
  /\ \A s \in Wizard!Slot : ob_results'[s] = ob_results[s] \/ (ob_results'[s].machine = m /\ shown)
  /\ ob_strayed = {} => WizardResults'
  /\ shown => /\ \A c \in rest : ~c.shown /\ (c.heard => c.machine # m)
              /\ \A s \in q : ob_results'[s] = Wizard!Unbound
              /\ ob_strayed = {} => m = ob_machineId
              /\ ob_step \notin {"pick", "params"}
  /\ ~shown => /\ \A s \in Wizard!Slot : ob_results[s].machine # m
               /\ ob_step = "bind" => m # ob_machineId
               /\ \A c \in ob_binds : c.shown => c.machine # m /\ c \in rest
               /\ ob_results' = ob_results
  /\ \A b \in ob_builds : b.machine # 0 => b.machine # m

\* Those under way (rest) are as they were, or reach nobody any more.
LEMMA WizardBinds ==
  ASSUME WizardInv, NEW rest, NEW m, NEW q, NEW shown, WizardAsks(rest, m, q, shown),
         UNCHANGED <<ob_attempts, ob_loading, ob_templates, ob_pickErr, ob_picks, ob_fetches,
                     ob_step, ob_template, ob_machineId, ob_builds, ob_machines, ob_asked, ob_strayed>>
  PROVE  WizardInv'
<1> USE DEF WizardAsks
<1>3. \A c \in rest : c.shown => c \in ob_binds
  OBVIOUS
<1>1. CASE /\ ob_binds' = rest /\ UNCHANGED ob_bound
           /\ ob_binding' = IF shown THEN 0 ELSE ob_binding
  <2>1. Wizard!TypeOK'
    BY <1>1, WizardBounds DEF WizardInv, WizardTypes, Wizard!TypeOK
  <2>2. WizardTypes'
    BY <1>1, <2>1 DEF WizardInv, WizardTypes
  <2>3. WizardFresh'
    BY <1>1 DEF WizardInv, WizardFresh
  <2>4. WizardHidden'
    BY <1>1 DEF WizardInv, WizardHidden
  <2>5. WizardShown'
    <3>1. CASE shown
      BY <1>1, <3>1 DEF WizardShown
    <3>2. CASE ~shown
      BY <1>1, <1>3, <3>2 DEF WizardInv, WizardShown
    <3> QED BY <3>1, <3>2
  <2>6. WizardEarly'
    BY <1>1, <1>3 DEF WizardInv, WizardEarly
  <2>7. WizardKept'
    BY <1>1, <1>3 DEF WizardInv, WizardKept, WizardWritten
  <2>8. WizardHeard'
    BY <1>1 DEF WizardHeard
  <2> QED BY <2>2, <2>3, <2>4, <2>5, <2>6, <2>7, <2>8 DEF WizardInv
<1>2. ASSUME NEW first \in q, NEW kind \in {"sim", "hardware"}, ob_bound' = ob_bound + 1,
             ob_binds' = rest \union
               {[machine |-> m, slot |-> first, kind |-> kind, queue |-> {k \in q : k > first},
                 stage |-> "sent", ok |-> FALSE, shown |-> shown, heard |-> TRUE, copy |-> Wizard!NoSlots]},
             ob_binding' = IF shown THEN first ELSE ob_binding
      PROVE  WizardInv'
  <2>0. Wizard!NoSlots \in WizardSlots
    BY DEF Wizard!NoSlots, WizardSlots
  <2>1. PICK x : x = [machine |-> m, slot |-> first, kind |-> kind, queue |-> {k \in q : k > first},
                      stage |-> "sent", ok |-> FALSE, shown |-> shown, heard |-> TRUE, copy |-> Wizard!NoSlots]
    OBVIOUS
  <2>2. /\ x \in WizardBinding(Len(ob_machines))
        /\ x.machine = m /\ x.slot = first /\ x.queue \subseteq q /\ x.stage = "sent" /\ x.shown = shown
        /\ x.heard = TRUE
    BY <2>0, <2>1 DEF WizardBinding
  <2>3. x.slot \notin x.queue
    BY <2>1 DEF Wizard!Slot
  <2>4. ob_binds' = rest \union {x}
    BY <1>2, <2>1
  <2>5. first \in 0..ob_MaxTemplates /\ first # 0
    BY WizardBounds DEF Wizard!Slot
  <2>6. Wizard!TypeOK'
    BY <1>2, <2>5, WizardBounds DEF WizardInv, WizardTypes, Wizard!TypeOK
  <2>7. WizardTypes'
    BY <1>2, <2>2, <2>4, <2>6 DEF WizardInv, WizardTypes
  <2>8. WizardFresh'
    BY <2>2, <2>4 DEF WizardInv, WizardFresh
  <2>9. WizardHidden'
    <3>1. CASE shown
      <4>1. \A c \in rest : c.heard => \A s \in Wizard!Slot : ob_results'[s].machine # c.machine
        BY <3>1 DEF WizardInv, WizardHidden
      <4> QED BY <2>2, <2>4, <3>1, <4>1 DEF WizardInv, WizardHidden
    <3>2. CASE ~shown
      BY <1>3, <2>2, <2>4, <3>2 DEF WizardInv, WizardHidden
    <3> QED BY <3>1, <3>2
  <2>10. WizardShown'
    <3>1. CASE shown
      BY <1>2, <2>2, <2>3, <2>4, <2>5, <3>1 DEF WizardShown
    <3>2. CASE ~shown
      BY <1>2, <1>3, <2>2, <2>4, <3>2 DEF WizardInv, WizardShown
    <3> QED BY <3>1, <3>2
  <2>11. WizardEarly'
    BY <1>3, <2>2, <2>4 DEF WizardInv, WizardEarly
  <2>12. WizardKept'
    BY <1>3, <2>2, <2>4 DEF WizardInv, WizardKept, WizardWritten
  <2>13. WizardHeard'
    BY <2>2, <2>4 DEF WizardHeard
  <2> QED BY <2>7, <2>8, <2>9, <2>10, <2>11, <2>12, <2>13 DEF WizardInv
<1> QED BY <1>1, <1>2 DEF Wizard!bind

\* The picker and the parameters: what they change is typed.
LEMMA WizardForms ==
  ASSUME WizardInv,
         Wizard!Retry \/ Wizard!Loaded \/ Wizard!Back \/ Wizard!OpenWorkspace
  PROVE  WizardInv'
<1> USE DEF Wizard!picker, Wizard!list, Wizard!wizard, Wizard!binder
<1>1. CASE Wizard!Retry
  <2>1. Wizard!TypeOK' /\ UNCHANGED <<ob_step, ob_asked>>
    <3>1. ob_attempts' \in 0..ob_MaxLoads
      BY <1>1, WizardBounds DEF Wizard!Retry, Wizard!load, WizardInv, WizardTypes, Wizard!TypeOK
    <3> QED BY <1>1, <3>1 DEF Wizard!Retry, Wizard!load, WizardInv, WizardTypes, Wizard!TypeOK
  <2> QED BY <1>1, <2>1, WizardQuiet DEF Wizard!Retry, Wizard!load, WizardInv, WizardTypes
<1>2. CASE Wizard!Loaded
  <2>1. Wizard!TypeOK' /\ UNCHANGED <<ob_step, ob_asked>>
    <3>1. ob_templates' \subseteq Wizard!Template /\ ob_loading' \in BOOLEAN /\ ob_pickErr' \in BOOLEAN
      BY <1>2 DEF Wizard!Loaded, WizardInv, WizardTypes, Wizard!TypeOK
    <3> QED BY <1>2, <3>1 DEF Wizard!Loaded, WizardInv, WizardTypes, Wizard!TypeOK
  <2> QED BY <1>2, <2>1, WizardQuiet DEF Wizard!Loaded, WizardInv, WizardTypes
<1>3. CASE Wizard!Back
  <2>1. Wizard!TypeOK' /\ UNCHANGED ob_asked /\ ob_step' = "pick" /\ ob_step = "params"
    <3>1. ob_attempts' \in 0..ob_MaxLoads
      BY <1>3, WizardBounds DEF Wizard!Back, Wizard!load, WizardInv, WizardTypes, Wizard!TypeOK
    <3> QED BY <1>3, <3>1 DEF Wizard!Back, Wizard!load, WizardInv, WizardTypes, Wizard!TypeOK
  <2> QED BY <1>3, <2>1, WizardQuiet DEF Wizard!Back, Wizard!load, WizardInv, WizardTypes
<1>6. CASE Wizard!OpenWorkspace
  <2>1. Wizard!TypeOK' /\ UNCHANGED ob_asked /\ ob_step' = "done"
    BY <1>6 DEF Wizard!OpenWorkspace, WizardInv, WizardTypes, Wizard!TypeOK
  <2> QED BY <1>6, <2>1, WizardQuiet DEF Wizard!OpenWorkspace, WizardInv, WizardTypes
<1> QED BY <1>1, <1>2, <1>3, <1>6

\* Picking a template starts over with what the wizard shows.
LEMMA WizardTemplates ==
  ASSUME WizardInv, Wizard!TemplateCard \/ Wizard!SchemaFetched
  PROVE  WizardInv'
<1> USE DEF Wizard!picker, Wizard!list, Wizard!wizard, Wizard!binder
<1>1. CASE Wizard!TemplateCard
  <2>1. PICK t \in Wizard!Template : Wizard!Select(t)
    BY <1>1 DEF Wizard!TemplateCard
  <2>2. UNCHANGED <<ob_attempts, ob_builds, ob_machines, ob_asked, ob_bound>>
    BY <1>1 DEF Wizard!TemplateCard
  <2>3. CASE t \in ob_templates
    <3>1. Wizard!onPick(t) /\ ob_fetches' \subseteq Wizard!Template
      BY <2>1, <2>3 DEF Wizard!Select, WizardInv, WizardTypes, Wizard!TypeOK
    <3> QED BY <2>2, <3>1, WizardPicks
  <2>4. CASE t \notin ob_templates
    <3>1. ob_fetches' = ob_fetches \union {t}
          /\ UNCHANGED <<ob_loading, ob_templates, ob_pickErr, ob_step, ob_template, ob_machineId,
                         ob_results, ob_binding, ob_binds, ob_strayed>>
      BY <2>1, <2>4 DEF Wizard!Select
    <3>2. Wizard!TypeOK'
      BY <2>2, <3>1 DEF WizardInv, WizardTypes, Wizard!TypeOK
    <3> QED BY <2>2, <3>1, <3>2, WizardQuiet DEF WizardInv, WizardTypes
  <2> QED BY <2>3, <2>4
<1>2. CASE Wizard!SchemaFetched
  <2>1. PICK t \in ob_fetches :
          /\ ob_fetches' = ob_fetches \ {t}
          /\ \/ Wizard!onPick(t)
             \/ /\ ob_pickErr' = (ob_pickErr \/ ob_step = "pick")
                /\ UNCHANGED <<ob_loading, ob_templates, ob_step, ob_template, ob_machineId,
                         ob_results, ob_binding, ob_binds, ob_strayed>>
    BY <1>2 DEF Wizard!SchemaFetched
  <2>2. UNCHANGED <<ob_attempts, ob_builds, ob_machines, ob_asked, ob_bound>>
    BY <1>2 DEF Wizard!SchemaFetched
  <2>3. t \in Wizard!Template /\ ob_fetches' \subseteq Wizard!Template
    BY <2>1 DEF WizardInv, WizardTypes, Wizard!TypeOK
  <2>4. CASE Wizard!onPick(t)
    BY <2>2, <2>3, <2>4, WizardPicks
  <2>5. CASE /\ ob_pickErr' = (ob_pickErr \/ ob_step = "pick")
             /\ UNCHANGED <<ob_loading, ob_templates, ob_step, ob_template, ob_machineId,
                         ob_results, ob_binding, ob_binds, ob_strayed>>
    <3>1. ob_pickErr' \in BOOLEAN
      BY <2>5
    <3>2. Wizard!TypeOK'
      BY <2>2, <2>3, <2>5, <3>1 DEF WizardInv, WizardTypes, Wizard!TypeOK
    <3> QED BY <2>2, <2>5, <3>2, WizardQuiet DEF WizardInv, WizardTypes
  <2> QED BY <2>1, <2>4, <2>5
<1> QED BY <1>1, <1>2

\* Machines asked for, built by the Brain, and answered.
LEMMA WizardBuilds ==
  ASSUME WizardInv, Wizard!onCommit \/ Wizard!Built \/ Wizard!BrainBuilds
  PROVE  WizardInv'
<1> USE DEF Wizard!picker, Wizard!list, Wizard!wizard, Wizard!binder
<1>1. CASE Wizard!onCommit
  <2>1. PICK x : x = [n |-> ob_asked + 1, template |-> ob_template, machine |-> 0]
    OBVIOUS
  <2>2. x \in WizardBuild(Len(ob_machines)) /\ x.machine = 0
    BY <2>1 DEF WizardBuild, WizardInv, WizardTypes, Wizard!TypeOK
  <2>3. /\ ob_asked' = ob_asked + 1 /\ ob_builds' = ob_builds \union {x}
        /\ UNCHANGED <<ob_attempts, ob_loading, ob_templates, ob_pickErr, ob_picks, ob_fetches,
             ob_step, ob_template, ob_machineId, ob_results, ob_binding, ob_binds, ob_machines, ob_bound,
             ob_strayed>>
    BY <1>1, <2>1 DEF Wizard!onCommit
  <2>4. Wizard!TypeOK'
    BY <2>3 DEF WizardInv, WizardTypes, Wizard!TypeOK
  <2>5. WizardTypes'
    BY <2>2, <2>3, <2>4 DEF WizardInv, WizardTypes
  <2>6. WizardFresh'
    BY <2>2, <2>3 DEF WizardInv, WizardFresh
  <2>7. WizardHidden' /\ WizardShown' /\ WizardEarly' /\ WizardHeard' /\ WizardKept'
    BY <2>3 DEF WizardInv, WizardHidden, WizardShown, WizardEarly, WizardHeard, WizardKept, WizardResults, WizardWritten
  <2> QED BY <2>5, <2>6, <2>7 DEF WizardInv
<1>2. CASE Wizard!Built
  <2>1. PICK b \in ob_builds :
          /\ ob_builds' = ob_builds \ {b}
          /\ \/ /\ b.machine # 0 /\ ob_machineId' = b.machine /\ ob_step' = "bind"
                /\ Wizard!PickerGone
                /\ ob_strayed' = IF ob_step = "bind" THEN {"build"} ELSE {}
             \/ UNCHANGED <<ob_loading, ob_templates, ob_pickErr, ob_machineId, ob_step, ob_strayed>>
    BY <1>2 DEF Wizard!Built
  <2>2. /\ UNCHANGED <<ob_attempts, ob_picks, ob_fetches, ob_template, ob_results,
             ob_binding, ob_binds, ob_machines, ob_asked, ob_bound>>
        /\ ob_step # "done"
    BY <1>2 DEF Wizard!Built
  <2>3. WizardShown' /\ WizardHeard'
    BY <2>2 DEF WizardInv, WizardShown, WizardHeard
  <2>4. b \in WizardBuild(Len(ob_machines))
    BY DEF WizardInv, WizardTypes
  <2>5. CASE /\ b.machine # 0 /\ ob_machineId' = b.machine /\ ob_step' = "bind"
             /\ Wizard!PickerGone
             /\ ob_strayed' = IF ob_step = "bind" THEN {"build"} ELSE {}
    <3>1. ob_loading' = FALSE /\ ob_templates' = {} /\ ob_pickErr' = FALSE
      BY <2>5 DEF Wizard!PickerGone
    <3>2. ob_machineId' \in 0..Len(ob_machines)
      BY <2>4, <2>5 DEF WizardBuild
    <3>4. Wizard!TypeOK'
      BY <2>2, <2>5, <3>1, <3>2 DEF WizardInv, WizardTypes, Wizard!TypeOK
    <3>5. WizardTypes'
      BY <2>1, <2>2, <2>5, <3>4 DEF WizardInv, WizardTypes
    <3>6. WizardFresh'
      BY <2>1, <2>2, <2>5 DEF WizardInv, WizardFresh
    <3>7. WizardHidden'
      BY <2>2, <2>5 DEF WizardInv, WizardHidden, WizardFresh
    <3>8. WizardEarly'
      BY <2>5 DEF WizardEarly
    <3>9. WizardKept'
      <4>1. CASE ob_step = "bind"
        BY <2>5, <4>1 DEF WizardKept
      <4>2. CASE ob_step \in {"pick", "params"}
        BY <2>2, <4>2 DEF WizardInv, WizardEarly, WizardKept, WizardResults, WizardWritten
      <4> QED BY <2>2, <4>1, <4>2 DEF WizardInv, WizardTypes, Wizard!TypeOK
    <3> QED BY <2>3, <3>5, <3>6, <3>7, <3>8, <3>9 DEF WizardInv
  <2>6. CASE UNCHANGED <<ob_loading, ob_templates, ob_pickErr, ob_machineId, ob_step, ob_strayed>>
    <3>1. Wizard!TypeOK'
      BY <2>2, <2>6 DEF WizardInv, WizardTypes, Wizard!TypeOK
    <3>2. WizardTypes'
      BY <2>1, <2>2, <2>6, <3>1 DEF WizardInv, WizardTypes
    <3>3. WizardFresh'
      BY <2>1, <2>2, <2>6 DEF WizardInv, WizardFresh
    <3>4. WizardHidden' /\ WizardEarly' /\ WizardKept'
      BY <2>2, <2>6 DEF WizardInv, WizardHidden, WizardEarly, WizardKept, WizardResults, WizardWritten
    <3> QED BY <2>3, <3>2, <3>3, <3>4 DEF WizardInv
  <2> QED BY <2>1, <2>5, <2>6
<1>3. CASE Wizard!BrainBuilds
  <2>1. PICK b \in ob_builds :
          /\ b.machine = 0
          /\ ob_machines' = Append(ob_machines,
                              [template |-> b.template, slots |-> [s \in Wizard!Slot |-> "none"]])
          /\ ob_builds' = (ob_builds \ {b}) \union {[b EXCEPT !.machine = Len(ob_machines) + 1]}
    BY <1>3 DEF Wizard!BrainBuilds
  <2>2. UNCHANGED <<ob_attempts, ob_loading, ob_templates, ob_pickErr, ob_picks, ob_fetches,
          ob_step, ob_template, ob_machineId, ob_results, ob_binding, ob_binds, ob_asked, ob_bound, ob_strayed>>
    BY <1>3 DEF Wizard!BrainBuilds
  <2>3. PICK k \in Nat : k = Len(ob_machines)
    BY DEF WizardInv, WizardTypes
  <2>4. b \in WizardBuild(k)
    BY <2>3 DEF WizardInv, WizardTypes
  <2>5. PICK x : x = [b EXCEPT !.machine = k + 1]
    OBVIOUS
  <2>6. x \in WizardBuild(k + 1) /\ x.machine = k + 1 /\ x.n = b.n
    BY <2>4, <2>5 DEF WizardBuild
  <2>7. ob_builds' = (ob_builds \ {b}) \union {x}
    BY <2>1, <2>3, <2>5
  <2>8. PICK y : y = [template |-> b.template, slots |-> [s \in Wizard!Slot |-> "none"]]
    OBVIOUS
  <2>9. y \in WizardMachine
    BY <2>4, <2>8 DEF WizardBuild, WizardMachine, WizardSlots
  <2>10. /\ ob_machines' \in Seq(WizardMachine) /\ Len(ob_machines') = k + 1
         /\ \A i \in 1..k : ob_machines'[i] = ob_machines[i]
    BY <2>1, <2>3, <2>8, <2>9 DEF WizardInv, WizardTypes
  <2>11. /\ \A c : c \in WizardBuild(k) => c \in WizardBuild(k + 1)
         /\ \A c : c \in WizardBinding(k) => c \in WizardBinding(k + 1)
         /\ \A c : c \in WizardResult(k) => c \in WizardResult(k + 1)
    BY DEF WizardBuild, WizardBinding, WizardResult
  <2>12. Wizard!TypeOK'
    BY <2>2, <2>3, <2>10 DEF WizardInv, WizardTypes, Wizard!TypeOK
  <2>13. WizardTypes'
    <3>1. \A c \in ob_builds' : c \in WizardBuild(k + 1)
      BY <2>3, <2>6, <2>7, <2>11 DEF WizardInv, WizardTypes
    <3>2. \A c \in ob_binds' : c \in WizardBinding(k + 1)
      BY <2>2, <2>3, <2>11 DEF WizardInv, WizardTypes
    <3>3. ob_results' \in [Wizard!Slot -> {Wizard!Unbound} \union WizardResult(k + 1)]
      BY <2>2, <2>3, <2>11 DEF WizardInv, WizardTypes
    <3> QED BY <2>2, <2>10, <2>12, <3>1, <3>2, <3>3 DEF WizardInv, WizardTypes
  <2>14. \A c \in ob_binds : c.machine \in 1..k
    BY <2>3 DEF WizardInv, WizardTypes, WizardBinding
  <2>15. \A s \in Wizard!Slot : ob_results[s] = Wizard!Unbound \/ ob_results[s].machine \in 1..k
    BY <2>3 DEF WizardInv, WizardTypes, WizardResult
  <2>16. WizardFresh'
    <3>1. \A c \in ob_builds : c.machine \in 0..k
      BY <2>3 DEF WizardInv, WizardTypes, WizardBuild
    <3>2. ob_machineId \in 0..k
      BY <2>3 DEF WizardInv, WizardTypes, Wizard!TypeOK
    <3>3. \A s \in Wizard!Slot : ob_results[s].machine # k + 1
      BY <2>15 DEF Wizard!Unbound
    <3>4. k + 1 \notin 0..k
      OBVIOUS
    <3> QED BY <2>2, <2>6, <2>7, <2>14, <3>1, <3>2, <3>3, <3>4 DEF WizardInv, WizardFresh
  <2>17. WizardHidden' /\ WizardEarly' /\ WizardShown' /\ WizardHeard'
    BY <2>2 DEF WizardInv, WizardHidden, WizardEarly, WizardShown, WizardHeard
  <2>18. WizardKept'
    <3>1. ASSUME ob_strayed = {} PROVE WizardResults'
      BY <2>2, <2>10, <2>15, <3>1 DEF WizardInv, WizardKept, WizardResults
    <3>2. ASSUME ob_strayed = {} PROVE WizardWritten'
      BY <2>2, <2>10, <2>14, <3>2 DEF WizardInv, WizardKept, WizardWritten
    <3> QED BY <2>2, <3>1, <3>2 DEF WizardKept
  <2> QED BY <2>13, <2>16, <2>17, <2>18 DEF WizardInv
<1> QED BY <1>1, <1>2, <1>3

\* A click asks only when nothing is being asked, and for slots without result.
LEMMA WizardClicks ==
  ASSUME WizardInv, Wizard!BindButton \/ Wizard!BindAllButton
  PROVE  WizardInv'
<1> USE DEF Wizard!picker, Wizard!list, Wizard!wizard, Wizard!binder
<1>1. /\ ob_step = "bind" /\ ob_binding = 0
      /\ UNCHANGED <<ob_attempts, ob_loading, ob_templates, ob_pickErr, ob_picks, ob_fetches,
           ob_step, ob_template, ob_machineId, ob_builds, ob_results, ob_machines, ob_asked, ob_strayed>>
  BY DEF Wizard!BindButton, Wizard!BindAllButton
<1>2. PICK q \in SUBSET Wizard!joints :
        /\ \A s \in q : ob_results[s] = Wizard!Unbound
        /\ Wizard!bind(ob_machineId, q, ob_binds, TRUE)
  <2>1. CASE Wizard!BindButton
    <3>1. PICK s \in Wizard!joints : ob_results[s] = Wizard!Unbound
                       /\ Wizard!bind(ob_machineId, {s}, ob_binds, TRUE)
      BY <2>1 DEF Wizard!BindButton
    <3> QED BY <3>1
  <2>2. CASE Wizard!BindAllButton
    <3>1. Wizard!bind(ob_machineId, {s \in Wizard!joints : ob_results[s] = Wizard!Unbound}, ob_binds, TRUE)
      BY <2>2 DEF Wizard!BindAllButton, Wizard!bindAll
    <3> QED BY <3>1
  <2> QED BY <2>1, <2>2
<1>3. PICK m : m = ob_machineId
  OBVIOUS
<1>5. PICK rest : rest = ob_binds
  OBVIOUS
<1>6. m \in 1..Len(ob_machines)
  BY <1>1, <1>3 DEF WizardInv, WizardTypes, Wizard!TypeOK
<1>8. q \in SUBSET Wizard!Slot
  BY WizardBounds DEF Wizard!joints, Wizard!Slot, WizardInv, WizardTypes, Wizard!TypeOK
<1>9. Wizard!bind(m, q, rest, TRUE)
  BY <1>2, <1>3, <1>5
<1>10. \A c \in rest : ~c.shown /\ (c.heard => c.machine # m)
  <2>1. \A c \in rest : c.slot # 0
    BY <1>5, WizardBounds DEF WizardInv, WizardTypes, WizardBinding, Wizard!Slot
  <2>2. \A c \in rest : ~c.shown
    BY <1>1, <1>5, <2>1 DEF WizardInv, WizardShown
  <2> QED BY <1>1, <1>3, <1>5, <2>2 DEF WizardInv, WizardHidden
<1>11. \A b \in ob_builds : b.machine # 0 => b.machine # m
  BY <1>3 DEF WizardInv, WizardFresh
<1>12. ob_strayed = {} => WizardResults'
  BY <1>1 DEF WizardInv, WizardKept, WizardResults
<1>13. /\ ob_results' = ob_results
       /\ ob_results' \in [Wizard!Slot -> {Wizard!Unbound} \union WizardResult(Len(ob_machines))]
       /\ \A s \in q : ob_results'[s] = Wizard!Unbound
  BY <1>1, <1>2 DEF WizardInv, WizardTypes
<1>14. \A c \in rest : /\ c \in WizardBinding(Len(ob_machines)) /\ c \in ob_binds
                       /\ c.stage = "answered" => c.heard
                       /\ \E d \in ob_binds : c.machine = d.machine
  BY <1>5 DEF WizardInv, WizardTypes, WizardHeard
<1>15. WizardAsks(rest, m, q, TRUE)
  BY <1>1, <1>3, <1>6, <1>8, <1>9, <1>10, <1>11, <1>12, <1>13, <1>14 DEF WizardAsks
<1> QED BY <1>1, <1>15, WizardBinds

\* The binding b is over for the step that asked, with a result or without
\* one: the next slot is asked for, while the Brain may go on with b.
LEMMA WizardGoesOn ==
  ASSUME WizardInv, NEW b \in ob_binds, NEW rest, ob_step # "done", b.heard,
         Wizard!bind(b.machine, b.queue, rest, b.shown),
         \/ rest = ob_binds \ {b}
         \/ /\ rest = (ob_binds \ {b}) \union {[b EXCEPT !.heard = FALSE, !.shown = FALSE, !.queue = {}]}
            /\ b.stage \in {"sent", "read"},
         \/ ob_results' = ob_results
         \/ /\ b.shown /\ b.stage = "answered" /\ b.ok
            /\ ob_results' = [ob_results EXCEPT ![b.slot] = [machine |-> b.machine, kind |-> b.kind]],
         UNCHANGED <<ob_attempts, ob_loading, ob_templates, ob_pickErr, ob_picks, ob_fetches,
                     ob_step, ob_template, ob_machineId, ob_builds, ob_machines, ob_asked, ob_strayed>>
  PROVE  WizardInv'
<1>3. b \in WizardBinding(Len(ob_machines))
  BY DEF WizardInv, WizardTypes
<1>4. /\ b.machine \in 1..Len(ob_machines) /\ b.slot \in Wizard!Slot /\ b.kind \in {"sim", "hardware"}
      /\ b.queue \in SUBSET Wizard!Slot /\ b.shown \in BOOLEAN
  BY <1>3 DEF WizardBinding
<1>5. PICK o : o = [b EXCEPT !.heard = FALSE, !.shown = FALSE, !.queue = {}]
  OBVIOUS
<1>6. /\ o \in WizardBinding(Len(ob_machines)) /\ ~o.shown /\ ~o.heard /\ o.machine = b.machine
      /\ o.stage = b.stage
  BY <1>3, <1>5 DEF WizardBinding
<1>7. \A c \in rest : (c = o /\ b.stage \in {"sent", "read"}) \/ (c \in ob_binds /\ c # b)
  BY <1>5
<1>21. \A c \in ob_binds : c # b => c \in rest
  OBVIOUS
<1>22. \A c \in rest : /\ c \in WizardBinding(Len(ob_machines))
                       /\ c.shown \/ c.heard => c \in ob_binds
                       /\ c.stage = "answered" => c.heard
                       /\ \E d \in ob_binds : c.machine = d.machine
  BY <1>6, <1>7 DEF WizardInv, WizardTypes, WizardHeard
<1>8. PICK x : x = [machine |-> b.machine, kind |-> b.kind]
  OBVIOUS
<1>9. x \in WizardResult(Len(ob_machines)) /\ x.machine = b.machine /\ x.kind = b.kind
  BY <1>4, <1>8 DEF WizardResult
<1>20. ob_results \in [Wizard!Slot -> {Wizard!Unbound} \union WizardResult(Len(ob_machines))]
  BY DEF WizardInv, WizardTypes
<1>10. /\ ob_results' \in [Wizard!Slot -> {Wizard!Unbound} \union WizardResult(Len(ob_machines))]
       /\ \A s \in Wizard!Slot : ob_results'[s] = ob_results[s]
            \/ (s = b.slot /\ ob_results'[s] = x /\ b.shown /\ b.stage = "answered" /\ b.ok)
       /\ ~b.shown => ob_results' = ob_results
  BY <1>4, <1>8, <1>9, <1>20
<1>11. ob_strayed = {} => WizardResults'
  <2> SUFFICES ASSUME ob_strayed = {}, NEW s \in Wizard!Slot, ob_results'[s] # Wizard!Unbound
               PROVE  /\ ob_results'[s].machine = ob_machineId
                      /\ ob_machines[ob_machineId].slots[s] = ob_results'[s].kind
    BY DEF WizardResults
  <2>0. WizardResults /\ WizardWritten
    BY DEF WizardInv, WizardKept
  <2>1. CASE ob_results'[s] = ob_results[s]
    BY <2>0, <2>1 DEF WizardResults
  <2>2. CASE s = b.slot /\ ob_results'[s] = x /\ b.shown /\ b.stage = "answered" /\ b.ok
    BY <1>9, <2>0, <2>2 DEF WizardWritten
  <2> QED BY <1>10, <2>1, <2>2
<1>12. b.shown => /\ \A c \in rest : ~c.shown /\ (c.heard => c.machine # b.machine)
                  /\ \A s \in b.queue : ob_results'[s] = Wizard!Unbound
                  /\ ob_strayed = {} => b.machine = ob_machineId
                  /\ ob_step \notin {"pick", "params"}
  <2>1. b.shown => \A c \in rest : ~c.shown
    BY <1>6, <1>7 DEF WizardInv, WizardShown
  <2>2. b.shown => \A c \in rest : c.heard => c.machine # b.machine
    BY <1>6, <1>7, <2>1 DEF WizardInv, WizardHidden
  <2>3. b.shown => \A s \in b.queue : ob_results[s] = Wizard!Unbound /\ s # b.slot
    BY DEF WizardInv, WizardShown
  <2>4. b.shown /\ ob_strayed = {} => b.machine = ob_machineId
    BY DEF WizardInv, WizardKept, WizardWritten
  <2>5. b.shown => ob_step \notin {"pick", "params"}
    BY DEF WizardInv, WizardEarly
  <2> QED BY <1>4, <1>10, <2>1, <2>2, <2>3, <2>4, <2>5
<1>13. ~b.shown => /\ \A s \in Wizard!Slot : ob_results[s].machine # b.machine
                   /\ ob_step = "bind" => b.machine # ob_machineId
                   /\ \A c \in ob_binds : c.shown => c.machine # b.machine /\ c \in rest
                   /\ ob_results' = ob_results
  BY <1>10, <1>21 DEF WizardInv, WizardHidden
<1>14. \A c \in ob_builds : c.machine # 0 => c.machine # b.machine
  BY DEF WizardInv, WizardFresh
<1>15. \A s \in Wizard!Slot : ob_results'[s] = ob_results[s] \/ (ob_results'[s].machine = b.machine /\ b.shown)
  BY <1>9, <1>10
<1>16. PICK m, q, shown : m = b.machine /\ q = b.queue /\ shown = b.shown
  OBVIOUS
<1>17. /\ m \in 1..Len(ob_machines) /\ q \in SUBSET Wizard!Slot /\ shown \in BOOLEAN
       /\ Wizard!bind(m, q, rest, shown)
  BY <1>4, <1>16
<1>18. /\ \A s \in Wizard!Slot : ob_results'[s] = ob_results[s] \/ (ob_results'[s].machine = m /\ shown)
       /\ \A c \in ob_builds : c.machine # 0 => c.machine # m
  BY <1>14, <1>15, <1>16
<1>19. /\ shown => /\ \A c \in rest : ~c.shown /\ (c.heard => c.machine # m)
                   /\ \A s \in q : ob_results'[s] = Wizard!Unbound
                   /\ ob_strayed = {} => m = ob_machineId
                   /\ ob_step \notin {"pick", "params"}
       /\ ~shown => /\ \A s \in Wizard!Slot : ob_results[s].machine # m
                    /\ ob_step = "bind" => m # ob_machineId
                    /\ \A c \in ob_binds : c.shown => c.machine # m /\ c \in rest
                    /\ ob_results' = ob_results
  BY <1>12, <1>13, <1>16
<1>23. WizardAsks(rest, m, q, shown)
  BY <1>10, <1>11, <1>17, <1>18, <1>19, <1>22 DEF WizardAsks
<1> QED BY <1>23, WizardBinds

\* An answer is noted if its step is still shown; a connection is lost.
LEMMA WizardAnswers ==
  ASSUME WizardInv, Wizard!BindAnswered \/ Wizard!ConnectionLost
  PROVE  WizardInv'
<1> USE DEF Wizard!picker, Wizard!list, Wizard!wizard, Wizard!binder
<1>2. /\ ob_step # "done"
      /\ UNCHANGED <<ob_attempts, ob_loading, ob_templates, ob_pickErr, ob_picks, ob_fetches,
           ob_step, ob_template, ob_machineId, ob_builds, ob_machines, ob_asked, ob_strayed>>
  BY DEF Wizard!BindAnswered, Wizard!ConnectionLost
<1>3. CASE Wizard!BindAnswered
  <2>1. PICK b \in ob_binds :
          /\ b.stage = "answered"
          /\ ob_results' = IF b.shown /\ b.ok
               THEN [ob_results EXCEPT ![b.slot] = [machine |-> b.machine, kind |-> b.kind]]
               ELSE ob_results
          /\ Wizard!bind(b.machine, b.queue, ob_binds \ {b}, b.shown)
    BY <1>3 DEF Wizard!BindAnswered
  <2>2. b.heard
    BY <2>1 DEF WizardInv, WizardHeard
  <2>3. \/ ob_results' = ob_results
        \/ /\ b.shown /\ b.stage = "answered" /\ b.ok
           /\ ob_results' = [ob_results EXCEPT ![b.slot] = [machine |-> b.machine, kind |-> b.kind]]
    BY <2>1
  <2> QED BY <1>2, <2>1, <2>2, <2>3, WizardGoesOn
<1>4. CASE Wizard!ConnectionLost
  <2>1. PICK b \in ob_binds :
          /\ b.heard /\ b.stage \in {"sent", "read"}
          /\ Wizard!bind(b.machine, b.queue,
               (ob_binds \ {b}) \union {[b EXCEPT !.heard = FALSE, !.shown = FALSE, !.queue = {}]}, b.shown)
    BY <1>4 DEF Wizard!ConnectionLost
  <2>2. ob_results' = ob_results
    BY <1>4 DEF Wizard!ConnectionLost
  <2> QED BY <1>2, <2>1, <2>2, WizardGoesOn
<1> QED BY <1>3, <1>4

\* The Brain is at work on b: it is read, refused, or written, of no result
\* that is shown unless that is noted.
LEMMA WizardBrain ==
  ASSUME WizardInv, Wizard!bind_slot
  PROVE  WizardInv'
<1> USE DEF Wizard!picker, Wizard!list, Wizard!wizard, Wizard!binder
<1>1. PICK b \in ob_binds : Wizard!get_machine(b) \/ Wizard!_persist(b)
  BY DEF Wizard!bind_slot
<1>2. UNCHANGED <<ob_attempts, ob_loading, ob_templates, ob_pickErr, ob_picks, ob_fetches,
        ob_step, ob_template, ob_machineId, ob_builds, ob_results,
        ob_binding, ob_asked, ob_bound>>
  BY DEF Wizard!bind_slot
<1>3. PICK k \in Nat : k = Len(ob_machines)
  BY DEF WizardInv, WizardTypes
<1>4. /\ b \in WizardBinding(k) /\ b.machine \in 1..k /\ b.slot \in Wizard!Slot /\ b.copy \in WizardSlots
      /\ b.kind \in {"none", "sim", "hardware"} /\ b.heard \in BOOLEAN
  BY <1>3 DEF WizardInv, WizardTypes, WizardBinding
<1>5. ob_machines[b.machine] \in WizardMachine /\ ob_machines \in Seq(WizardMachine)
  BY <1>3, <1>4 DEF WizardInv, WizardTypes
<1>6. ob_machines[b.machine].slots \in WizardSlots /\ Wizard!NoSlots \in WizardSlots
  BY <1>5 DEF WizardMachine, WizardSlots, Wizard!NoSlots
<1> DEFINE New == [b.copy EXCEPT ![b.slot] = b.kind]
<1>7. New \in WizardSlots /\ \A s \in Wizard!Slot : New[s] = IF s = b.slot THEN b.kind ELSE b.copy[s]
  BY <1>4 DEF WizardSlots
<1>22. \A st \in {"read", "answered"}, o \in BOOLEAN, cp \in WizardSlots :
         [b EXCEPT !.stage = st, !.ok = o, !.copy = cp] \in WizardBinding(k)
  <2> TAKE st \in {"read", "answered"}, o \in BOOLEAN, cp \in WizardSlots
  <2> QED BY <1>4 DEF WizardBinding
<1> HIDE DEF New
<1>8. PICK stage \in {"read", "answered"}, ok \in BOOLEAN, copy \in WizardSlots, X \in SUBSET WizardBinding(k) :
        /\ ob_binds' = (ob_binds \ {b}) \union X
        /\ X \subseteq {[b EXCEPT !.stage = stage, !.ok = ok, !.copy = copy]}
        /\ b.heard => X # {}
        /\ stage = "answered" => (b.heard \/ X = {})
        /\ \/ /\ ob_machines' = ob_machines /\ ob_strayed' = ob_strayed
              /\ stage = "read" => copy = ob_machines[b.machine].slots
              /\ stage = "answered" => ~ok
           \/ /\ ob_machines' = [ob_machines EXCEPT ![b.machine].slots = New]
              /\ b.stage = "read" /\ stage = "answered"
              /\ ob_strayed' = IF b.heard \/ b.machine # ob_machineId THEN ob_strayed ELSE ob_strayed \union {"bind"}
  <2>1. ASSUME NEW ok \in BOOLEAN, Wizard!Replied(b, ok)
        PROVE  \E X \in SUBSET WizardBinding(k) :
                      /\ ob_binds' = (ob_binds \ {b}) \union X
                      /\ X \subseteq {[b EXCEPT !.stage = "answered", !.ok = ok, !.copy = Wizard!NoSlots]}
                      /\ b.heard => X # {}
                      /\ b.heard \/ X = {}
    <3>0. [b EXCEPT !.stage = "answered", !.ok = ok, !.copy = Wizard!NoSlots] \in WizardBinding(k)
      BY <1>6, <1>22
    <3>1. PICK X : X = IF b.heard THEN {[b EXCEPT !.stage = "answered", !.ok = ok, !.copy = Wizard!NoSlots]}
                       ELSE {}
      OBVIOUS
    <3>2. X \in SUBSET WizardBinding(k)
      BY <3>0, <3>1
    <3> QED BY <2>1, <3>1, <3>2 DEF Wizard!Replied
  <2>2. CASE Wizard!get_machine(b)
    <3>0. UNCHANGED <<ob_machines, ob_strayed>>
      BY <2>2 DEF Wizard!get_machine
    <3>1. CASE Wizard!Replied(b, FALSE)
      BY <1>6, <2>1, <3>0, <3>1
    <3>2. CASE ob_binds' = (ob_binds \ {b}) \union {[b EXCEPT !.stage = "read", !.copy = ob_machines[b.machine].slots]}
      <4>1. PICK ok : ok = b.ok
        OBVIOUS
      <4>2. ok \in BOOLEAN /\ [b EXCEPT !.stage = "read", !.copy = ob_machines[b.machine].slots]
              = [b EXCEPT !.stage = "read", !.ok = ok, !.copy = ob_machines[b.machine].slots]
        BY <1>4, <4>1 DEF WizardBinding
      <4>3. PICK X : X = {[b EXCEPT !.stage = "read", !.ok = ok, !.copy = ob_machines[b.machine].slots]}
        OBVIOUS
      <4>4. X \in SUBSET WizardBinding(k)
        <5>1. [b EXCEPT !.stage = "read", !.ok = ok, !.copy = ob_machines[b.machine].slots] \in WizardBinding(k)
          BY <1>6, <1>22, <4>2
        <5> QED BY <4>2, <4>3, <5>1
      <4> QED BY <1>6, <3>0, <3>2, <4>2, <4>3, <4>4
    <3> QED BY <2>2, <3>1, <3>2 DEF Wizard!get_machine
  <2>3. CASE Wizard!_persist(b)
    <3>1. PICK ok \in BOOLEAN : Wizard!Replied(b, ok)
      BY <2>3 DEF Wizard!_persist
    <3>2. /\ ob_machines' = [ob_machines EXCEPT ![b.machine].slots = New]
          /\ b.stage = "read"
          /\ ob_strayed' = IF b.heard \/ b.machine # ob_machineId THEN ob_strayed ELSE ob_strayed \union {"bind"}
      BY <2>3 DEF Wizard!_persist, New
    <3> QED BY <1>6, <2>1, <3>1, <3>2
  <2> QED BY <1>1, <2>2, <2>3
<1>9. PICK x : x = [b EXCEPT !.stage = stage, !.ok = ok, !.copy = copy]
  OBVIOUS
<1>10. /\ x \in WizardBinding(k)
       /\ x.machine = b.machine /\ x.slot = b.slot /\ x.kind = b.kind /\ x.queue = b.queue
       /\ x.shown = b.shown /\ x.heard = b.heard /\ x.ok = ok /\ x.stage = stage /\ x.copy = copy
  BY <1>4, <1>9 DEF WizardBinding
<1>11. /\ \A c \in ob_binds' : c = x \/ (c \in ob_binds /\ c # b)
       /\ \A c \in ob_binds : c # b => c \in ob_binds'
       /\ b.heard => x \in ob_binds'
       /\ stage = "answered" /\ x \in ob_binds' /\ x \notin ob_binds => b.heard
  BY <1>8, <1>9
<1>12. PICK z : z = [template |-> ob_machines[b.machine].template, slots |-> New]
  OBVIOUS
<1>13. z \in WizardMachine /\ z.slots = New
  BY <1>5, <1>7, <1>12 DEF WizardMachine
<1>21. [ob_machines EXCEPT ![b.machine].slots = New] = [ob_machines EXCEPT ![b.machine] = z]
  <2>1. z = [ob_machines[b.machine] EXCEPT !.slots = New]
    BY <1>5, <1>12 DEF WizardMachine
  <2> QED BY <2>1
<1>14. ob_machines' = ob_machines \/ ob_machines' = [ob_machines EXCEPT ![b.machine] = z]
  BY <1>8, <1>21
<1>15. /\ ob_machines' \in Seq(WizardMachine) /\ Len(ob_machines') = k
       /\ \A i \in 1..k : i # b.machine => ob_machines'[i] = ob_machines[i]
       /\ ob_machines' # ob_machines => ob_machines'[b.machine] = z
  BY <1>3, <1>4, <1>5, <1>13, <1>14
<1>16. WizardTypes'
  <2>1. ob_strayed' \subseteq {"build", "bind"}
    BY <1>8 DEF WizardInv, WizardTypes, Wizard!TypeOK
  <2>2. Wizard!TypeOK'
    BY <1>2, <1>3, <1>15, <2>1 DEF WizardInv, WizardTypes, Wizard!TypeOK
  <2>3. \A c \in ob_binds' : c \in WizardBinding(k)
    BY <1>3, <1>10, <1>11 DEF WizardInv, WizardTypes
  <2> QED BY <1>2, <1>3, <1>15, <2>2, <2>3 DEF WizardInv, WizardTypes
<1>17. WizardFresh'
  BY <1>2, <1>10, <1>11 DEF WizardInv, WizardFresh
<1>18. WizardHidden' /\ WizardEarly' /\ WizardHeard'
  <2>1. WizardHidden' /\ WizardEarly'
    BY <1>2, <1>10, <1>11 DEF WizardInv, WizardHidden, WizardEarly
  <2>2. WizardHeard'
    BY <1>8, <1>10, <1>11 DEF WizardInv, WizardHeard
  <2> QED BY <2>1, <2>2
<1>19. WizardShown'
  <2>1. \A c \in ob_binds' : c.shown =>
          /\ c.heard /\ c.slot = ob_binding /\ c.slot \notin c.queue
          /\ ob_results[c.slot] = Wizard!Unbound /\ \A s \in c.queue : ob_results[s] = Wizard!Unbound
    BY <1>10, <1>11 DEF WizardInv, WizardShown
  <2>2. \A c, d \in ob_binds' : c.shown /\ d.shown => c = d
    BY <1>10, <1>11 DEF WizardInv, WizardShown
  <2>3. ob_binding # 0 => \E c \in ob_binds' : c.shown
    BY <1>10, <1>11 DEF WizardInv, WizardShown
  <2> QED BY <1>2, <2>1, <2>2, <2>3 DEF WizardShown
<1>20. ASSUME ob_strayed' = {} PROVE WizardResults' /\ WizardWritten'
  <2>1. ob_strayed = {} /\ (ob_machines' # ob_machines /\ b.machine = ob_machineId => b.heard)
    BY <1>8, <1>20
  <2>2. WizardResults /\ WizardWritten
    BY <2>1 DEF WizardInv, WizardKept
  <2>3. ob_machines' # ob_machines /\ b.shown =>
          /\ b.machine = ob_machineId /\ b.copy = ob_machines[b.machine].slots
          /\ \A c \in ob_binds : c.shown => c = b
    BY <1>8, <2>2 DEF WizardWritten, WizardInv, WizardShown
  <2>4. ob_machines' # ob_machines /\ ~b.shown /\ b.machine = ob_machineId =>
          /\ \A c \in ob_binds : ~(c.shown /\ c.machine = ob_machineId)
          /\ \A s \in Wizard!Slot : ob_results[s].machine # ob_machineId
    BY <2>1 DEF WizardInv, WizardHidden
  <2>5. ASSUME NEW s \in Wizard!Slot, ob_results[s] # Wizard!Unbound
        PROVE  ob_results[s].machine = ob_machineId /\ ob_machines'[ob_machineId].slots[s] = ob_results[s].kind
    <3>1. ob_results[s].machine = ob_machineId /\ ob_machines[ob_machineId].slots[s] = ob_results[s].kind
      BY <2>2, <2>5 DEF WizardResults
    <3>2. ob_machineId \in 1..k
      BY <1>3, <2>5, <3>1 DEF WizardInv, WizardTypes, WizardResult
    <3>3. CASE ob_machines'[ob_machineId] = ob_machines[ob_machineId]
      BY <3>1, <3>3
    <3>4. CASE ob_machines'[ob_machineId] # ob_machines[ob_machineId]
      <4>1. ob_machines' # ob_machines /\ b.machine = ob_machineId /\ ob_machines'[b.machine].slots = New
        BY <1>13, <1>15, <3>2, <3>4
      <4>2. b.shown /\ b.copy = ob_machines[b.machine].slots
        BY <2>3, <2>4, <3>1, <4>1
      <4>3. s # b.slot
        BY <2>5, <4>2 DEF WizardInv, WizardShown
      <4> QED BY <1>7, <3>1, <4>1, <4>2, <4>3
    <3> QED BY <3>3, <3>4
  <2>6. ASSUME NEW c \in ob_binds', c.shown
        PROVE  /\ c.machine = ob_machineId
               /\ c.stage = "read" => c.copy = ob_machines'[c.machine].slots
               /\ c.stage = "answered" /\ c.ok => ob_machines'[c.machine].slots[c.slot] = c.kind
    <3>1. CASE c = x
      <4>1. b.shown /\ c.machine = ob_machineId
        BY <1>10, <2>2, <2>6, <3>1 DEF WizardWritten
      <4>2. CASE ob_machines' = ob_machines /\ stage = "read" /\ copy = ob_machines[b.machine].slots
        BY <1>10, <3>1, <4>1, <4>2
      <4>3. CASE ob_machines' = ob_machines /\ stage = "answered" /\ ~ok
        BY <1>10, <3>1, <4>1, <4>3
      <4>4. CASE ob_machines' = [ob_machines EXCEPT ![b.machine].slots = New] /\ stage = "answered"
        <5>1. ob_machines' = [ob_machines EXCEPT ![b.machine] = z]
          BY <1>21, <4>4
        <5>2. ob_machines'[b.machine].slots[b.slot] = b.kind
          BY <1>3, <1>4, <1>5, <1>7, <1>13, <5>1
        <5> QED BY <1>10, <3>1, <4>1, <4>4, <5>2
      <4> QED BY <1>8, <4>2, <4>3, <4>4
    <3>2. CASE c \in ob_binds /\ c # b
      <4>1. /\ c.machine = ob_machineId
            /\ c.stage = "read" => c.copy = ob_machines[c.machine].slots
            /\ c.stage = "answered" /\ c.ok => ob_machines[c.machine].slots[c.slot] = c.kind
        BY <2>2, <2>6, <3>2 DEF WizardWritten
      <4>2. c.machine \in 1..k
        BY <1>3, <3>2 DEF WizardInv, WizardTypes, WizardBinding
      <4>3. ob_machines'[c.machine] = ob_machines[c.machine]
        <5>1. ob_machines' # ob_machines => ~b.shown
          BY <2>3, <2>6, <3>2
        <5>2. ob_machines' # ob_machines => b.machine # c.machine
          BY <2>4, <2>6, <3>2, <4>1, <5>1
        <5> QED BY <1>15, <4>2, <5>2
      <4> QED BY <4>1, <4>3
    <3> QED BY <1>11, <3>1, <3>2
  <2> QED BY <1>2, <2>5, <2>6 DEF WizardResults, WizardWritten
<1> QED BY <1>16, <1>17, <1>18, <1>19, <1>20 DEF WizardInv, WizardKept

\* Every step keeps it.
LEMMA WizardNext ==
  ASSUME WizardInv, [Wizard!Next]_(Wizard!vars)
  PROVE  WizardInv'
<1>1. CASE UNCHANGED Wizard!vars
  <2>1. Wizard!TypeOK' /\ UNCHANGED <<ob_step, ob_asked>>
    BY <1>1 DEF Wizard!vars, WizardInv, WizardTypes, Wizard!TypeOK
  <2> QED BY <1>1, <2>1, WizardQuiet DEF Wizard!vars, WizardInv, WizardTypes
<1> QED BY <1>1, WizardForms, WizardTemplates, WizardBuilds, WizardClicks, WizardAnswers, WizardBrain
    DEF Wizard!Next

\* It holds what the runs check.
LEMMA WizardShows ==
  ASSUME WizardInv
  PROVE  Wizard!TypeOK /\ Wizard!ResultsAreBindings
<1>1. {b.slot : b \in {c \in ob_binds : c.shown}} = {ob_binding} \ {0}
  <2>1. \A b \in ob_binds : b.shown => b.slot = ob_binding /\ ob_binding # 0
    BY WizardBounds DEF WizardInv, WizardTypes, WizardShown, WizardBinding, Wizard!Slot
  <2>2. ob_binding # 0 => \E b \in ob_binds : b.shown
    BY DEF WizardInv, WizardShown
  <2> QED BY <2>1, <2>2
<1>2. Wizard!TypeOK /\ WizardKept
  BY DEF WizardInv, WizardTypes
<1> QED BY <1>1, <1>2 DEF Wizard!ResultsAreBindings, WizardKept, WizardResults

-----------------------------------------------------------------------------
(* The workspace page (MachineControl)                                     *)

\* What is assumed of its constants.
LEMMA ControlBounds ==
  mc_MaxPos \in Nat /\ mc_MaxRequests \in Nat /\ mc_MaxDelay \in Nat
  BY MachinePagesAssumption

\* A request of the palette or of the space bar.
ControlRequest ==
  [n : Nat, op : {"estop", "resume", "move"}, arg : Int, menu : BOOLEAN, done : BOOLEAN]

\* The palette waits exactly while one request of its own is under way.
ControlNetInv ==
  /\ mc_net \subseteq ControlRequest
  /\ mc_busy = \E r \in mc_net : r.menu
  /\ \A q, r \in mc_net : q.menu /\ r.menu => q = r
ControlInv == Control!TypeOK /\ Control!AlwaysReconnecting /\ ControlNetInv

\* It holds of the first state.
LEMMA ControlFirst ==
  ASSUME Control!Init
  PROVE  ControlInv
<1>1. Control!TypeOK
  <2>1. 0 \in Control!Positions /\ 0 \in 0..mc_MaxDelay /\ 0 \in 0..mc_MaxRequests
    BY ControlBounds DEF Control!Positions
  <2>2. mc_state.mode = "offline" /\ mc_state.pos = 0
    BY DEF Control!Init, Control!NoState
  <2> QED BY <2>1, <2>2 DEF Control!Init, Control!TypeOK
<1>2. Control!AlwaysReconnecting /\ ControlNetInv
  BY DEF Control!Init, Control!AlwaysReconnecting, ControlNetInv
<1> QED BY <1>1, <1>2 DEF ControlInv

\* The delay is doubled up to its maximum.
LEMMA ControlDelay ==
  ASSUME NEW d \in 0..mc_MaxDelay
  PROVE  Control!Min({d + 1, mc_MaxDelay}) \in 0..mc_MaxDelay
<1>1. d + 1 \in Nat /\ mc_MaxDelay \in Nat
  BY ControlBounds
<1>2. PICK m : m = Control!Min({d + 1, mc_MaxDelay})
  OBVIOUS
<1>3. \E x \in {d + 1, mc_MaxDelay} : \A y \in {d + 1, mc_MaxDelay} : x <= y
  BY <1>1
<1>4. m \in {d + 1, mc_MaxDelay} /\ \A y \in {d + 1, mc_MaxDelay} : m <= y
  BY <1>2, <1>3 DEF Control!Min
<1> QED BY <1>1, <1>2, <1>4

\* The socket: opened, broken, closed, its timer.
LEMMA ControlHook ==
  ASSUME ControlInv, Control!Hook
  PROVE  ControlInv'
<1>1. ControlNetInv'
  BY DEF ControlInv, ControlNetInv, ControlRequest, Control!Hook, Control!ws_onopen,
     Control!ws_onmessage, Control!ws_onclose, Control!connect
<1>2. Control!TypeOK' /\ Control!AlwaysReconnecting'
  <2>1. CASE Control!ws_onopen
    <3>1. mc_delay' \in 0..mc_MaxDelay
      BY <2>1, ControlBounds DEF Control!ws_onopen
    <3>2. Control!TypeOK'
      BY <2>1, <3>1 DEF ControlInv, Control!ws_onopen, Control!TypeOK, Control!machine, Control!Positions
    <3>3. Control!AlwaysReconnecting'
      BY <2>1 DEF ControlInv, Control!ws_onopen, Control!AlwaysReconnecting
    <3> QED BY <3>2, <3>3
  <2>2. CASE Control!ws_onmessage
    BY <2>2 DEF ControlInv, Control!ws_onmessage, Control!TypeOK, Control!AlwaysReconnecting,
       Control!machine, Control!Positions
  <2>3. CASE Control!ws_onclose
    <3>1. mc_delay' \in 0..mc_MaxDelay
      BY <2>3, ControlDelay DEF ControlInv, Control!ws_onclose, Control!TypeOK
    <3> QED BY <2>3, <3>1 DEF ControlInv, Control!ws_onclose, Control!TypeOK,
            Control!AlwaysReconnecting, Control!machine, Control!Positions
  <2>4. CASE Control!connect
    BY <2>4 DEF ControlInv, Control!connect, Control!TypeOK, Control!AlwaysReconnecting,
       Control!machine, Control!Positions
  <2> QED BY <2>1, <2>2, <2>3, <2>4 DEF Control!Hook
<1> QED BY <1>1, <1>2 DEF ControlInv

\* A request is added with an argument its kind has.
LEMMA ControlPost ==
  ASSUME ControlInv, NEW op \in {"estop", "resume", "move"}, NEW arg \in Int, NEW menu \in BOOLEAN,
         Control!brainPost(op, arg, menu),
         IF menu THEN ~mc_busy /\ mc_busy' = TRUE ELSE UNCHANGED mc_busy
  PROVE  ControlInv'
<1>1. Control!TypeOK
  BY DEF ControlInv
<1>2. mc_sent' \in 0..mc_MaxRequests /\ mc_busy' \in BOOLEAN /\ mc_sent + 1 \in Nat
  <2>1. mc_sent \in 0..mc_MaxRequests /\ mc_sent < mc_MaxRequests /\ mc_sent' = mc_sent + 1
    BY <1>1 DEF Control!TypeOK, Control!brainPost
  <2>2. mc_busy' \in BOOLEAN
    BY <1>1 DEF Control!TypeOK
  <2> QED BY <2>1, <2>2, ControlBounds
<1>3. Control!TypeOK' /\ Control!AlwaysReconnecting'
  BY <1>2 DEF ControlInv, Control!TypeOK, Control!AlwaysReconnecting, Control!brainPost,
     Control!machine, Control!feed, Control!Positions
<1>4. PICK q : q = [n |-> mc_sent + 1, op |-> op, arg |-> arg, menu |-> menu, done |-> FALSE]
  OBVIOUS
<1>5. q \in ControlRequest /\ q.menu = menu
  BY <1>2, <1>4 DEF ControlRequest
<1>6. mc_net' = mc_net \union {q}
  BY <1>4 DEF Control!brainPost
<1>7. ControlNetInv'
  BY <1>5, <1>6 DEF ControlInv, ControlNetInv
<1> QED BY <1>3, <1>7 DEF ControlInv

\* The palette's buttons wait for each other.
LEMMA ControlPalette ==
  ASSUME ControlInv, Control!Palette
  PROVE  ControlInv'
<1>1. mc_state.pos \in Int
  BY ControlBounds DEF ControlInv, Control!TypeOK, Control!Positions
<1>2. CASE Control!EStopButton
  <2>0. PICK arg \in Int : arg = 0
    OBVIOUS
  <2>1. ~mc_busy /\ mc_busy' = TRUE /\ Control!brainPost("estop", arg, TRUE)
    BY <2>0, <1>2 DEF Control!EStopButton, Control!handleEstop, Control!estop
  <2> QED BY <2>1, ControlPost
<1>3. CASE Control!ResumeButton
  <2>0. PICK arg \in Int : arg = 0
    OBVIOUS
  <2>1. ~mc_busy /\ mc_busy' = TRUE /\ Control!brainPost("resume", arg, TRUE)
    BY <2>0, <1>3 DEF Control!ResumeButton, Control!handleResume, Control!resume
  <2> QED BY <2>1, ControlPost
<1>4. CASE \E step \in {-1, 1} : Control!handleJog(step)
  <2>1. PICK step \in {-1, 1} : Control!handleJog(step)
    BY <1>4
  <2>2. mc_state.pos + step \in Int
    BY <1>1
  <2>3. PICK arg \in Int : arg = mc_state.pos + step
    BY <2>2
  <2>4. ~mc_busy /\ mc_busy' = TRUE /\ Control!brainPost("move", arg, TRUE)
    BY <2>1, <2>3 DEF Control!handleJog, Control!jog, Control!isDisabled
  <2> QED BY <2>4, ControlPost
<1>5. CASE Control!SpaceBar
  <2>0. PICK arg \in Int : arg = 0
    OBVIOUS
  <2>1. UNCHANGED mc_busy /\ Control!brainPost("estop", arg, FALSE)
    BY <2>0, <1>5 DEF Control!SpaceBar, Control!estop
  <2> QED BY <2>1, ControlPost
<1>6. CASE mc_popovers' \subseteq {"jog", "cartesian"}
           /\ UNCHANGED <<Control!machine, Control!feed, mc_busy, mc_net, mc_sent>>
  BY <1>6 DEF ControlInv, ControlNetInv, Control!TypeOK, Control!AlwaysReconnecting,
     Control!machine, Control!feed, Control!Positions
<1> QED BY <1>2, <1>3, <1>4, <1>5, <1>6 DEF Control!Palette, Control!JogButton,
        Control!CartesianButton, Control!JogPopover, Control!CartesianPopover

\* The Brain answers one request.
LEMMA ControlServe ==
  ASSUME ControlInv, Control!Serve
  PROVE  ControlInv'
<1>1. PICK r \in mc_net :
        /\ mc_net' = (mc_net \ {r}) \union {[r EXCEPT !.done = TRUE]}
        /\ \/ mc_mode' \in {"idle", "estopped"} /\ UNCHANGED mc_pos
           \/ mc_pos' \in Control!Positions /\ UNCHANGED mc_mode
           \/ UNCHANGED Control!machine
        /\ UNCHANGED <<Control!feed, mc_busy, mc_popovers, mc_sent>>
  BY DEF Control!Serve
<1>2. Control!TypeOK' /\ Control!AlwaysReconnecting'
  BY <1>1 DEF ControlInv, Control!TypeOK, Control!AlwaysReconnecting,
     Control!machine, Control!feed, Control!Positions
<1>3. PICK q : q = [r EXCEPT !.done = TRUE]
  OBVIOUS
<1>4. r \in ControlRequest /\ q \in ControlRequest /\ q.menu = r.menu
  BY <1>3 DEF ControlInv, ControlNetInv, ControlRequest
<1>5. mc_net' = (mc_net \ {r}) \union {q} /\ UNCHANGED mc_busy
  BY <1>1, <1>3
<1>6. ControlNetInv'
  BY <1>4, <1>5 DEF ControlInv, ControlNetInv
<1> QED BY <1>2, <1>6 DEF ControlInv

\* The answer of a request of the palette ends its wait.
LEMMA ControlAnswer ==
  ASSUME ControlInv, Control!Answer
  PROVE  ControlInv'
<1>1. PICK r \in mc_net :
        /\ mc_net' = mc_net \ {r}
        /\ mc_busy' = (mc_busy /\ ~r.menu)
        /\ UNCHANGED <<Control!machine, Control!feed, mc_popovers, mc_sent>>
  BY DEF Control!Answer
<1>2. r.menu \in BOOLEAN /\ mc_busy \in BOOLEAN /\ \A q \in mc_net : q.menu \in BOOLEAN
  BY DEF ControlInv, ControlNetInv, ControlRequest, Control!TypeOK
<1>3. Control!TypeOK' /\ Control!AlwaysReconnecting'
  BY <1>1, <1>2 DEF ControlInv, Control!TypeOK, Control!AlwaysReconnecting,
     Control!machine, Control!feed, Control!Positions
<1>4. ControlNetInv'
  BY <1>1, <1>2 DEF ControlInv, ControlNetInv
<1> QED BY <1>3, <1>4 DEF ControlInv

\* Every step keeps it.
LEMMA ControlNext ==
  ASSUME ControlInv, [Control!Next]_(Control!vars)
  PROVE  ControlInv'
<1>1. CASE Control!Others
  BY <1>1 DEF ControlInv, ControlNetInv, Control!Others, Control!TypeOK, Control!AlwaysReconnecting,
     Control!feed, Control!Positions
<1>2. CASE UNCHANGED Control!vars
  BY <1>2 DEF ControlInv, ControlNetInv, Control!vars, Control!TypeOK, Control!AlwaysReconnecting,
     Control!Positions
<1> QED BY <1>1, <1>2, ControlHook, ControlPalette, ControlServe, ControlAnswer DEF Control!Next

\* The part counts with the operator of FiniteSets.
LEMMA ControlCardinality ==
  ASSUME NEW S
  PROVE  Control!Cardinality(S) = Cardinality(S)
BY DEF Control!Cardinality, Cardinality

\* It holds what the runs check.
LEMMA ControlShows ==
  ASSUME ControlInv
  PROVE  Control!TypeOK /\ Control!AlwaysReconnecting /\ Control!BusyIsOneRequest
<1>1. PICK menu : menu = {r \in mc_net : r.menu}
  OBVIOUS
<1>2. mc_busy \in BOOLEAN /\ Control!TypeOK /\ Control!AlwaysReconnecting
  BY DEF ControlInv, Control!TypeOK
<1>3. Cardinality(menu) = IF mc_busy THEN 1 ELSE 0
  <2>1. CASE mc_busy
    <3>1. PICK r \in mc_net : r.menu
      BY <2>1 DEF ControlInv, ControlNetInv
    <3>2. menu = {r}
      BY <1>1, <3>1 DEF ControlInv, ControlNetInv
    <3> QED BY <2>1, <3>2, FS_Singleton
  <2>2. CASE ~mc_busy
    <3>1. menu = {}
      BY <1>1, <2>2 DEF ControlInv, ControlNetInv
    <3> QED BY <2>2, <3>1, FS_EmptySet
  <2> QED BY <2>1, <2>2
<1>4. Control!BusyIsOneRequest
  BY <1>1, <1>3, ControlCardinality DEF Control!BusyIsOneRequest
<1> QED BY <1>2, <1>4
-----------------------------------------------------------------------------
(* The jog panel (JogPanel)                                                *)

\* What is assumed of its constants.
LEMMA JogBounds ==
  jp_MaxCoord \in Nat /\ jp_MaxJogs \in Nat /\ jp_Tool \in Nat
  BY MachinePagesAssumption

\* A request of the panel; a moved one is what the machine was sent to last.
JogRequest == [n : Nat, pose : Jog!Poses, stage : {"preview", "move", "moved"}]
JogInv ==
  /\ Jog!TypeOK /\ Jog!TargetIsCommanded
  /\ jp_reqs \subseteq JogRequest
  /\ ~jp_busy => jp_reqs = {}
  /\ \A q, r \in jp_reqs : q = r
  /\ \A r \in jp_reqs : r.stage = "moved" => r.pose = jp_commanded

\* The pose the panel starts at is one.
LEMMA JogStart ==
  Jog!Start \in Jog!Poses
BY JogBounds DEF Jog!Start, Jog!Poses

\* It holds of the first state.
LEMMA JogFirst ==
  ASSUME Jog!Init
  PROVE  JogInv
<1>1. Jog!TypeOK
  <2>1. Jog!LastJoint(Jog!Start) \in Jog!Poses \union {Jog!LastJoint(p) : p \in Jog!Poses}
    BY JogStart
  <2>2. jp_commanded \in Jog!Poses
        /\ {jp_live, jp_target} \subseteq Jog!Poses \union {Jog!LastJoint(p) : p \in Jog!Poses}
    BY <2>1, JogStart DEF Jog!Init
  <2>3. 0 \in 0..jp_MaxJogs
    BY JogBounds
  <2> QED BY <2>2, <2>3 DEF Jog!Init, Jog!TypeOK, Jog!Branches
<1>2. Jog!TargetIsCommanded
  BY DEF Jog!Init, Jog!TargetIsCommanded
<1> QED BY <1>1, <1>2 DEF Jog!Init, JogInv

\* A jog is sent from the pose the panel aims at.
LEMMA JogSent ==
  ASSUME JogInv, NEW pose, Jog!sendJog(pose), jp_branchPref' \in Jog!Branches,
         UNCHANGED <<jp_live, jp_commanded, jp_target, jp_lastResult, jp_frame>>
  PROVE  JogInv'
<1>1. /\ ~jp_busy /\ jp_busy' = TRUE /\ jp_error' = FALSE /\ pose \in Jog!Poses
      /\ jp_jogs' = jp_jogs + 1 /\ jp_jogs \in 0..jp_MaxJogs /\ jp_jogs < jp_MaxJogs
  BY DEF Jog!sendJog, JogInv, Jog!TypeOK
<1>2. jp_jogs' \in 0..jp_MaxJogs /\ jp_jogs + 1 \in Nat
  BY <1>1, JogBounds
<1>3. PICK q : q = [n |-> jp_jogs + 1, pose |-> pose, stage |-> "preview"]
  OBVIOUS
<1>4. jp_reqs' = {q} /\ q \in JogRequest /\ q.stage = "preview" /\ q.pose = pose
  BY <1>1, <1>2, <1>3 DEF Jog!sendJog, JogInv, JogRequest
<1>5. Jog!TypeOK'
  <2>1. \A r \in jp_reqs' : r.pose \in Jog!Poses /\ r.stage \in {"preview", "move", "moved"}
    BY <1>1, <1>4
  <2> QED BY <1>1, <1>2, <2>1 DEF JogInv, Jog!TypeOK, Jog!Branches, Jog!Poses
<1>6. Jog!TargetIsCommanded'
  BY <1>1 DEF Jog!TargetIsCommanded
<1> QED BY <1>1, <1>4, <1>5, <1>6 DEF JogInv, JogRequest, Jog!Poses

\* The buttons of the panel.
LEMMA JogClick ==
  ASSUME JogInv, Jog!Click
  PROVE  JogInv'
<1>1. /\ UNCHANGED <<jp_live, jp_commanded, jp_target, jp_lastResult>>
      /\ jp_branchPref \in Jog!Branches
  BY DEF Jog!Click, JogInv, Jog!TypeOK
<1>2. CASE Jog!TranslationRows
  BY <1>1, <1>2, JogSent DEF Jog!TranslationRows, Jog!jog
<1>3. CASE \E sign \in {-1, 1} : Jog!rotJog(sign) /\ UNCHANGED <<jp_frame, jp_branchPref>>
  BY <1>1, <1>3, JogSent DEF Jog!rotJog
<1>4. CASE /\ jp_frame' \in {"tool", "world"} \ {jp_frame}
           /\ UNCHANGED <<jp_error, jp_busy, jp_reqs, jp_jogs, jp_branchPref>>
  BY <1>1, <1>4 DEF JogInv, Jog!TypeOK, Jog!TargetIsCommanded, JogRequest, Jog!Poses, Jog!Branches
<1>5. CASE Jog!BranchRow
  <2>1. PICK b \in Jog!Branches : Jog!selectBranch(b) /\ UNCHANGED jp_frame
    BY <1>5 DEF Jog!BranchRow
  <2>2. PICK pose : pose = jp_target
    OBVIOUS
  <2>3. jp_branchPref' = b /\ Jog!sendJog(pose)
    BY <2>1, <2>2 DEF Jog!selectBranch
  <2>4. jp_branchPref' \in Jog!Branches
    BY <2>3
  <2> QED BY <1>1, <2>1, <2>3, <2>4, JogSent
<1> QED BY <1>2, <1>3, <1>4, <1>5 DEF Jog!Click, Jog!RotationRows

\* A jog goes from preview to move to its answer.
LEMMA JogProgress ==
  ASSUME JogInv, Jog!Progress
  PROVE  JogInv'
<1>1. PICK r \in jp_reqs :
       \/ r.stage = "preview" /\ Jog!Solved(r)
       \/ r.stage = "move" /\ Jog!Moved(r)
       \/ r.stage = "moved" /\ Jog!Acknowledged(r)
       \/ Jog!Failed(r) /\ UNCHANGED jp_commanded
  BY DEF Jog!Progress
<1>2. UNCHANGED <<jp_live, jp_branchPref, jp_frame, jp_jogs>>
  BY DEF Jog!Progress
<1>3. jp_reqs = {r} /\ r \in JogRequest /\ r.pose \in Jog!Poses /\ jp_busy
  BY DEF JogInv, JogRequest, Jog!TypeOK
<1>4. Jog!Other(r) = {}
  BY <1>3 DEF Jog!Other
<1>5. ASSUME Jog!Done(r), jp_error' \in BOOLEAN, jp_lastResult' \in {"none", "solved", "blocked"},
             UNCHANGED jp_commanded, jp_target' \in {jp_target, r.pose},
             Jog!TargetIsCommanded'
      PROVE  JogInv'
  <2>1. jp_reqs' = {} /\ jp_busy' = FALSE
    BY <1>4, <1>5 DEF Jog!Done
  <2>2. Jog!TypeOK'
    BY <1>2, <1>3, <1>5, <2>1 DEF JogInv, Jog!TypeOK, Jog!Branches, Jog!Poses
  <2> QED BY <1>5, <2>1, <2>2 DEF JogInv
<1>6. ASSUME NEW stage \in {"move", "moved"}, jp_reqs' = Jog!Other(r) \union {[r EXCEPT !.stage = stage]},
             UNCHANGED <<jp_error, jp_busy, jp_target>>, jp_lastResult' \in {"none", "solved", "blocked"},
             jp_commanded' \in Jog!Poses, stage = "moved" => jp_commanded' = r.pose
      PROVE  JogInv'
  <2>1. PICK q : q = [r EXCEPT !.stage = stage]
    OBVIOUS
  <2>2. jp_reqs' = {q}
    BY <1>4, <1>6, <2>1
  <2>3. q \in JogRequest /\ q.pose = r.pose /\ q.stage = stage
    BY <1>3, <2>1 DEF JogRequest
  <2>4. \A p \in jp_reqs' : p.pose \in Jog!Poses /\ p.stage \in {"preview", "move", "moved"}
    BY <1>3, <1>6, <2>2, <2>3
  <2>5. Jog!TypeOK'
    BY <1>2, <1>6, <2>4 DEF JogInv, Jog!TypeOK, Jog!Branches, Jog!Poses
  <2>6. Jog!TargetIsCommanded'
    BY <1>3, <1>6 DEF Jog!TargetIsCommanded
  <2> QED BY <1>3, <1>6, <2>2, <2>3, <2>5, <2>6 DEF JogInv, JogRequest, Jog!Poses
<1>7. jp_commanded \in Jog!Poses /\ jp_error \in BOOLEAN /\ jp_lastResult \in {"none", "solved", "blocked"}
  BY DEF JogInv, Jog!TypeOK
<1>8. CASE Jog!Solved(r)
  <2>1. CASE jp_lastResult' = "blocked"
    BY <1>5, <1>7, <1>8, <2>1 DEF Jog!Solved, Jog!TargetIsCommanded
  <2>2. CASE jp_lastResult' # "blocked"
    BY <1>6, <1>7, <1>8, <2>2 DEF Jog!Solved
  <2> QED BY <2>1, <2>2
<1>9. CASE Jog!Moved(r)
  <2>1. UNCHANGED <<jp_error, jp_busy, jp_target, jp_lastResult>> /\ jp_commanded' = r.pose
        /\ jp_reqs' = Jog!Other(r) \union {[r EXCEPT !.stage = "moved"]}
    BY <1>9 DEF Jog!Moved, Jog!shown
  <2> QED BY <1>3, <1>6, <1>7, <2>1
<1>10. CASE r.stage = "moved" /\ Jog!Acknowledged(r)
  <2>1. r.pose = jp_commanded
    BY <1>10 DEF JogInv
  <2> QED BY <1>5, <1>7, <1>10, <2>1 DEF Jog!Acknowledged, Jog!TargetIsCommanded
<1>11. CASE Jog!Failed(r) /\ UNCHANGED jp_commanded
  BY <1>5, <1>7, <1>11 DEF Jog!Failed, Jog!TargetIsCommanded
<1> QED BY <1>1, <1>8, <1>9, <1>10, <1>11

\* Every step keeps it.
LEMMA JogNext ==
  ASSUME JogInv, [Jog!Next]_(Jog!vars)
  PROVE  JogInv'
<1>1. CASE Jog!ReAnchor
  BY <1>1 DEF Jog!ReAnchor, Jog!resetToCurrent, JogInv, Jog!TypeOK, Jog!TargetIsCommanded,
     Jog!Branches, Jog!Poses, JogRequest
<1>2. CASE Jog!Telemetry
  <2>1. jp_live' \in Jog!Poses \union {Jog!LastJoint(p) : p \in Jog!Poses}
    BY <1>2 DEF Jog!Telemetry, JogInv, Jog!TypeOK
  <2>2. jp_target' = IF jp_lastResult = "none" THEN jp_live' ELSE jp_target
    BY <1>2 DEF Jog!Telemetry, Jog!Follow
  <2>3. UNCHANGED <<jp_commanded, jp_lastResult, jp_error, jp_busy, jp_branchPref, jp_frame,
                    jp_reqs, jp_jogs>>
    BY <1>2 DEF Jog!Telemetry
  <2>4. Jog!TypeOK'
    BY <2>1, <2>2, <2>3 DEF JogInv, Jog!TypeOK, Jog!Branches, Jog!Poses
  <2>5. Jog!TargetIsCommanded'
    BY <2>2, <2>3 DEF JogInv, Jog!TargetIsCommanded
  <2> QED BY <2>3, <2>4, <2>5 DEF JogInv, JogRequest, Jog!Poses
<1>3. CASE UNCHANGED Jog!vars
  BY <1>3 DEF Jog!vars, JogInv, Jog!TypeOK, Jog!TargetIsCommanded,
     Jog!Branches, Jog!Poses, JogRequest
<1> QED BY <1>1, <1>2, <1>3, JogClick, JogProgress DEF Jog!Next

\* It holds what the runs check.
LEMMA JogShows ==
  ASSUME JogInv
  PROVE  Jog!TypeOK /\ Jog!TargetIsCommanded
BY DEF JogInv
-----------------------------------------------------------------------------
(* The overlay of the workspace (Workspace)                                *)

\* What is assumed of its constants.
LEMMA OverlayBounds ==
  ws_MaxFetches \in Nat /\ ws_MaxEdits \in Nat
  BY MachinePagesAssumption

\* A request of the page: an overlay's is numbered, an edit is one applied.
OverlayRequest ==
  [op : {"hull", "open", "apply"}, arg : Nat, on : BOOLEAN, stage : {"sent", "answered"},
   ok : BOOLEAN, dh : 0..ws_MaxEdits]
OverlayRequests ==
  /\ ws_reqs \subseteq OverlayRequest
  /\ \A r \in ws_reqs : /\ r.op = "hull" => r.arg \in 1..ws_MaxFetches /\ r.arg <= ws_fetchCounter
                        /\ r.op = "apply" => r.arg \in 1..ws_MaxEdits

\* The overlay shown is that of its last request, or loads, or failed.
OverlayOwn ==
  /\ Overlay!enabled => ws_fetchCounter > 0
  /\ Overlay!enabled /\ ~ws_loading => ws_fetchError \/ ws_data.n = ws_fetchCounter
  /\ ws_data.n <= ws_fetchCounter

\* Nothing keeps the overlay from the Brain's geometry.
OverlayKept == ws_dh \notin ws_missed /\ \A r \in ws_reqs : r.op = "apply" => r.arg # ws_dh

\* Then the last request's answer, and what it brought, are of that geometry.
OverlayAnswersDh ==
  \A r \in ws_reqs : r.op = "hull" /\ r.stage = "answered" /\ r.arg = ws_fetchCounter => r.dh = ws_dh
OverlayShowsDh == ws_data.n = ws_fetchCounter /\ ws_fetchCounter > 0 => ws_data.dh = ws_dh
OverlayFresh == OverlayKept => OverlayAnswersDh /\ OverlayShowsDh

OverlayInv ==
  /\ Overlay!TypeOK
  /\ ws_editor \in [on : BOOLEAN, dh : 0..ws_MaxEdits]
  /\ ws_opened \in 0..ws_MaxEdits /\ ws_applied \in 0..ws_MaxEdits
  /\ OverlayRequests /\ OverlayOwn /\ OverlayFresh

\* At first nothing is shown and nothing asked for.
LEMMA OverlayFirst ==
  ASSUME Overlay!Init
  PROVE  OverlayInv
<1>1. /\ ws_loading \in BOOLEAN /\ ws_fetchError \in BOOLEAN
      /\ ws_editLoading \in BOOLEAN /\ ws_editError \in BOOLEAN
  BY DEF Overlay!Init
<1>2. ~Overlay!enabled
  BY DEF Overlay!Init, Overlay!enabled
<1>3. Overlay!TypeOK
  BY OverlayBounds, <1>1 DEF Overlay!Init, Overlay!NoData, Overlay!TypeOK
<1>4. OverlayRequests /\ OverlayOwn /\ OverlayFresh
  BY OverlayBounds, <1>2 DEF Overlay!Init, Overlay!NoData, OverlayRequests, OverlayOwn, OverlayFresh,
     OverlayAnswersDh, OverlayShowsDh
<1> QED BY OverlayBounds, <1>3, <1>4 DEF Overlay!Init, OverlayInv

\* A request the page sends: those there were keep their form.
LEMMA OverlayAsks ==
  ASSUME OverlayInv, NEW op \in {"open", "apply"}, NEW arg \in Nat, NEW on \in BOOLEAN,
         op = "apply" => arg \in 1..ws_MaxEdits, ws_fetchCounter' = ws_fetchCounter,
         ws_reqs' = ws_reqs \union {Overlay!Request(op, arg, on)}
  PROVE  /\ OverlayRequests'
         /\ \A r \in ws_reqs' : r.stage = "answered" => r \in ws_reqs
<1>1. PICK q : q = Overlay!Request(op, arg, on)
  OBVIOUS
<1>2. q \in OverlayRequest /\ q.op = op /\ q.arg = arg /\ q.stage = "sent"
  BY <1>1, OverlayBounds DEF Overlay!Request, OverlayRequest
<1> QED BY <1>1, <1>2 DEF OverlayInv, OverlayRequests

\* The hook after a fetch by a closure that holds on: it loads, with a number
\* no answer has, or is as before.
LEMMA OverlayFetch ==
  ASSUME OverlayInv, NEW on \in BOOLEAN, NEW rest \in SUBSET ws_reqs, Overlay!doFetch(on, rest)
  PROVE  /\ OverlayRequests' /\ ws_data' = ws_data
         /\ IF on THEN /\ ws_loading' = TRUE /\ ws_fetchError' = FALSE
                       /\ ws_fetchCounter' = ws_fetchCounter + 1 /\ ws_fetchCounter' \in 1..ws_MaxFetches
                       /\ \A r \in ws_reqs' : ~(r.op = "hull" /\ r.stage = "answered"
                                                  /\ r.arg = ws_fetchCounter')
                  ELSE ws_reqs' = rest /\ UNCHANGED <<ws_loading, ws_fetchError, ws_fetchCounter>>
<1>0. ws_fetchCounter \in 0..ws_MaxFetches
  BY DEF OverlayInv, Overlay!TypeOK
<1>1. CASE on
  <2>1. /\ ws_fetchCounter < ws_MaxFetches /\ ws_fetchCounter' = ws_fetchCounter + 1
        /\ ws_loading' = TRUE /\ ws_fetchError' = FALSE /\ ws_data' = ws_data
        /\ ws_reqs' = rest \union {Overlay!Request("hull", ws_fetchCounter + 1, TRUE)}
    BY <1>1 DEF Overlay!doFetch
  <2>2. PICK n : n = ws_fetchCounter + 1
    OBVIOUS
  <2>3. n \in Nat /\ n \in 1..ws_MaxFetches /\ ws_fetchCounter < n /\ ws_fetchCounter' = n
    BY <1>0, <2>1, <2>2, OverlayBounds
  <2>4. PICK q : q = Overlay!Request("hull", n, TRUE)
    OBVIOUS
  <2>5. q \in OverlayRequest /\ q.op = "hull" /\ q.arg = n /\ q.stage = "sent"
    BY <2>3, <2>4, OverlayBounds DEF Overlay!Request, OverlayRequest
  <2>6. ws_reqs' = rest \union {q}
    BY <2>1, <2>2, <2>4
  <2>7. \A r \in rest : r \in OverlayRequest /\ (r.op = "hull" => r.arg \in 1..ws_MaxFetches /\ r.arg < n)
                        /\ (r.op = "apply" => r.arg \in 1..ws_MaxEdits)
    BY <1>0, <2>2, <2>3 DEF OverlayInv, OverlayRequests
  <2>8. OverlayRequests'
    BY <2>3, <2>5, <2>6, <2>7 DEF OverlayRequests
  <2>9. \A r \in ws_reqs' : ~(r.op = "hull" /\ r.stage = "answered" /\ r.arg = ws_fetchCounter')
    BY <2>3, <2>5, <2>6, <2>7
  <2> QED BY <1>1, <2>1, <2>2, <2>3, <2>8, <2>9
<1>2. CASE ~on
  <2>1. ws_reqs' = rest /\ UNCHANGED <<ws_data, ws_loading, ws_fetchError, ws_fetchCounter>>
    BY <1>2 DEF Overlay!doFetch, Overlay!hook
  <2> QED BY <1>2, <2>1 DEF OverlayInv, OverlayRequests
<1> QED BY <1>1, <1>2

\* A toggle: the overlay goes, starts to load, or stays as it is.
LEMMA OverlayToggles ==
  ASSUME OverlayInv, Overlay!ToggleOverlay
  PROVE  OverlayInv'
<1> USE DEF Overlay!hook, Overlay!edit, Overlay!brain
<1>1. ws_overlay' \in [hull : BOOLEAN, samples : BOOLEAN] /\ (ws_overlay'.samples => ws_overlay'.hull)
  <2>1. ws_overlay \in [hull : BOOLEAN, samples : BOOLEAN]
    BY DEF OverlayInv, Overlay!TypeOK
  <2>2. CASE Overlay!onToggleReachability
    BY <2>1, <2>2 DEF Overlay!onToggleReachability
  <2>3. CASE Overlay!onToggleWorkspaceSamples
    BY <2>1, <2>3 DEF Overlay!onToggleWorkspaceSamples
  <2> QED BY <2>2, <2>3 DEF Overlay!ToggleOverlay
<1>2. /\ Overlay!EnabledEffect
      /\ UNCHANGED <<ws_dh, ws_cached, ws_missed, ws_shownDh, ws_editor, ws_editLoading, ws_editError,
                     ws_opened, ws_applied>>
  BY DEF Overlay!ToggleOverlay
<1>3. Overlay!enabled' <=> ws_overlay'.hull \/ ws_overlay'.samples
  BY DEF Overlay!enabled
<1>8. /\ Overlay!TypeOK /\ OverlayRequests /\ OverlayOwn /\ OverlayFresh
      /\ ws_editor \in [on : BOOLEAN, dh : 0..ws_MaxEdits]
      /\ ws_opened \in 0..ws_MaxEdits /\ ws_applied \in 0..ws_MaxEdits
  BY DEF OverlayInv
<1>4. CASE (ws_overlay'.hull \/ ws_overlay'.samples) = Overlay!enabled
  <2>1. UNCHANGED <<ws_data, ws_loading, ws_fetchError, ws_fetchCounter, ws_reqs>>
    BY <1>2, <1>4 DEF Overlay!EnabledEffect
  <2>2. Overlay!TypeOK'
    BY <1>1, <1>2, <1>8, <2>1 DEF Overlay!TypeOK
  <2>3. OverlayRequests' /\ OverlayFresh'
    BY <1>2, <1>8, <2>1 DEF OverlayRequests, OverlayFresh, OverlayKept, OverlayAnswersDh, OverlayShowsDh
  <2>4. OverlayOwn'
    BY <1>3, <1>4, <1>8, <2>1 DEF OverlayOwn
  <2> QED BY <1>2, <1>8, <2>2, <2>3, <2>4 DEF OverlayInv
<1>5. CASE (ws_overlay'.hull \/ ws_overlay'.samples) /\ ~Overlay!enabled
  <2>1. Overlay!doFetch(TRUE, ws_reqs)
    BY <1>2, <1>5 DEF Overlay!EnabledEffect
  <2>2. /\ OverlayRequests' /\ ws_data' = ws_data /\ ws_loading' = TRUE /\ ws_fetchError' = FALSE
        /\ ws_fetchCounter' = ws_fetchCounter + 1 /\ ws_fetchCounter' \in 1..ws_MaxFetches
        /\ \A r \in ws_reqs' : ~(r.op = "hull" /\ r.stage = "answered" /\ r.arg = ws_fetchCounter')
    BY <2>1, OverlayFetch
  <2>3. Overlay!TypeOK'
    <3>1. ws_loading' \in BOOLEAN /\ ws_fetchError' \in BOOLEAN
      BY <2>2, Zenon
    <3>2. ws_fetchCounter' \in 0..ws_MaxFetches
      BY <2>2, OverlayBounds
    <3> QED BY <1>1, <1>2, <1>8, <2>2, <3>1, <3>2 DEF Overlay!TypeOK
  <2>4. OverlayOwn' /\ OverlayFresh'
    BY <1>8, <2>2 DEF OverlayOwn, OverlayFresh, OverlayAnswersDh, OverlayShowsDh, Overlay!TypeOK
  <2> QED BY <1>2, <1>8, <2>2, <2>3, <2>4 DEF OverlayInv
<1>6. CASE ~(ws_overlay'.hull \/ ws_overlay'.samples) /\ Overlay!enabled
  <2>1. /\ ws_data' = Overlay!NoData /\ ws_loading' = FALSE /\ ws_fetchError' = FALSE
        /\ UNCHANGED <<ws_fetchCounter, ws_reqs>>
    BY <1>2, <1>6 DEF Overlay!EnabledEffect
  <2>2. ~Overlay!enabled'
    BY <1>3, <1>6
  <2>3. ws_data' \in [n : 0..ws_MaxFetches, dh : 0..ws_MaxEdits] /\ ws_data'.n = 0
    BY <2>1, OverlayBounds DEF Overlay!NoData
  <2>4. Overlay!TypeOK'
    BY <1>1, <1>2, <1>8, <2>1, <2>3 DEF Overlay!TypeOK
  <2>5. OverlayRequests' /\ OverlayFresh'
    BY <1>2, <1>8, <2>1, <2>3 DEF OverlayRequests, OverlayFresh, OverlayKept, OverlayAnswersDh, OverlayShowsDh
  <2>6. OverlayOwn'
    BY <1>8, <2>1, <2>2, <2>3 DEF OverlayOwn, Overlay!TypeOK
  <2> QED BY <1>2, <1>8, <2>4, <2>5, <2>6 DEF OverlayInv
<1>7. ws_overlay'.hull \/ ws_overlay'.samples \/ ~(ws_overlay'.hull \/ ws_overlay'.samples)
  OBVIOUS
<1> QED BY <1>1, <1>4, <1>5, <1>6, <1>7, <1>8 DEF Overlay!TypeOK, Overlay!enabled

\* The editor is opened, applies or is closed: the overlay is as before.
LEMMA OverlayEdits ==
  ASSUME OverlayInv, Overlay!handleOpenEdit \/ Overlay!handleApplyEdit \/ Overlay!Cancel
  PROVE  OverlayInv'
<1> USE DEF Overlay!hook, Overlay!brain
<1>1. UNCHANGED <<ws_dh, ws_cached, ws_missed, ws_shownDh, ws_overlay, ws_data, ws_loading, ws_fetchError,
                  ws_fetchCounter>>
  BY DEF Overlay!handleOpenEdit, Overlay!handleApplyEdit, Overlay!Cancel
<1>0. /\ Overlay!TypeOK /\ OverlayRequests /\ OverlayOwn /\ OverlayFresh
      /\ ws_editor \in [on : BOOLEAN, dh : 0..ws_MaxEdits]
      /\ ws_opened \in 0..ws_MaxEdits /\ ws_applied \in 0..ws_MaxEdits
  BY DEF OverlayInv
<1>2. /\ ws_editor' \in [on : BOOLEAN, dh : 0..ws_MaxEdits]
      /\ ws_opened' \in 0..ws_MaxEdits /\ ws_applied' \in 0..ws_MaxEdits
  <2>1. ws_editor' \in {ws_editor, [ws_editor EXCEPT !.on = FALSE]}
    BY DEF Overlay!handleOpenEdit, Overlay!handleApplyEdit, Overlay!Cancel
  <2>2. ws_editor' \in [on : BOOLEAN, dh : 0..ws_MaxEdits]
    BY <1>0, <2>1
  <2>3. ws_opened' \in 0..ws_MaxEdits /\ ws_applied' \in 0..ws_MaxEdits
    <3>1. /\ ws_opened' = ws_opened \/ (ws_opened' = ws_opened + 1 /\ ws_opened < ws_MaxEdits)
          /\ ws_applied' = ws_applied \/ (ws_applied' = ws_applied + 1 /\ ws_applied < ws_MaxEdits)
      BY DEF Overlay!handleOpenEdit, Overlay!handleApplyEdit, Overlay!Cancel
    <3> QED BY <1>0, <3>1, OverlayBounds
  <2> QED BY <2>2, <2>3
<1>3. ws_editLoading' \in BOOLEAN /\ ws_editError' \in BOOLEAN
  BY <1>0 DEF Overlay!handleOpenEdit, Overlay!handleApplyEdit, Overlay!Cancel, Overlay!TypeOK
<1>4. /\ OverlayRequests' /\ ws_reqs \subseteq ws_reqs'
      /\ \A r \in ws_reqs' : r.stage = "answered" => r \in ws_reqs
  <2>1. CASE Overlay!handleOpenEdit
    <3>1. PICK n : n = ws_opened + 1
      OBVIOUS
    <3>2. n \in Nat /\ ws_reqs' = ws_reqs \union {Overlay!Request("open", n, FALSE)}
      BY <1>0, <2>1, <3>1 DEF Overlay!handleOpenEdit
    <3> QED BY <1>1, <3>2, OverlayAsks
  <2>2. CASE Overlay!handleApplyEdit
    <3>1. PICK n, on : n = ws_applied + 1 /\ on = Overlay!enabled
      OBVIOUS
    <3>2. n \in 1..ws_MaxEdits /\ n \in Nat /\ ws_reqs' = ws_reqs \union {Overlay!Request("apply", n, on)}
      BY <1>0, <2>2, <3>1, OverlayBounds DEF Overlay!handleApplyEdit
    <3>3. on \in BOOLEAN
      BY <1>0, <3>1 DEF Overlay!enabled, Overlay!TypeOK
    <3> QED BY <1>1, <3>2, <3>3, OverlayAsks
  <2>3. CASE Overlay!Cancel
    <3>1. ws_reqs' = ws_reqs
      BY <2>3 DEF Overlay!Cancel
    <3> QED BY <1>0, <1>1, <3>1 DEF OverlayRequests
  <2> QED BY <2>1, <2>2, <2>3
<1>5. OverlayFresh'
  BY <1>0, <1>1, <1>4 DEF OverlayFresh, OverlayKept, OverlayAnswersDh, OverlayShowsDh
<1>6. Overlay!TypeOK' /\ OverlayOwn'
  BY <1>0, <1>1, <1>3 DEF Overlay!TypeOK, OverlayOwn, Overlay!enabled
<1> QED BY <1>2, <1>4, <1>5, <1>6 DEF OverlayInv

\* A request is served: an overlay with the geometry of that moment, or one
\* the Brain could not compute anew, which is noted.
LEMMA OverlayServe ==
  ASSUME OverlayInv, Overlay!Serve
  PROVE  OverlayInv'
<1> USE DEF Overlay!hook, Overlay!edit, Overlay!brain
<1>1. PICK r \in ws_reqs, ok \in BOOLEAN :
        r.stage = "sent" /\ (Overlay!ServeOpen(r, ok) \/ Overlay!ServeApply(r, ok) \/ Overlay!ServeHull(r, ok))
  BY DEF Overlay!Serve
<1>2. UNCHANGED <<ws_overlay, ws_data, ws_loading, ws_fetchError, ws_fetchCounter, ws_shownDh, ws_editor,
                  ws_editLoading, ws_editError, ws_opened, ws_applied>>
  BY DEF Overlay!Serve
<1>0. /\ Overlay!TypeOK /\ OverlayRequests /\ OverlayOwn /\ OverlayFresh
      /\ ws_editor \in [on : BOOLEAN, dh : 0..ws_MaxEdits]
      /\ ws_opened \in 0..ws_MaxEdits /\ ws_applied \in 0..ws_MaxEdits
  BY DEF OverlayInv
<1>3. r \in OverlayRequest /\ (r.op = "hull" => r.arg \in 1..ws_MaxFetches /\ r.arg <= ws_fetchCounter)
      /\ (r.op = "apply" => r.arg \in 1..ws_MaxEdits) /\ ws_dh \in 0..ws_MaxEdits
      /\ ws_cached \in 0..ws_MaxEdits /\ ws_missed \subseteq 0..ws_MaxEdits
  BY <1>0 DEF OverlayRequests, Overlay!TypeOK
<1>4. PICK g : /\ g \in 0..ws_MaxEdits
               /\ ws_reqs' = (ws_reqs \ {r}) \union {[r EXCEPT !.stage = "answered", !.ok = ok, !.dh = g]}
               /\ \/ /\ r.op = "open" /\ UNCHANGED <<ws_dh, ws_cached, ws_missed>>
                  \/ /\ r.op = "apply" /\ ws_missed' = ws_missed /\ ws_cached' \in 0..ws_MaxEdits
                     /\ ws_dh' \in {ws_dh, r.arg}
                  \/ /\ r.op = "hull" /\ ws_dh' = ws_dh /\ ws_cached' \in 0..ws_MaxEdits
                     /\ \/ g = ws_dh /\ ws_missed' = ws_missed
                        \/ ws_missed' = ws_missed \union {ws_dh}
  <2>1. CASE Overlay!ServeOpen(r, ok)
    BY <1>3, <2>1 DEF Overlay!ServeOpen, Overlay!Replied
  <2>2. CASE Overlay!ServeApply(r, ok)
    <3>1. r.arg \in 0..ws_MaxEdits
      BY <1>3, <2>2, OverlayBounds DEF Overlay!ServeApply
    <3> QED BY <1>3, <2>2, <3>1 DEF Overlay!ServeApply, Overlay!Replied
  <2>3. CASE Overlay!ServeHull(r, ok)
    BY <1>3, <2>3 DEF Overlay!ServeHull, Overlay!Replied
  <2> QED BY <1>1, <2>1, <2>2, <2>3
<1>5. PICK q : q = [r EXCEPT !.stage = "answered", !.ok = ok, !.dh = g]
  OBVIOUS
<1>6. q \in OverlayRequest /\ q.op = r.op /\ q.arg = r.arg /\ q.dh = g
  BY <1>3, <1>4, <1>5 DEF OverlayRequest
<1>7. ws_reqs' = (ws_reqs \ {r}) \union {q}
  BY <1>4, <1>5
<1>8. ws_dh' \in 0..ws_MaxEdits /\ ws_cached' \in 0..ws_MaxEdits /\ ws_missed' \subseteq 0..ws_MaxEdits
  <2>1. r.op = "apply" => r.arg \in 0..ws_MaxEdits
    BY <1>3, OverlayBounds
  <2> QED BY <1>3, <1>4, <2>1
<1>9. OverlayRequests'
  BY <1>0, <1>2, <1>3, <1>6, <1>7 DEF OverlayRequests
<1>10. Overlay!TypeOK' /\ OverlayOwn'
  BY <1>0, <1>2, <1>8 DEF Overlay!TypeOK, OverlayOwn, Overlay!enabled
<1>11. ASSUME OverlayKept' PROVE OverlayAnswersDh' /\ OverlayShowsDh'
  <2>1. q \in ws_reqs' /\ \A s \in ws_reqs' : s \in ws_reqs \/ s = q
    BY <1>7
  <2>2. ws_dh' = ws_dh
    <3>1. r.op = "apply" => r.arg # ws_dh'
      BY <1>6, <1>11, <2>1 DEF OverlayKept
    <3> QED BY <1>4, <3>1
  <2>3. OverlayKept
    <3>1. ws_dh \notin ws_missed
      BY <1>4, <1>11, <2>2 DEF OverlayKept
    <3>2. ASSUME NEW s \in ws_reqs, s.op = "apply" PROVE s.arg # ws_dh
      <4>1. CASE s = r
        BY <1>6, <1>11, <2>1, <2>2, <3>2, <4>1 DEF OverlayKept
      <4>2. CASE s # r
        BY <1>7, <1>11, <2>2, <3>2, <4>2 DEF OverlayKept
      <4> QED BY <4>1, <4>2
    <3> QED BY <3>1, <3>2 DEF OverlayKept
  <2>4. OverlayAnswersDh /\ OverlayShowsDh
    BY <1>0, <2>3 DEF OverlayFresh
  <2>5. q.op = "hull" => q.dh = ws_dh
    BY <1>4, <1>6, <1>11, <2>2 DEF OverlayKept
  <2> QED BY <1>2, <2>1, <2>2, <2>4, <2>5 DEF OverlayAnswersDh, OverlayShowsDh
<1> QED BY <1>0, <1>2, <1>9, <1>10, <1>11 DEF OverlayInv, OverlayFresh

\* An answer: that of the last fetch settles the overlay, an older one is
\* dropped; an edit's asks anew, or is noted.
LEMMA OverlayAnswer ==
  ASSUME OverlayInv, Overlay!Answer
  PROVE  OverlayInv'
<1> USE DEF Overlay!hook, Overlay!edit, Overlay!brain
<1>1. PICK r \in ws_reqs :
        /\ r.stage = "answered"
        /\ \/ r.op = "hull" /\ Overlay!FetchAnswered(r) /\ UNCHANGED <<Overlay!edit, ws_missed>>
           \/ r.op = "open" /\ Overlay!OpenAnswered(r)
           \/ r.op = "apply" /\ Overlay!ApplyAnswered(r)
  BY DEF Overlay!Answer
<1>2. UNCHANGED <<ws_dh, ws_cached, ws_overlay>>
  BY DEF Overlay!Answer
<1>0. /\ Overlay!TypeOK /\ OverlayRequests /\ OverlayOwn /\ OverlayFresh
      /\ ws_editor \in [on : BOOLEAN, dh : 0..ws_MaxEdits]
      /\ ws_opened \in 0..ws_MaxEdits /\ ws_applied \in 0..ws_MaxEdits
  BY DEF OverlayInv
<1>3. /\ r \in OverlayRequest /\ (r.op = "apply" => r.arg \in 1..ws_MaxEdits)
      /\ (r.op = "hull" => r.arg \in 1..ws_MaxFetches)
      /\ ws_fetchCounter \in 0..ws_MaxFetches /\ ws_missed \subseteq 0..ws_MaxEdits
      /\ r.ok \in BOOLEAN /\ r.on \in BOOLEAN /\ r.dh \in 0..ws_MaxEdits
  BY <1>0 DEF OverlayRequests, Overlay!TypeOK, OverlayRequest
<1>4. CASE r.op = "hull" /\ Overlay!FetchAnswered(r) /\ UNCHANGED <<Overlay!edit, ws_missed>>
  <2>1. /\ ws_reqs' = ws_reqs \ {r} /\ ws_fetchCounter' = ws_fetchCounter
        /\ UNCHANGED <<ws_shownDh, ws_editor, ws_editLoading, ws_editError, ws_opened, ws_applied, ws_missed>>
    BY <1>4 DEF Overlay!FetchAnswered
  <2>2. OverlayRequests' /\ (OverlayKept' => OverlayKept /\ OverlayAnswersDh')
    <3>1. OverlayKept' => OverlayKept
      BY <1>2, <1>4, <2>1 DEF OverlayKept
    <3> QED BY <1>0, <1>2, <2>1, <3>1 DEF OverlayRequests, OverlayFresh, OverlayAnswersDh
  <2>3. \/ UNCHANGED <<ws_data, ws_fetchError, ws_loading>>
        \/ /\ r.arg = ws_fetchCounter /\ ws_loading' = FALSE /\ ws_fetchError' = ws_fetchError
           /\ ws_data' = [n |-> r.arg, dh |-> r.dh]
        \/ ws_loading' = FALSE /\ ws_fetchError' = TRUE /\ ws_data' = Overlay!NoData
    BY <1>4 DEF Overlay!FetchAnswered
  <2>4. /\ ws_data' \in [n : 0..ws_MaxFetches, dh : 0..ws_MaxEdits]
        /\ ws_loading' \in BOOLEAN /\ ws_fetchError' \in BOOLEAN /\ ws_data'.n <= ws_fetchCounter
        /\ OverlayKept' => OverlayShowsDh'
    <3>1. CASE UNCHANGED <<ws_data, ws_fetchError, ws_loading>>
      BY <1>0, <1>2, <2>1, <2>2, <3>1 DEF Overlay!TypeOK, OverlayOwn, OverlayFresh, OverlayShowsDh
    <3>2. CASE /\ r.arg = ws_fetchCounter /\ ws_loading' = FALSE /\ ws_fetchError' = ws_fetchError
               /\ ws_data' = [n |-> r.arg, dh |-> r.dh]
      <4>1. ws_data'.n = ws_fetchCounter /\ ws_data'.dh = r.dh
            /\ ws_data' \in [n : 0..ws_MaxFetches, dh : 0..ws_MaxEdits]
        BY <1>3, <3>2
      <4>2. OverlayKept' => r.dh = ws_dh
        BY <1>0, <1>1, <1>4, <2>2, <3>2 DEF OverlayFresh, OverlayAnswersDh
      <4>3. ws_fetchError' \in BOOLEAN
        BY <1>0, <3>2 DEF Overlay!TypeOK
      <4>4. ws_loading' \in BOOLEAN
        BY <3>2, Zenon
      <4>5. ws_data'.n <= ws_fetchCounter
        BY <1>3, <4>1
      <4> QED BY <1>2, <4>1, <4>2, <4>3, <4>4, <4>5 DEF OverlayShowsDh
    <3>3. CASE ws_loading' = FALSE /\ ws_fetchError' = TRUE /\ ws_data' = Overlay!NoData
      <4>1. ws_data'.n = 0 /\ ws_data' \in [n : 0..ws_MaxFetches, dh : 0..ws_MaxEdits]
        BY <3>3, OverlayBounds DEF Overlay!NoData
      <4>2. ws_loading' \in BOOLEAN /\ ws_fetchError' \in BOOLEAN
        BY <3>3, Zenon
      <4>3. ws_data'.n <= ws_fetchCounter
        BY <1>3, <4>1
      <4> QED BY <1>3, <2>1, <4>1, <4>2, <4>3 DEF OverlayShowsDh
    <3> QED BY <2>3, <3>1, <3>2, <3>3
  <2>5. Overlay!TypeOK'
    BY <1>0, <1>2, <2>1, <2>4 DEF Overlay!TypeOK
  <2>6. OverlayOwn'
    BY <1>0, <1>2, <2>1, <2>3, <2>4 DEF OverlayOwn, Overlay!enabled
  <2> QED BY <1>0, <2>1, <2>2, <2>4, <2>5, <2>6 DEF OverlayInv, OverlayFresh
<1>5. CASE r.op = "open" /\ Overlay!OpenAnswered(r)
  <2>1. /\ ws_reqs' = ws_reqs \ {r} /\ ws_editLoading' = FALSE
        /\ UNCHANGED <<ws_shownDh, ws_data, ws_loading, ws_fetchError, ws_fetchCounter, ws_opened, ws_applied,
                       ws_missed>>
    BY <1>5 DEF Overlay!OpenAnswered
  <2>2. ws_editError' \in BOOLEAN
    BY <1>0, <1>5 DEF Overlay!OpenAnswered, Overlay!TypeOK
  <2>3. ws_editor' \in [on : BOOLEAN, dh : 0..ws_MaxEdits]
    <3>1. PICK d : d = r.dh
      OBVIOUS
    <3>2. [on |-> TRUE, dh |-> d] \in [on : BOOLEAN, dh : 0..ws_MaxEdits]
      BY <1>3, <3>1
    <3>3. ws_editor' \in {ws_editor, [on |-> TRUE, dh |-> d]}
      BY <1>5, <3>1 DEF Overlay!OpenAnswered
    <3> QED BY <1>0, <3>2, <3>3
  <2>4. OverlayRequests' /\ OverlayFresh'
    <3>1. OverlayKept' => OverlayKept
      BY <1>2, <1>5, <2>1 DEF OverlayKept
    <3> QED BY <1>0, <1>2, <2>1, <3>1 DEF OverlayRequests, OverlayFresh, OverlayAnswersDh, OverlayShowsDh
  <2>5. Overlay!TypeOK' /\ OverlayOwn'
    BY <1>0, <1>2, <2>1, <2>2 DEF Overlay!TypeOK, OverlayOwn, Overlay!enabled
  <2> QED BY <1>0, <2>1, <2>3, <2>4, <2>5 DEF OverlayInv
<1>6. CASE r.op = "apply" /\ Overlay!ApplyAnswered(r)
  <2>1. UNCHANGED <<ws_editLoading, ws_opened, ws_applied>>
        /\ ws_missed' = IF r.ok /\ r.on THEN ws_missed ELSE ws_missed \union {r.arg}
    BY <1>6 DEF Overlay!ApplyAnswered
  <2>2. CASE r.ok
    <3>1. /\ ws_shownDh' = r.arg /\ ws_editor' = [ws_editor EXCEPT !.on = FALSE]
          /\ Overlay!doFetch(r.on, ws_reqs \ {r}) /\ ws_editError' = ws_editError
      BY <1>6, <2>2 DEF Overlay!ApplyAnswered
    <3>2. PICK on, rest : on = r.on /\ rest = ws_reqs \ {r}
      OBVIOUS
    <3>3. on \in BOOLEAN /\ rest \in SUBSET ws_reqs /\ Overlay!doFetch(on, rest)
      BY <1>3, <3>1, <3>2
    <3>4. /\ OverlayRequests' /\ ws_data' = ws_data
          /\ IF on THEN /\ ws_loading' = TRUE /\ ws_fetchError' = FALSE
                        /\ ws_fetchCounter' = ws_fetchCounter + 1 /\ ws_fetchCounter' \in 1..ws_MaxFetches
                        /\ \A q \in ws_reqs' : ~(q.op = "hull" /\ q.stage = "answered"
                                                   /\ q.arg = ws_fetchCounter')
                   ELSE ws_reqs' = rest /\ UNCHANGED <<ws_loading, ws_fetchError, ws_fetchCounter>>
      BY <3>3, OverlayFetch
    <3>5. ws_shownDh' \in 0..ws_MaxEdits /\ ws_missed' \subseteq 0..ws_MaxEdits
      BY <1>3, <1>6, <2>1, <3>1, OverlayBounds
    <3>6. ws_editor' \in [on : BOOLEAN, dh : 0..ws_MaxEdits]
      BY <1>0, <3>1
    <3>7. /\ ws_loading' \in BOOLEAN /\ ws_fetchError' \in BOOLEAN /\ ws_editError' \in BOOLEAN
          /\ ws_editLoading' \in BOOLEAN /\ ws_fetchCounter' \in 0..ws_MaxFetches
      <4>1. /\ ws_loading \in BOOLEAN /\ ws_fetchError \in BOOLEAN /\ ws_editError \in BOOLEAN
            /\ ws_editLoading \in BOOLEAN
        BY <1>0 DEF Overlay!TypeOK
      <4>2. CASE on
        <5>1. ws_loading' \in BOOLEAN /\ ws_fetchError' \in BOOLEAN
          BY <3>4, <4>2, Zenon
        <5>2. ws_fetchCounter' \in 0..ws_MaxFetches
          BY <3>4, <4>2, OverlayBounds
        <5> QED BY <2>1, <3>1, <4>1, <5>1, <5>2
      <4>3. CASE ~on
        BY <1>3, <2>1, <3>1, <3>4, <4>1, <4>3
      <4> QED BY <3>3, <4>2, <4>3
    <3>8. Overlay!TypeOK'
      BY <1>0, <1>2, <3>4, <3>5, <3>7 DEF Overlay!TypeOK
    <3>9. OverlayOwn'
      BY <1>0, <1>2, <1>3, <3>3, <3>4 DEF OverlayOwn, Overlay!enabled, Overlay!TypeOK
    <3>10. OverlayFresh'
      <4>1. CASE on
        BY <1>0, <1>3, <3>4, <4>1 DEF OverlayOwn, OverlayFresh, OverlayAnswersDh, OverlayShowsDh, Overlay!TypeOK
      <4>2. CASE ~on
        <5>1. ws_reqs' = ws_reqs \ {r} /\ UNCHANGED <<ws_data, ws_fetchCounter>>
          BY <3>2, <3>4, <4>2
        <5>2. ws_missed' = ws_missed \union {r.arg}
          BY <2>1, <3>2, <4>2
        <5>3. OverlayKept' => OverlayKept
          BY <1>2, <5>1, <5>2 DEF OverlayKept
        <5> QED BY <1>0, <1>2, <5>1, <5>3 DEF OverlayFresh, OverlayAnswersDh, OverlayShowsDh
      <4> QED BY <3>3, <4>1, <4>2
    <3> QED BY <1>0, <2>1, <3>4, <3>6, <3>8, <3>9, <3>10 DEF OverlayInv
  <2>3. CASE ~r.ok
    <3>1. /\ ws_editError' = TRUE /\ ws_reqs' = ws_reqs \ {r}
          /\ UNCHANGED <<ws_shownDh, ws_editor, ws_data, ws_loading, ws_fetchError, ws_fetchCounter>>
      BY <1>6, <2>3 DEF Overlay!ApplyAnswered
    <3>2. ws_missed' = ws_missed \union {r.arg} /\ ws_missed' \subseteq 0..ws_MaxEdits
      <4>1. ws_missed' = ws_missed \union {r.arg}
        BY <2>1, <2>3
      <4>2. r.arg \in 0..ws_MaxEdits
        BY <1>3, <1>6, OverlayBounds
      <4> QED BY <1>3, <4>1, <4>2
    <3>3. OverlayKept' => OverlayKept
      BY <1>2, <3>1, <3>2 DEF OverlayKept
    <3>4. OverlayRequests' /\ OverlayFresh'
      BY <1>0, <1>2, <3>1, <3>3 DEF OverlayRequests, OverlayFresh, OverlayAnswersDh, OverlayShowsDh
    <3>5. Overlay!TypeOK' /\ OverlayOwn'
      BY <1>0, <1>2, <2>1, <3>1, <3>2 DEF Overlay!TypeOK, OverlayOwn, Overlay!enabled
    <3> QED BY <1>0, <2>1, <3>1, <3>4, <3>5 DEF OverlayInv
  <2> QED BY <1>3, <2>2, <2>3
<1> QED BY <1>1, <1>4, <1>5, <1>6

\* Every step keeps the invariant.
LEMMA OverlayNext ==
  ASSUME OverlayInv, [Overlay!Next]_(Overlay!vars)
  PROVE  OverlayInv'
<1>1. CASE UNCHANGED Overlay!vars
  BY <1>1 DEF Overlay!vars, OverlayInv, Overlay!TypeOK, Overlay!enabled, OverlayRequests, OverlayOwn,
     OverlayFresh, OverlayKept, OverlayAnswersDh, OverlayShowsDh
<1> QED BY <1>1, OverlayToggles, OverlayEdits, OverlayServe, OverlayAnswer DEF Overlay!Next

\* What the invariant says of the properties.
LEMMA OverlayShows ==
  ASSUME OverlayInv
  PROVE  Overlay!TypeOK /\ Overlay!OverlaySettles
BY DEF OverlayInv, OverlayOwn, OverlayFresh, OverlayKept, OverlayShowsDh, Overlay!OverlaySettles

-----------------------------------------------------------------------------
(* The joint rows (JointViews)                                             *)

\* What is assumed of its constants.
LEMMA ViewsBounds ==
  jv_Joints \in Nat \ {0} /\ jv_MAX \in Nat \ {0} /\ jv_Threshold \in Nat
  BY MachinePagesAssumption

\* A message: its joints are the configured ones, each at most once.
ViewsMessage(m) ==
  /\ m \in Seq(Views!Reading) /\ Len(m) <= jv_Joints
  /\ \A i, j \in DOMAIN m : m[i].name = m[j].name => i = j

\* The flags: a lit one has a timer.
ViewsFlagsInv ==
  /\ jv_active \in Seq(BOOLEAN) /\ jv_timers \subseteq 1..jv_Joints
  /\ Views!LitFlagGoesOut
\* The buffers h end with message m.
ViewsBuffers(h, m) ==
  /\ h \in Seq(Seq(jv_Position)) /\ \A i \in DOMAIN h : Len(h[i]) <= jv_MAX
  /\ \A i \in DOMAIN m : i \in DOMAIN h /\ h[i] # <<>> /\ h[i][Len(h[i])] = m[i].pos
\* What is drawn for a configured chain.
ViewsAnglesInv ==
  /\ jv_chain \in {<<>>, [i \in 1..jv_Joints |-> i]}
  /\ jv_chain # <<>> => jv_prev = [n \in 1..jv_Joints |-> Views!Find(jv_measured, n).pos]
ViewsPickedInv ==
  jv_selectedJoint \in 1..jv_Joints /\ jv_detail \in 0..jv_Joints /\ jv_showDebug \in BOOLEAN

ViewsInv ==
  /\ ViewsMessage(jv_measured) /\ ViewsBuffers(jv_history, jv_measured)
  /\ ViewsFlagsInv /\ ViewsAnglesInv /\ ViewsPickedInv

\* The larger of two numbers, as the community module picks it.
LEMMA ViewsMax ==
  ASSUME NEW a \in Nat, NEW b \in Nat
  PROVE  Views!Max({a, b}) \in {a, b} /\ a <= Views!Max({a, b}) /\ b <= Views!Max({a, b})
<1>1. \E x \in {a, b} : \A y \in {a, b} : x >= y
  OBVIOUS
<1>2. PICK m : m = Views!Max({a, b})
  OBVIOUS
<1>3. m \in {a, b} /\ \A y \in {a, b} : m >= y
  BY <1>1, <1>2 DEF Views!Max
<1> QED BY <1>2, <1>3

\* The part counts with the operator of FiniteSets.
LEMMA ViewsCardinality ==
  ASSUME NEW S
  PROVE  Views!Cardinality(S) = Cardinality(S)
BY DEF Views!Cardinality, Cardinality

\* A joint that reports is found by its name.
LEMMA ViewsFound ==
  ASSUME NEW m, ViewsMessage(m), NEW i \in DOMAIN m
  PROVE  Views!Find(m, m[i].name) = m[i]
<1>1. i \in 1..Len(m) /\ i \in Nat
  BY DEF ViewsMessage
<1>2. {j \in 1..Len(m) : m[j].name = m[i].name} = {i}
  BY <1>1 DEF ViewsMessage
<1>3. Views!Min({i}) = i
  <2>1. \A x \in {i} : (\A y \in {i} : x <= y) <=> x = i
    BY <1>1
  <2>2. \E x \in {i} : \A y \in {i} : x <= y
    BY <1>1
  <2> QED BY <2>2 DEF Views!Min
<1> QED BY <1>2, <1>3 DEF Views!Find

\* A sample of every place of the message goes into its buffer.
LEMMA ViewsPushed ==
  ASSUME NEW k, ViewsBuffers(jv_history, k), NEW m, ViewsMessage(m)
  PROVE  \A h : h = Views!Pushed(m) => ViewsBuffers(h, m)
<1> SUFFICES ASSUME NEW h, h = Views!Pushed(m) PROVE ViewsBuffers(h, m)
  OBVIOUS
<1>1. /\ jv_history \in Seq(Seq(jv_Position)) /\ \A i \in DOMAIN jv_history : Len(jv_history[i]) <= jv_MAX
      /\ m \in Seq(Views!Reading)
  BY DEF ViewsBuffers, ViewsMessage
<1>2. PICK old : old = jv_history
  OBVIOUS
<1>3. PICK l \in Nat : l = Views!Max({Len(m), Len(old)}) /\ Len(m) <= l /\ Len(old) <= l
  <2>1. PICK a \in Nat : a = Len(m)
    BY <1>1
  <2>2. PICK b \in Nat : b = Len(old)
    BY <1>1, <1>2
  <2>3. PICK l : l = Views!Max({a, b})
    OBVIOUS
  <2>4. l \in Nat /\ a <= l /\ b <= l
    BY <2>3, ViewsMax
  <2> QED BY <2>1, <2>2, <2>3, <2>4
<1>4. ASSUME NEW i \in 1..l
      PROVE  Views!Buf(i) \in Seq(jv_Position) /\ Len(Views!Buf(i)) <= jv_MAX
  BY <1>1, ViewsBounds DEF Views!Buf
<1>5. ASSUME NEW i \in 1..l, i \in DOMAIN m,
             NEW c, c = Append(Views!Buf(i), m[i].pos),
             NEW b, b = IF Len(c) > jv_MAX THEN Tail(c) ELSE c
      PROVE  b \in Seq(jv_Position) /\ Len(b) <= jv_MAX /\ b # <<>> /\ b[Len(b)] = m[i].pos
  <2>1. PICK a : a = Views!Buf(i)
    OBVIOUS
  <2>2. PICK x : x = m[i].pos
    OBVIOUS
  <2>3. x \in jv_Position
    <3>1. m[i] \in Views!Reading
      BY <1>1, <1>5
    <3> QED BY <2>2, <3>1 DEF Views!Reading
  <2>4. a \in Seq(jv_Position) /\ Len(a) <= jv_MAX /\ Len(a) \in Nat
    BY <1>4, <2>1
  <2>5. c = Append(a, x) /\ c \in Seq(jv_Position) /\ Len(c) = Len(a) + 1 /\ c[Len(a) + 1] = x
    BY <1>5, <2>1, <2>2, <2>3, <2>4
  <2>6. CASE Len(c) > jv_MAX
    <3>1. b = Tail(c) /\ Len(a) = jv_MAX /\ Len(c) = jv_MAX + 1 /\ jv_MAX \in Nat \ {0}
      BY <1>5, <2>4, <2>5, <2>6, ViewsBounds
    <3>2. b \in Seq(jv_Position) /\ Len(b) = jv_MAX /\ b[jv_MAX] = c[jv_MAX + 1]
      BY <2>5, <3>1
    <3> QED BY <2>2, <2>5, <3>1, <3>2
  <2>7. CASE ~(Len(c) > jv_MAX)
    BY <1>5, <2>2, <2>4, <2>5, <2>7, ViewsBounds
  <2> QED BY <2>6, <2>7
<1>6. /\ h = [i \in 1..l |-> IF i > Len(m) THEN Views!Buf(i)
                             ELSE LET b == Append(Views!Buf(i), m[i].pos)
                                  IN  IF Len(b) > jv_MAX THEN Tail(b) ELSE b]
  BY <1>2, <1>3 DEF Views!Pushed
<1>7. ASSUME NEW i \in 1..l
      PROVE  h[i] \in Seq(jv_Position) /\ Len(h[i]) <= jv_MAX
             /\ (i \in DOMAIN m => h[i] # <<>> /\ h[i][Len(h[i])] = m[i].pos)
  <2>1. CASE i > Len(m)
    BY <1>1, <1>4, <1>6, <2>1
  <2>2. CASE ~(i > Len(m))
    <3>1. i \in DOMAIN m
      BY <1>1, <2>2
    <3>2. PICK c : c = Append(Views!Buf(i), m[i].pos)
      OBVIOUS
    <3>3. h[i] = IF Len(c) > jv_MAX THEN Tail(c) ELSE c
      BY <1>6, <2>2, <3>2
    <3> QED BY <1>5, <3>1, <3>2, <3>3
  <2> QED BY <2>1, <2>2
<1>8. DOMAIN h = 1..l /\ h \in Seq(Seq(jv_Position)) /\ DOMAIN m \subseteq 1..l
  <2>1. h \in [1..l -> Seq(jv_Position)]
    BY <1>6, <1>7
  <2>2. h \in Seq(Seq(jv_Position)) /\ DOMAIN h = 1..l
    <3>1. PICK T : T = Seq(jv_Position)
      OBVIOUS
    <3>2. h \in [1..l -> T] /\ l \in Nat
      BY <2>1, <3>1
    <3>3. h \in Seq(T) /\ DOMAIN h = 1..l
      BY <3>2
    <3> QED BY <3>1, <3>3
  <2>3. DOMAIN m = 1..Len(m) /\ Len(m) \in Nat
    BY <1>1
  <2> QED BY <1>3, <2>2, <2>3
<1> QED BY <1>7, <1>8 DEF ViewsBuffers

\* A render with these angles.
LEMMA ViewsFlag ==
  ASSUME ViewsFlagsInv, NEW angles, Len(angles) \in 0..jv_Joints, Views!Flag(angles)
  PROVE  ViewsFlagsInv' /\ jv_prev' = angles
<1>1. PICK l \in 0..jv_Joints : l = Len(angles)
  OBVIOUS
<1>2. PICK moved : moved = Views!Moved(angles)
  OBVIOUS
<1>3. PICK base : base = IF Len(jv_active) = l THEN jv_active ELSE [i \in 1..l |-> FALSE]
  OBVIOUS
<1>4. /\ jv_prev' = angles /\ jv_timers' = jv_timers \union moved
      /\ jv_active' = IF moved = {} THEN jv_active ELSE [i \in 1..l |-> base[i] \/ i \in moved]
  BY <1>1, <1>2, <1>3 DEF Views!Flag
<1>5. moved \subseteq 1..l /\ 1..l \subseteq 1..jv_Joints /\ l \in Nat
  BY <1>1, <1>2, ViewsBounds DEF Views!Moved
<1>6. jv_timers' \subseteq 1..jv_Joints
  BY <1>4, <1>5 DEF ViewsFlagsInv
<1>7. CASE moved = {}
  BY <1>4, <1>6, <1>7 DEF ViewsFlagsInv, Views!LitFlagGoesOut
<1>8. CASE moved # {}
  <2>1. \A i \in 1..l : base[i] \in BOOLEAN /\ (base[i] => i \in jv_timers)
    <3>1. CASE Len(jv_active) = l
      <4>1. base = jv_active /\ DOMAIN jv_active = 1..l /\ jv_active \in [1..l -> BOOLEAN]
        BY <1>3, <1>5, <3>1 DEF ViewsFlagsInv
      <4> QED BY <4>1 DEF ViewsFlagsInv, Views!LitFlagGoesOut
    <3>2. CASE Len(jv_active) # l
      <4>1. base = [i \in 1..l |-> FALSE]
        BY <1>3, <3>2
      <4> QED BY <4>1
    <3> QED BY <3>1, <3>2
  <2>2. jv_active' = [i \in 1..l |-> base[i] \/ i \in moved]
    BY <1>4, <1>8
  <2>3. jv_active' \in [1..l -> BOOLEAN]
    BY <2>1, <2>2
  <2>4. jv_active' \in Seq(BOOLEAN) /\ DOMAIN jv_active' = 1..l
    BY <1>5, <2>3
  <2>5. \A i \in 1..l : jv_active'[i] => i \in jv_timers'
    BY <1>4, <2>1, <2>2
  <2> QED BY <1>4, <1>6, <2>4, <2>5 DEF ViewsFlagsInv, Views!LitFlagGoesOut
<1> QED BY <1>4, <1>7, <1>8

\* A render of a message the invariant allows.
LEMMA ViewsRender ==
  ASSUME ViewsInv, NEW m, ViewsMessage(m), Views!Render(m), UNCHANGED jv_chain, jv_measured' = m,
         ViewsPickedInv'
  PROVE  ViewsInv'
<1>1. /\ jv_chain \in {<<>>, [i \in 1..jv_Joints |-> i]}
      /\ Len(m) \in 0..jv_Joints
  BY ViewsBounds DEF ViewsInv, ViewsAnglesInv, ViewsMessage
<1>2. PICK angles : angles = Views!anglesRad(m)
  OBVIOUS
<1>3. PICK h : h = Views!Pushed(m)
  OBVIOUS
<1>4. jv_history' = h /\ Views!Flag(angles)
  BY <1>2, <1>3 DEF Views!Render
<1>5. ViewsBuffers(h, m)
  BY <1>3, ViewsPushed DEF ViewsInv
<1>6. CASE jv_chain = <<>>
  <2>1. Len(angles) \in 0..jv_Joints
    BY <1>1, <1>2, <1>6 DEF Views!anglesRad, Views!joints
  <2>2. ViewsFlagsInv'
    BY <1>4, <2>1, ViewsFlag DEF ViewsInv
  <2> QED BY <1>1, <1>4, <1>5, <1>6, <2>2 DEF ViewsInv, ViewsAnglesInv
<1>7. CASE jv_chain # <<>>
  <2>1. jv_chain = [i \in 1..jv_Joints |-> i]
    BY <1>1, <1>7
  <2>2. Views!joints(m) = [i \in 1..jv_Joints |-> i]
    BY <1>7, <2>1 DEF Views!joints
  <2>3. angles = [n \in 1..jv_Joints |-> Views!Find(m, n).pos] /\ Len(angles) = jv_Joints
    BY <1>2, <2>2, ViewsBounds DEF Views!anglesRad
  <2>4. ViewsFlagsInv' /\ jv_prev' = angles
    BY <1>4, <2>3, ViewsFlag, ViewsBounds DEF ViewsInv
  <2> QED BY <1>1, <1>4, <1>5, <2>3, <2>4 DEF ViewsInv, ViewsAnglesInv
<1> QED BY <1>6, <1>7

\* A message the pool may send.
LEMMA ViewsPool ==
  ASSUME NEW up \in SUBSET (1..jv_Joints), NEW o \in Views!SetToSeqs(up),
         NEW pos \in [up -> jv_Position]
  PROVE  \A m : m = [i \in 1..Len(o) |-> [name |-> o[i], pos |-> pos[o[i]]]] => ViewsMessage(m)
<1>1. PICK c : c = Cardinality(up)
  OBVIOUS
<1>2. c \in Nat /\ c <= jv_Joints
  <2>1. PICK S : S = 1..jv_Joints
    OBVIOUS
  <2>2. IsFiniteSet(S) /\ Cardinality(S) = jv_Joints
    BY <2>1, FS_Interval, ViewsBounds
  <2>3. IsFiniteSet(up) /\ Cardinality(up) <= jv_Joints
    BY <2>1, <2>2, FS_Subset
  <2> QED BY <1>1, <2>3, FS_CardinalityType
<1>3. o \in [1..c -> up] /\ \A i, j \in 1..c : i # j => o[i] # o[j]
  BY <1>1, ViewsCardinality DEF Views!SetToSeqs
<1>4. Len(o) = c /\ \A i \in 1..c : o[i] \in up /\ o[i] \in 1..jv_Joints /\ pos[o[i]] \in jv_Position
  <2>1. o \in Seq(up) /\ Len(o) = c
    BY <1>2, <1>3
  <2>2. \A i \in 1..c : o[i] \in up
    BY <1>3
  <2> QED BY <2>1, <2>2
<1> SUFFICES ASSUME NEW m, m = [i \in 1..c |-> [name |-> o[i], pos |-> pos[o[i]]]]
             PROVE  ViewsMessage(m)
  BY <1>4
<1>5. \A i \in 1..c : m[i] = [name |-> o[i], pos |-> pos[o[i]]]
  OBVIOUS
<1>6. m \in [1..c -> Views!Reading]
  BY <1>4, <1>5 DEF Views!Reading
<1>7. m \in Seq(Views!Reading) /\ Len(m) = c /\ DOMAIN m = 1..c
  BY <1>2, <1>6
<1>8. \A i, j \in 1..c : m[i].name = m[j].name => i = j
  BY <1>3, <1>5
<1> QED BY <1>2, <1>7, <1>8 DEF ViewsMessage

\* It holds of the first state.
LEMMA ViewsFirst ==
  ASSUME Views!Init
  PROVE  ViewsInv
<1>1. jv_measured = <<>> /\ jv_history = <<>> /\ jv_active = <<>> /\ jv_timers = {}
  BY DEF Views!Init
<1>2. ViewsMessage(jv_measured) /\ ViewsBuffers(jv_history, jv_measured)
  BY <1>1, ViewsBounds DEF ViewsMessage, ViewsBuffers
<1>3. ViewsFlagsInv
  BY <1>1 DEF ViewsFlagsInv, Views!LitFlagGoesOut
<1>4. ViewsAnglesInv
  <2>1. \A n : Views!Find(<<>>, n) = Views!None
    BY DEF Views!Find
  <2>2. CASE jv_chain = [i \in 1..jv_Joints |-> i]
    <3>1. Len(jv_chain) = jv_Joints
      BY <2>2, ViewsBounds
    <3>2. jv_prev = [n \in 1..jv_Joints |-> 0]
      BY <3>1 DEF Views!Init
    <3> QED BY <1>1, <2>1, <2>2, <3>2 DEF ViewsAnglesInv, Views!None
  <2> QED BY <2>2 DEF Views!Init, ViewsAnglesInv
<1>5. ViewsPickedInv
  <2>1. 1 \in 1..jv_Joints /\ 0 \in 0..jv_Joints
    BY ViewsBounds
  <2> QED BY <2>1 DEF Views!Init, ViewsPickedInv
<1> QED BY <1>2, <1>3, <1>4, <1>5 DEF ViewsInv

\* Every step keeps it.
LEMMA ViewsNext ==
  ASSUME ViewsInv, [Views!Next]_(Views!vars)
  PROVE  ViewsInv'
<1>1. CASE Views!setState
  <2>1. PICK up \in SUBSET (1..jv_Joints) : \E o \in Views!SetToSeqs(up) : \E pos \in [up -> jv_Position] :
          /\ jv_measured' = [i \in 1..Len(o) |-> [name |-> o[i], pos |-> pos[o[i]]]]
          /\ Views!Render(jv_measured')
    BY <1>1 DEF Views!setState
  <2>2. PICK o \in Views!SetToSeqs(up) : \E pos \in [up -> jv_Position] :
          /\ jv_measured' = [i \in 1..Len(o) |-> [name |-> o[i], pos |-> pos[o[i]]]]
          /\ Views!Render(jv_measured')
    BY <2>1
  <2>3. PICK pos \in [up -> jv_Position] :
          /\ jv_measured' = [i \in 1..Len(o) |-> [name |-> o[i], pos |-> pos[o[i]]]]
          /\ Views!Render(jv_measured')
    BY <2>2
  <2>4. PICK m : m = [i \in 1..Len(o) |-> [name |-> o[i], pos |-> pos[o[i]]]]
    OBVIOUS
  <2>5. jv_measured' = m /\ Views!Render(m) /\ ViewsMessage(m)
    BY <2>3, <2>4, ViewsPool
  <2>6. UNCHANGED jv_chain /\ ViewsPickedInv'
    BY <1>1 DEF Views!setState, Views!picked, ViewsInv, ViewsPickedInv
  <2> QED BY <2>5, <2>6, ViewsRender
<1>2. ASSUME Views!Rerender, ViewsPickedInv' PROVE ViewsInv'
  <2>1. PICK m : m = jv_measured
    OBVIOUS
  <2>2. jv_measured' = m /\ Views!Render(m) /\ ViewsMessage(m) /\ UNCHANGED jv_chain
    BY <1>2, <2>1 DEF Views!Rerender, Views!feed, ViewsInv
  <2> QED BY <1>2, <2>2, ViewsRender
<1>3. CASE Views!openDetails
  <2>1. PICK i \in 1..Len(Views!joints(jv_measured)) : jv_selectedJoint' = i /\ jv_detail' = i
    BY <1>3 DEF Views!openDetails
  <2>2. Len(Views!joints(jv_measured)) \in 0..jv_Joints
    <3>1. jv_chain \in {<<>>, [j \in 1..jv_Joints |-> j]} /\ Len(jv_measured) \in 0..jv_Joints
      BY ViewsBounds DEF ViewsInv, ViewsAnglesInv, ViewsMessage
    <3>2. CASE jv_chain = <<>>
      BY <3>1, <3>2 DEF Views!joints
    <3>3. CASE jv_chain = [j \in 1..jv_Joints |-> j]
      BY <3>1, <3>2, <3>3, ViewsBounds DEF Views!joints
    <3> QED BY <3>1, <3>2, <3>3
  <2>3. i \in 1..jv_Joints
    BY <2>1, <2>2, ViewsBounds
  <2>4. ViewsPickedInv'
    BY <1>3, <2>1, <2>3, ViewsBounds DEF Views!openDetails, ViewsInv, ViewsPickedInv
  <2> QED BY <1>2, <1>3, <2>4 DEF Views!openDetails
<1>4. CASE Views!onToggleDebug
  <2>1. ViewsPickedInv'
    BY <1>4 DEF Views!onToggleDebug, ViewsInv, ViewsPickedInv
  <2> QED BY <1>2, <1>4, <2>1 DEF Views!onToggleDebug
<1>5. ASSUME UNCHANGED <<Views!feed, Views!views>>, ViewsPickedInv' PROVE ViewsInv'
  <2>1. UNCHANGED <<jv_chain, jv_measured, jv_history, jv_prev, jv_active, jv_timers>>
    BY <1>5 DEF Views!feed, Views!views
  <2> QED BY <1>5, <2>1 DEF ViewsInv, ViewsFlagsInv, ViewsAnglesInv, Views!LitFlagGoesOut
<1>6. CASE Views!closeDetails
  BY <1>5, <1>6, ViewsBounds DEF Views!closeDetails, ViewsInv, ViewsPickedInv
<1>7. CASE Views!Decayed
  <2>1. PICK i \in jv_timers :
          /\ jv_timers' = jv_timers \ {i}
          /\ jv_active' = IF i <= Len(jv_active) THEN [jv_active EXCEPT ![i] = FALSE] ELSE jv_active
    BY <1>7 DEF Views!Decayed
  <2>2. UNCHANGED <<jv_chain, jv_measured, jv_history, jv_prev>> /\ UNCHANGED Views!picked
    BY <1>7 DEF Views!Decayed, Views!feed
  <2>3. ViewsFlagsInv'
    <3>1. i \in 1..jv_Joints /\ Len(jv_active) \in Nat /\ DOMAIN jv_active = 1..Len(jv_active)
      BY DEF ViewsInv, ViewsFlagsInv
    <3>2. CASE i <= Len(jv_active)
      <4>1. jv_active' = [jv_active EXCEPT ![i] = FALSE] /\ i \in DOMAIN jv_active
        BY <2>1, <3>1, <3>2
      <4>2. jv_active' \in Seq(BOOLEAN) /\ DOMAIN jv_active' = DOMAIN jv_active
        BY <4>1 DEF ViewsInv, ViewsFlagsInv
      <4>3. \A j \in DOMAIN jv_active : jv_active'[j] = IF j = i THEN FALSE ELSE jv_active[j]
        BY <4>1
      <4> QED BY <2>1, <4>2, <4>3 DEF ViewsInv, ViewsFlagsInv, Views!LitFlagGoesOut
    <3>3. CASE ~(i <= Len(jv_active))
      <4>1. jv_active' = jv_active /\ \A j \in DOMAIN jv_active : j # i
        BY <2>1, <3>1, <3>3
      <4> QED BY <2>1, <4>1 DEF ViewsInv, ViewsFlagsInv, Views!LitFlagGoesOut
    <3> QED BY <3>2, <3>3
  <2> QED BY <2>2, <2>3 DEF ViewsInv, ViewsAnglesInv, ViewsPickedInv, Views!picked
<1>8. CASE Views!onDhChange
  <2>1. PICK angles : angles = [n \in 1..jv_Joints |-> Views!Find(jv_measured, n).pos]
    OBVIOUS
  <2>2. PICK h : h = Views!Pushed(jv_measured)
    OBVIOUS
  <2>3. /\ jv_chain' = [i \in 1..jv_Joints |-> i] /\ UNCHANGED jv_measured /\ UNCHANGED Views!picked
        /\ jv_history' = h /\ Views!Flag(angles)
    BY <1>8, <2>1, <2>2 DEF Views!onDhChange
  <2>4. ViewsFlagsInv' /\ jv_prev' = angles
    <3>1. Len(angles) \in 0..jv_Joints
      BY <2>1, ViewsBounds
    <3> QED BY <2>3, <3>1, ViewsFlag DEF ViewsInv
  <2>5. ViewsBuffers(h, jv_measured)
    BY <2>2, ViewsPushed DEF ViewsInv
  <2> QED BY <2>1, <2>3, <2>4, <2>5 DEF ViewsInv, ViewsAnglesInv, ViewsPickedInv, Views!picked
<1>9. CASE UNCHANGED Views!vars
  BY <1>5, <1>9 DEF Views!vars, Views!picked, ViewsInv, ViewsPickedInv
<1> QED BY <1>1, <1>3, <1>4, <1>6, <1>7, <1>8, <1>9 DEF Views!Next

\* It holds what the runs check.
LEMMA ViewsShows ==
  ASSUME ViewsInv
  PROVE  Views!TypeOK /\ Views!LitFlagGoesOut /\ Views!ShownIsNewest
<1>1. Views!TypeOK /\ Views!LitFlagGoesOut
  BY DEF ViewsInv, ViewsMessage, ViewsFlagsInv, ViewsPickedInv, Views!TypeOK
<1>2. \A i \in DOMAIN jv_history : Len(jv_history[i]) <= jv_MAX
  BY DEF ViewsInv, ViewsBuffers
<1>3. ASSUME NEW i \in DOMAIN jv_measured
      PROVE  Views!Last(jv_history[i]) = jv_measured[i].pos
  BY DEF ViewsInv, ViewsBuffers, Views!Last
<1>4. ASSUME NEW i \in DOMAIN jv_measured, jv_chain # <<>>
      PROVE  /\ jv_prev[jv_measured[i].name] = jv_measured[i].pos
             /\ Views!RowState(jv_measured, jv_measured[i].name) = jv_measured[i]
  <2>1. PICK r : r = jv_measured[i]
    OBVIOUS
  <2>2. r \in Views!Reading
    BY <2>1 DEF ViewsInv, ViewsMessage
  <2>3. r.name \in 1..jv_Joints /\ r # Views!None
    BY <2>2, ViewsBounds DEF Views!Reading, Views!None
  <2>4. Views!Find(jv_measured, r.name) = r
    <3>1. PICK m : m = jv_measured
      OBVIOUS
    <3> QED BY <2>1, <3>1, ViewsFound DEF ViewsInv
  <2>5. jv_prev[r.name] = r.pos
    BY <1>4, <2>3, <2>4 DEF ViewsInv, ViewsAnglesInv
  <2>6. Views!joints(jv_measured)[r.name] = r.name
    BY <1>4, <2>3 DEF ViewsInv, ViewsAnglesInv, Views!joints
  <2>7. Views!RowState(jv_measured, r.name) = r
    BY <2>3, <2>4, <2>6 DEF Views!RowState
  <2> QED BY <2>1, <2>5, <2>7
<1> QED BY <1>1, <1>2, <1>3, <1>4 DEF Views!ShownIsNewest
-----------------------------------------------------------------------------
(* Calibration (Calibration)                                               *)

\* What is assumed of its constants.
LEMMA CalibBounds ==
  /\ ca_Joints \in Nat \ {0} /\ ca_MaxJobs \in Nat \ {0}
  /\ ca_MaxRequests \in Nat /\ ca_MaxMounts \in Nat
  BY MachinePagesAssumption

\* A job of the Brain, and what its status says of the steps it took.
CalibJob == [id : Nat, joint : Nat, step : Nat,
             status : {"started", "waiting_for_home", "running_sweep", "completed", "aborted"}]
CalibStep(job) ==
  /\ job.status = "started" => job.step = 0
  /\ job.status = "waiting_for_home" => job.step = 1
  /\ job.status = "running_sweep" => job.step = 2
  /\ job.status = "completed" => job.step = 3
  /\ job.status = "aborted" => job.step \in 0..2
\* What an answer brings, and the panel shows: a job, or the body of an error.
CalibState == CalibJob \union {Calib!BadBody}
\* A job a request, a message or the panel holds: perhaps not as it is now.
CalibKnown(jobs, job) ==
  job.id \in DOMAIN jobs /\ job.joint = jobs[job.id].joint

CalibRequest ==
  [n : Nat, op : {"start", "get", "advance", "abort", "sweep"}, arg : Nat, mount : Nat,
   stage : {"sent", "saving", "answered"}, ok : BOOLEAN, job : CalibState]

CalibJobsInv ==
  /\ ca_jobs \in Seq(CalibJob) /\ Len(ca_jobs) <= ca_MaxJobs
  /\ \A i \in DOMAIN ca_jobs :
       ca_jobs[i].id = i /\ ca_jobs[i].joint \in 1..ca_Joints /\ CalibStep(ca_jobs[i])
  /\ \A i, j \in DOMAIN ca_jobs :
       ca_jobs[i].joint = ca_jobs[j].joint /\ ca_jobs[i].status \notin Calib!TERMINAL
         /\ ca_jobs[j].status \notin Calib!TERMINAL => i = j

CalibRequestInv(r) ==
  /\ r \in CalibRequest
  /\ IF r.op = "start" THEN r.arg \in 1..ca_Joints ELSE r.arg \in DOMAIN ca_jobs
  /\ r.stage # "answered" => r.ok
  /\ r.stage = "saving" \/ (r.stage # "sent" /\ r.op # "get" /\ r.ok) =>
       r.job \in CalibJob /\ CalibKnown(ca_jobs, r.job)
CalibNetInv == \A r \in ca_net : CalibRequestInv(r)

CalibPanelInv ==
  /\ ca_sent \in 0..ca_MaxRequests /\ ca_debug \in BOOLEAN /\ ca_error \in BOOLEAN
  /\ ca_selected \in 0..ca_Joints /\ ca_mount \in 0..ca_MaxMounts
  /\ ca_cal \in [busy : BOOLEAN, job : {0} \union DOMAIN ca_jobs]

CalibSocketInv ==
  /\ ca_ws \in [id : Nat, state : {"closed", "opening", "snapshot", "live"}, feed : Seq(CalibJob)]
  /\ ca_ws.state = "opening" => ca_ws.id \in DOMAIN ca_jobs
  /\ \A i \in DOMAIN ca_ws.feed : CalibKnown(ca_jobs, ca_ws.feed[i])
  /\ ca_debug => ca_ws.id = ca_cal.job

\* Unless an update went by the subscription or they came in another order,
\* the last message on its way is the job as it is, once that is out; and the
\* panel shows it if no message is on its way and no read was late.
CalibFollows ==
  /\ ca_debug /\ ca_cal.job # 0 /\ ca_ws.state \in {"snapshot", "live"}
  /\ "window" \notin ca_behind /\ "order" \notin ca_behind
  /\ \A r \in ca_net : r.stage = "saving" => r.job # ca_jobs[ca_cal.job]
  => /\ ca_ws.feed # <<>> => ca_ws.feed[Len(ca_ws.feed)] = ca_jobs[ca_cal.job]
     /\ ca_ws.feed = <<>> /\ "read" \notin ca_behind => ca_shown = ca_jobs[ca_cal.job]

CalibInv == CalibJobsInv /\ CalibNetInv /\ CalibPanelInv /\ CalibSocketInv /\ CalibFollows

\* What a change of the jobs may do: a job keeps its joint, one that is over
\* stays as it is.
CalibGrow ==
  /\ DOMAIN ca_jobs \subseteq DOMAIN ca_jobs'
  /\ \A i \in DOMAIN ca_jobs :
       /\ ca_jobs'[i].joint = ca_jobs[i].joint
       /\ ca_jobs[i].status \in Calib!TERMINAL => ca_jobs'[i] = ca_jobs[i]

\* A job that changes is being saved, and those that are stay so.
CalibTold ==
  /\ \A i \in DOMAIN ca_jobs :
       ca_jobs'[i] = ca_jobs[i] \/ \E q \in ca_net' : q.stage = "saving" /\ q.job = ca_jobs'[i]
  /\ \A q \in ca_net : q.stage = "saving" => q \in ca_net'

\* So the panel and its socket are up to date after the step if they were
\* before it.
LEMMA CalibFollowsKept ==
  ASSUME CalibInv, CalibTold, ca_cal'.job = ca_cal.job,
         UNCHANGED <<ca_debug, ca_shown, ca_ws, ca_behind>>
  PROVE  CalibFollows'
<1>1. ca_cal.job # 0 => ca_cal.job \in DOMAIN ca_jobs
  BY DEF CalibInv, CalibPanelInv
<1>2. CASE ca_cal.job = 0
  BY <1>2 DEF CalibFollows
<1>3. CASE ca_cal.job # 0 /\ ca_jobs'[ca_cal.job] # ca_jobs[ca_cal.job]
  BY <1>1, <1>3 DEF CalibFollows, CalibTold
<1>4. CASE ca_cal.job # 0 /\ ca_jobs'[ca_cal.job] = ca_jobs[ca_cal.job]
  BY <1>4 DEF CalibFollows, CalibTold, CalibInv
<1> QED BY <1>2, <1>3, <1>4

\* There is nothing to follow without a socket that is connected.
LEMMA CalibNothing ==
  ASSUME ca_ws'.state \in {"closed", "opening"} \/ ~ca_debug' \/ ca_cal'.job = 0
  PROVE  CalibFollows'
BY DEF CalibFollows

\* What is known of a job stays known.
LEMMA CalibKnownKept ==
  ASSUME CalibGrow, NEW job, CalibKnown(ca_jobs, job)
  PROVE  CalibKnown(ca_jobs', job)
BY DEF CalibGrow, CalibKnown

\* A request stays sound while jobs only go on.
LEMMA CalibRequestKept ==
  ASSUME CalibGrow, NEW r, CalibRequestInv(r)
  PROVE  CalibRequestInv(r)'
BY CalibKnownKept DEF CalibGrow, CalibRequestInv

\* One job is written over, one that is not over.
LEMMA CalibWritten ==
  ASSUME CalibJobsInv, NEW job \in CalibJob, job.id \in DOMAIN ca_jobs,
         job.joint = ca_jobs[job.id].joint, CalibStep(job),
         ca_jobs[job.id].status \notin Calib!TERMINAL,
         ca_jobs' = [ca_jobs EXCEPT ![job.id] = job]
  PROVE  CalibJobsInv' /\ CalibGrow /\ CalibKnown(ca_jobs', job)
<1>1. /\ Len(ca_jobs') = Len(ca_jobs) /\ DOMAIN ca_jobs' = DOMAIN ca_jobs
      /\ ca_jobs' \in Seq(CalibJob)
  BY DEF CalibJobsInv
<1>2. \A i \in DOMAIN ca_jobs : ca_jobs'[i] = IF i = job.id THEN job ELSE ca_jobs[i]
  BY DEF CalibJobsInv
<1>3. CalibGrow /\ CalibKnown(ca_jobs', job)
  BY <1>1, <1>2 DEF CalibGrow, CalibKnown
<1>4. \A i \in DOMAIN ca_jobs' :
        ca_jobs'[i].id = i /\ ca_jobs'[i].joint \in 1..ca_Joints /\ CalibStep(ca_jobs'[i])
  BY <1>1, <1>2 DEF CalibJobsInv
<1>5. \A i, j \in DOMAIN ca_jobs' :
       ca_jobs'[i].joint = ca_jobs'[j].joint /\ ca_jobs'[i].status \notin Calib!TERMINAL
         /\ ca_jobs'[j].status \notin Calib!TERMINAL => i = j
  BY <1>1, <1>2 DEF CalibJobsInv
<1> QED BY <1>1, <1>3, <1>4, <1>5 DEF CalibJobsInv, CalibStep, Calib!TERMINAL

\* A joint all of whose jobs are over gets another one.
LEMMA CalibStarted ==
  ASSUME CalibJobsInv, NEW joint \in 1..ca_Joints, Calib!Free(joint),
         Len(ca_jobs) < ca_MaxJobs, NEW job,
         job = [id |-> Len(ca_jobs) + 1, joint |-> joint, status |-> "started", step |-> 0],
         ca_jobs' = Append(ca_jobs, job)
  PROVE  CalibJobsInv' /\ CalibGrow /\ CalibKnown(ca_jobs', job)
<1>1. job \in CalibJob /\ CalibStep(job)
  BY DEF CalibJob, CalibStep, CalibJobsInv
<1>2. /\ ca_jobs' \in Seq(CalibJob) /\ Len(ca_jobs') = Len(ca_jobs) + 1
      /\ DOMAIN ca_jobs' = 1..(Len(ca_jobs) + 1)
      /\ ca_jobs'[Len(ca_jobs) + 1] = job
      /\ \A i \in DOMAIN ca_jobs : ca_jobs'[i] = ca_jobs[i]
  BY <1>1 DEF CalibJobsInv
<1>3. DOMAIN ca_jobs = 1..Len(ca_jobs) /\ Len(ca_jobs) \in Nat
  BY DEF CalibJobsInv
<1>4. CalibGrow /\ CalibKnown(ca_jobs', job)
  BY <1>2, <1>3 DEF CalibGrow, CalibKnown
<1>5. \A i \in DOMAIN ca_jobs : ca_jobs[i].joint = joint => ca_jobs[i].status \in Calib!TERMINAL
  BY DEF Calib!Free
<1>6. \A i, j \in DOMAIN ca_jobs' :
       ca_jobs'[i].joint = ca_jobs'[j].joint /\ ca_jobs'[i].status \notin Calib!TERMINAL
         /\ ca_jobs'[j].status \notin Calib!TERMINAL => i = j
  BY <1>2, <1>3, <1>5 DEF CalibJobsInv
<1>7. \A i \in DOMAIN ca_jobs' :
        ca_jobs'[i].id = i /\ ca_jobs'[i].joint \in 1..ca_Joints /\ CalibStep(ca_jobs'[i])
  BY <1>1, <1>2, <1>3 DEF CalibJobsInv
<1>8. Len(ca_jobs') <= ca_MaxJobs
  BY <1>2, <1>3, CalibBounds
<1> QED BY <1>2, <1>4, <1>6, <1>7, <1>8 DEF CalibJobsInv, CalibStep, Calib!TERMINAL

\* The requests under way when one is served: the others keep their jobs.
LEMMA CalibNetServed ==
  ASSUME CalibNetInv, CalibGrow,
         \A q \in ca_net' : q \in ca_net \/ CalibRequestInv(q)'
  PROVE  CalibNetInv'
BY CalibRequestKept DEF CalibNetInv

\* A panel stays sound while jobs only go on.
LEMMA CalibPanelKept ==
  ASSUME CalibPanelInv, CalibGrow,
         UNCHANGED <<ca_sent, ca_debug, ca_error, ca_selected, ca_mount, ca_cal>>
  PROVE  CalibPanelInv'
<1>2. ca_cal \in [busy : BOOLEAN, job : {0} \union DOMAIN ca_jobs']
  BY DEF CalibPanelInv, CalibGrow
<1> QED BY <1>2 DEF CalibPanelInv

\* So does its socket.
LEMMA CalibSocketKept ==
  ASSUME CalibSocketInv, CalibGrow, UNCHANGED <<ca_ws, ca_debug, ca_cal>>
  PROVE  CalibSocketInv'
<1>1. \A i \in DOMAIN ca_ws.feed : CalibKnown(ca_jobs', ca_ws.feed[i])
  BY CalibKnownKept DEF CalibSocketInv
<1> QED BY <1>1 DEF CalibSocketInv, CalibGrow, CalibKnown

\* The jobs do not change.
LEMMA CalibIdle == UNCHANGED ca_jobs => CalibGrow
BY DEF CalibGrow

\* Jobs nobody touches stay sound.
LEMMA CalibJobsKept == CalibJobsInv /\ UNCHANGED ca_jobs => CalibJobsInv'
BY DEF CalibJobsInv, CalibStep, Calib!TERMINAL

\* A refused request.
LEMMA CalibRefused ==
  ASSUME CalibInv, NEW r \in ca_net, r.stage = "sent", Calib!Refuse(r)
  PROVE  CalibJobsInv' /\ CalibGrow /\ CalibTold /\ CalibNetInv'
<1>1. UNCHANGED ca_jobs /\ ca_net' = (ca_net \ {r}) \union {[r EXCEPT !.stage = "answered", !.ok = FALSE]}
  BY DEF Calib!Refuse, Calib!Move
<1>2. CalibRequestInv([r EXCEPT !.stage = "answered", !.ok = FALSE])'
  BY <1>1 DEF CalibInv, CalibNetInv, CalibRequestInv, CalibRequest
<1>3. CalibTold
  BY <1>1 DEF CalibTold
<1> QED BY <1>1, <1>2, <1>3, CalibIdle, CalibJobsKept, CalibNetServed DEF CalibInv

\* A job written over, in memory, for a request.
LEMMA CalibWrite ==
  ASSUME CalibInv, NEW r \in ca_net, r.stage = "sent", r.op # "start",
         NEW job \in CalibJob, job.id = r.arg,
         job.joint = ca_jobs[r.arg].joint, CalibStep(job),
         ca_jobs[r.arg].status \notin Calib!TERMINAL,
         NEW more, \A q \in more : q = [r EXCEPT !.op = "sweep", !.mount = 0],
         Calib!Write(r, job, more)
  PROVE  CalibJobsInv' /\ CalibGrow /\ CalibTold /\ CalibNetInv'
<1>1. CalibRequestInv(r)
  BY DEF CalibInv, CalibNetInv
<1>2. job.id \in DOMAIN ca_jobs
  BY <1>1 DEF CalibRequestInv
<1>3. CalibJobsInv' /\ CalibGrow /\ CalibKnown(ca_jobs', job)
  BY <1>2, CalibWritten DEF CalibInv, Calib!Write
<1> DEFINE saving == [r EXCEPT !.stage = "saving", !.job = job]
<1>4. CalibRequestInv(r)'
  BY <1>1, <1>3, CalibRequestKept
<1>5. CalibRequestInv(saving)'
  BY <1>3, <1>4 DEF CalibRequestInv, CalibRequest, CalibState
<1>6. ASSUME NEW q \in more PROVE CalibRequestInv(q)'
  <2>1. q = [r EXCEPT !.op = "sweep", !.mount = 0]
    OBVIOUS
  <2> QED BY <1>4, <2>1 DEF CalibRequestInv, CalibRequest
<1>7. ca_net' = (ca_net \ {r}) \union {saving} \union more
  BY DEF Calib!Write
<1>8. CalibNetInv'
  <2> HIDE DEF saving
  <2>1. \A q \in ca_net' : q \in ca_net \/ CalibRequestInv(q)'
    BY <1>5, <1>6, <1>7
  <2> QED BY <1>3, <2>1, CalibNetServed DEF CalibInv
<1>9. CalibTold
  <2>1. saving.stage = "saving" /\ saving.job = job
    BY <1>1 DEF CalibRequestInv, CalibRequest
  <2> HIDE DEF saving
  <2>2. \A i \in DOMAIN ca_jobs : ca_jobs'[i] = IF i = job.id THEN job ELSE ca_jobs[i]
    BY <1>2 DEF Calib!Write, CalibInv, CalibJobsInv
  <2> QED BY <1>7, <2>1, <2>2 DEF CalibTold
<1> QED BY <1>3, <1>8, <1>9

\* start_job.
LEMMA CalibStart ==
  ASSUME CalibInv, NEW r \in ca_net, r.stage = "sent", r.op = "start", Calib!start_job(r)
  PROVE  CalibJobsInv' /\ CalibGrow /\ CalibTold /\ CalibNetInv'
<1>1. CASE Calib!Free(r.arg)
  <2> PICK job : job = [id |-> Len(ca_jobs) + 1, joint |-> r.arg, status |-> "started", step |-> 0]
    OBVIOUS
  <2> DEFINE saving == [r EXCEPT !.stage = "saving", !.job = job]
  <2>1. CalibRequestInv(r) /\ r.arg \in 1..ca_Joints
    BY DEF CalibInv, CalibNetInv, CalibRequestInv
  <2>2. Len(ca_jobs) < ca_MaxJobs /\ ca_jobs' = Append(ca_jobs, job)
        /\ ca_net' = (ca_net \ {r}) \union {saving}
    BY <1>1 DEF Calib!start_job, Calib!Move
  <2>3. CalibJobsInv' /\ CalibGrow /\ CalibKnown(ca_jobs', job)
    BY <1>1, <2>1, <2>2, CalibStarted DEF CalibInv
  <2>4. job \in CalibJob
    BY <2>1 DEF CalibJob, CalibInv, CalibJobsInv
  <2>5. CalibRequestInv(saving)'
    <3>1. CalibRequestInv(r)'
      BY <2>1, <2>3, CalibRequestKept
    <3> QED BY <2>3, <2>4, <3>1 DEF CalibRequestInv, CalibRequest, CalibState
  <2>6. CalibNetInv'
    <3> HIDE DEF saving
    <3> QED BY <2>2, <2>3, <2>5, CalibNetServed DEF CalibInv
  <2>7. CalibTold
    <3> HIDE DEF saving
    <3>1. \A i \in DOMAIN ca_jobs : ca_jobs'[i] = ca_jobs[i]
      BY <2>2 DEF CalibInv, CalibJobsInv
    <3> QED BY <2>2, <3>1 DEF CalibTold
  <2> QED BY <2>3, <2>6, <2>7
<1>2. CASE ~Calib!Free(r.arg)
  BY <1>2, CalibRefused DEF Calib!start_job
<1> QED BY <1>1, <1>2

\* get_job.
LEMMA CalibGet ==
  ASSUME CalibInv, NEW r \in ca_net, r.stage = "sent", r.op = "get", Calib!get_job(r)
  PROVE  CalibJobsInv' /\ CalibGrow /\ CalibTold /\ CalibNetInv'
<1>1. PICK job \in {ca_jobs[r.arg], Calib!BadBody, r.job}, ok \in BOOLEAN :
        /\ UNCHANGED ca_jobs
        /\ ca_net' = (ca_net \ {r}) \union {[r EXCEPT !.stage = "answered", !.ok = ok, !.job = job]}
  <2>1. CalibRequestInv(r) /\ r \in CalibRequest /\ r.ok = TRUE
    BY DEF CalibInv, CalibNetInv, CalibRequestInv, CalibRequest
  <2>2. \A job : [r EXCEPT !.stage = "answered", !.job = job]
                   = [r EXCEPT !.stage = "answered", !.ok = TRUE, !.job = job]
    BY <2>1 DEF CalibRequest
  <2>3. [r EXCEPT !.stage = "answered", !.ok = FALSE]
          = [r EXCEPT !.stage = "answered", !.ok = FALSE, !.job = r.job]
    BY <2>1 DEF CalibRequest
  <2>4. CASE Calib!Move(r, [r EXCEPT !.stage = "answered", !.job = ca_jobs[r.arg]])
    <3>1. PICK job, ok : job = ca_jobs[r.arg] /\ ok = TRUE
      OBVIOUS
    <3>2. ca_net' = (ca_net \ {r}) \union {[r EXCEPT !.stage = "answered", !.ok = ok, !.job = job]}
      BY <2>2, <2>4, <3>1 DEF Calib!Move
    <3>3. UNCHANGED ca_jobs /\ ok \in BOOLEAN /\ job \in {ca_jobs[r.arg], Calib!BadBody, r.job}
      BY <3>1 DEF Calib!get_job
    <3> QED BY <3>2, <3>3
  <2>5. CASE Calib!Move(r, [r EXCEPT !.stage = "answered", !.job = Calib!BadBody])
    <3>1. PICK job, ok : job = Calib!BadBody /\ ok = TRUE
      OBVIOUS
    <3>2. ca_net' = (ca_net \ {r}) \union {[r EXCEPT !.stage = "answered", !.ok = ok, !.job = job]}
      BY <2>2, <2>5, <3>1 DEF Calib!Move
    <3>3. UNCHANGED ca_jobs /\ ok \in BOOLEAN /\ job \in {ca_jobs[r.arg], Calib!BadBody, r.job}
      BY <3>1 DEF Calib!get_job
    <3> QED BY <3>2, <3>3
  <2>6. CASE Calib!Move(r, [r EXCEPT !.stage = "answered", !.ok = FALSE])
    <3>1. PICK job, ok : job = r.job /\ ok = FALSE
      OBVIOUS
    <3>2. ca_net' = (ca_net \ {r}) \union {[r EXCEPT !.stage = "answered", !.ok = ok, !.job = job]}
      BY <2>3, <2>6, <3>1 DEF Calib!Move
    <3>3. UNCHANGED ca_jobs /\ ok \in BOOLEAN /\ job \in {ca_jobs[r.arg], Calib!BadBody, r.job}
      BY <3>1 DEF Calib!get_job
    <3> QED BY <3>2, <3>3
  <2> QED BY <2>4, <2>5, <2>6 DEF Calib!get_job
<1>2. CalibRequestInv(r) /\ r \in CalibRequest
  BY DEF CalibInv, CalibNetInv, CalibRequestInv
<1>3. job \in CalibState
  <2>1. ca_jobs[r.arg] \in CalibJob
    BY <1>2 DEF CalibRequestInv, CalibInv, CalibJobsInv
  <2> QED BY <1>1, <1>2, <2>1 DEF CalibRequest, CalibState
<1>4. PICK answer : answer = [r EXCEPT !.stage = "answered", !.ok = ok, !.job = job]
  OBVIOUS
<1>5. CalibRequestInv(answer)'
  <2>1. /\ answer \in CalibRequest /\ answer.op = "get" /\ answer.arg = r.arg
        /\ answer.stage = "answered"
    BY <1>2, <1>3, <1>4 DEF CalibRequest
  <2> QED BY <1>1, <1>2, <2>1 DEF CalibRequestInv
<1>6. CalibTold
  BY <1>1 DEF CalibTold
<1> QED BY <1>1, <1>4, <1>5, <1>6, CalibIdle, CalibJobsKept, CalibNetServed DEF CalibInv

\* advance_job.
LEMMA CalibAdvance ==
  ASSUME CalibInv, NEW r \in ca_net, r.stage = "sent", r.op = "advance", Calib!advance_job(r)
  PROVE  CalibJobsInv' /\ CalibGrow /\ CalibTold /\ CalibNetInv'
<1> PICK job : job = ca_jobs[r.arg]
  OBVIOUS
<1> PICK next : next = [job EXCEPT !.status = Calib!NextStatus[@], !.step = @ + 1]
  OBVIOUS
<1> PICK more : more = IF job.status = "waiting_for_home"
                       THEN {[r EXCEPT !.op = "sweep", !.mount = 0]} ELSE {}
  OBVIOUS
<1>1. CASE job.status \in Calib!TERMINAL
  BY <1>1, CalibRefused DEF Calib!advance_job
<1>2. CASE job.status \notin Calib!TERMINAL
  <2>1. Calib!Write(r, next, more)
    BY <1>2 DEF Calib!advance_job
  <2>2. CalibRequestInv(r)
    BY DEF CalibInv, CalibNetInv
  <2>3. job \in CalibJob /\ job.id = r.arg /\ CalibStep(job)
    BY <2>2 DEF CalibRequestInv, CalibInv, CalibJobsInv
  <2>4. next \in CalibJob /\ next.id = r.arg /\ next.joint = job.joint /\ CalibStep(next)
    <3>1. /\ next \in [id : {job.id}, joint : {job.joint}, step : {job.step + 1},
                         status : {Calib!NextStatus[job.status]}]
      BY <2>3 DEF CalibJob
    <3>2. Calib!NextStatus["started"] = "waiting_for_home"
      BY DEF Calib!NextStatus
    <3>3. Calib!NextStatus["waiting_for_home"] = "running_sweep"
      BY DEF Calib!NextStatus
    <3>4. Calib!NextStatus["running_sweep"] = "completed"
      BY DEF Calib!NextStatus
    <3> QED BY <1>2, <2>3, <3>1, <3>2, <3>3, <3>4 DEF CalibJob, CalibStep, Calib!TERMINAL
  <2>5. \A q \in more : q = [r EXCEPT !.op = "sweep", !.mount = 0]
    OBVIOUS
  <2> QED BY <1>2, <2>1, <2>4, <2>5, CalibWrite
<1> QED BY <1>1, <1>2

\* abort_job.
LEMMA CalibAbort ==
  ASSUME CalibInv, NEW r \in ca_net, r.stage = "sent", r.op = "abort", Calib!abort_job(r)
  PROVE  CalibJobsInv' /\ CalibGrow /\ CalibTold /\ CalibNetInv'
<1> PICK job : job = ca_jobs[r.arg]
  OBVIOUS
<1> PICK next : next = [job EXCEPT !.status = "aborted"]
  OBVIOUS
<1>1. CASE job.status \in Calib!TERMINAL
  BY <1>1, CalibRefused DEF Calib!abort_job
<1>2. CASE job.status \notin Calib!TERMINAL
  <2> PICK more : more = {}
    OBVIOUS
  <2>1. Calib!Write(r, next, more)
    BY <1>2 DEF Calib!abort_job
  <2>2. CalibRequestInv(r)
    BY DEF CalibInv, CalibNetInv
  <2>3. job \in CalibJob /\ job.id = r.arg /\ CalibStep(job)
    BY <2>2 DEF CalibRequestInv, CalibInv, CalibJobsInv
  <2>4. next \in CalibJob /\ next.id = r.arg /\ next.joint = job.joint /\ CalibStep(next)
    BY <1>2, <2>3 DEF CalibJob, CalibStep, Calib!TERMINAL
  <2>6. \A q \in more : q = [r EXCEPT !.op = "sweep", !.mount = 0]
    OBVIOUS
  <2> QED BY <1>2, <2>1, <2>4, <2>6, CalibWrite
<1> QED BY <1>1, <1>2

\* The end of a sweep.
LEMMA CalibSweep ==
  ASSUME CalibInv, NEW r \in ca_net, r.stage = "sent", r.op = "sweep", Calib!complete_sweep(r)
  PROVE  CalibJobsInv' /\ CalibGrow /\ CalibTold /\ CalibNetInv'
<1> PICK job : job = ca_jobs[r.arg]
  OBVIOUS
<1> PICK next : next = [job EXCEPT !.status = "completed", !.step = @ + 1]
  OBVIOUS
<1>1. CASE job.status # "running_sweep"
  <2>1. ca_net' = ca_net \ {r} /\ UNCHANGED ca_jobs
    BY <1>1 DEF Calib!complete_sweep
  <2>2. CalibTold
    BY <2>1 DEF CalibTold
  <2> QED BY <2>1, <2>2, CalibIdle, CalibJobsKept, CalibNetServed DEF CalibInv
<1>2. CASE job.status = "running_sweep"
  <2> PICK more : more = {}
    OBVIOUS
  <2>1. Calib!Write(r, next, more)
    BY <1>2 DEF Calib!complete_sweep
  <2>2. CalibRequestInv(r)
    BY DEF CalibInv, CalibNetInv
  <2>3. job \in CalibJob /\ job.id = r.arg /\ CalibStep(job)
    BY <2>2 DEF CalibRequestInv, CalibInv, CalibJobsInv
  <2>4. next \in CalibJob /\ next.id = r.arg /\ next.joint = job.joint /\ CalibStep(next)
    <3>1. next \in [id : {job.id}, joint : {job.joint}, step : {job.step + 1}, status : {"completed"}]
      BY <2>3 DEF CalibJob
    <3> QED BY <1>2, <2>3, <3>1 DEF CalibJob, CalibStep
  <2>5. job.status \notin Calib!TERMINAL
    BY <1>2 DEF Calib!TERMINAL
  <2>6. \A q \in more : q = [r EXCEPT !.op = "sweep", !.mount = 0]
    OBVIOUS
  <2> QED BY <2>1, <2>4, <2>5, <2>6, CalibWrite
<1> QED BY <1>1, <1>2

\* A job is stored and its subscriber told.
LEMMA CalibPersist ==
  ASSUME CalibInv, NEW r \in ca_net, r.stage = "saving", Calib!persist_and_publish(r),
         UNCHANGED <<ca_debug, ca_cal, ca_shown>>
  PROVE  CalibJobsInv' /\ CalibGrow /\ CalibNetInv' /\ CalibSocketInv' /\ CalibFollows'
<1>1. UNCHANGED ca_jobs /\ CalibGrow /\ CalibJobsInv'
  BY CalibIdle, CalibJobsKept DEF Calib!persist_and_publish, CalibInv
<1>2. CalibRequestInv(r) /\ r.job \in CalibJob /\ CalibKnown(ca_jobs, r.job)
  BY DEF CalibInv, CalibNetInv, CalibRequestInv, CalibRequest
<1> DEFINE answer == [r EXCEPT !.stage = "answered"]
<1>3. CalibNetInv'
  <2>1. CalibRequestInv(answer)'
    BY <1>1, <1>2 DEF CalibRequestInv, CalibRequest, CalibKnown
  <2>2. ca_net' \subseteq ca_net \union {answer}
    BY DEF Calib!persist_and_publish, Calib!Move
  <2> HIDE DEF answer
  <2> QED BY <1>1, <2>1, <2>2, CalibNetServed DEF CalibInv
<1>4. CalibSocketInv'
  <2>1. CASE UNCHANGED ca_ws
    BY <1>1, <2>1, CalibSocketKept DEF CalibInv
  <2>2. CASE ca_ws' = [ca_ws EXCEPT !.feed = Append(@, r.job)] /\ ca_ws.state = "live"
    <3>1. /\ ca_ws \in [id : Nat, state : {"closed", "opening", "snapshot", "live"}, feed : Seq(CalibJob)]
          /\ \A i \in DOMAIN ca_ws.feed : CalibKnown(ca_jobs', ca_ws.feed[i])
      BY <1>1, CalibKnownKept DEF CalibInv, CalibSocketInv
    <3>2. ca_ws'.feed = Append(ca_ws.feed, r.job) /\ ca_ws'.state = "live" /\ ca_ws'.id = ca_ws.id
      BY <2>2, <3>1
    <3>3. ca_ws' \in [id : Nat, state : {"closed", "opening", "snapshot", "live"}, feed : Seq(CalibJob)]
      <4>1. Append(ca_ws.feed, r.job) \in Seq(CalibJob)
        BY <1>2, <3>1
      <4> QED BY <2>2, <3>1, <4>1
    <3>4. \A i \in DOMAIN ca_ws'.feed : CalibKnown(ca_jobs', ca_ws'.feed[i])
      <4>1. CalibKnown(ca_jobs', r.job)
        BY <1>1, <1>2, CalibKnownKept
      <4> QED BY <3>1, <3>2, <4>1
    <3> QED BY <1>1, <3>2, <3>3, <3>4 DEF CalibInv, CalibSocketInv, CalibKnown
  <2> QED BY <2>1, <2>2 DEF Calib!persist_and_publish
<1>5. CalibFollows'
  <2> SUFFICES ASSUME ca_debug, ca_cal.job # 0, ca_ws'.state \in {"snapshot", "live"},
                      "window" \notin ca_behind', "order" \notin ca_behind',
                      \A q \in ca_net' : q.stage = "saving" => q.job # ca_jobs[ca_cal.job]
               PROVE  /\ ca_ws'.feed # <<>> => ca_ws'.feed[Len(ca_ws'.feed)] = ca_jobs[ca_cal.job]
                      /\ ca_ws'.feed = <<>> /\ "read" \notin ca_behind' => ca_shown = ca_jobs[ca_cal.job]
    BY <1>1 DEF CalibFollows
  <2>1. /\ ca_ws.id = ca_cal.job /\ ca_ws.feed \in Seq(CalibJob)
        /\ ca_ws \in [id : Nat, state : {"closed", "opening", "snapshot", "live"}, feed : Seq(CalibJob)]
    BY DEF CalibInv, CalibSocketInv
  <2>2. r.job.id \in DOMAIN ca_jobs /\ ca_cal.job \in DOMAIN ca_jobs /\ ca_jobs[ca_cal.job].id = ca_cal.job
    BY <1>2 DEF CalibInv, CalibPanelInv, CalibJobsInv, CalibKnown
  <2>3. \A q \in ca_net : q # r => q \in ca_net'
    BY DEF Calib!persist_and_publish, Calib!Move
  <2>4. CASE r.job.id # ca_ws.id
    <3>1. UNCHANGED <<ca_ws, ca_behind>>
      BY <2>4 DEF Calib!persist_and_publish
    <3>2. \A q \in ca_net : q.stage = "saving" => q.job # ca_jobs[ca_cal.job]
      BY <2>1, <2>2, <2>3, <2>4
    <3> QED BY <3>1, <3>2 DEF CalibInv, CalibFollows
  <2>5. CASE r.job.id = ca_ws.id /\ ca_ws.state = "live"
    <3>1. ca_ws' = [ca_ws EXCEPT !.feed = Append(@, r.job)]
          /\ ca_behind' = IF r.job = ca_jobs[ca_ws.id] THEN ca_behind \ {"window", "order"}
                          ELSE ca_behind \union {"order"}
      BY <2>5 DEF Calib!persist_and_publish
    <3>2. ca_ws'.feed = Append(ca_ws.feed, r.job)
      BY <2>1, <3>1
    <3>3. r.job = ca_jobs[ca_cal.job]
      BY <2>1, <3>1
    <3>4. ca_ws'.feed # <<>> /\ ca_ws'.feed[Len(ca_ws'.feed)] = r.job
      BY <1>2, <2>1, <3>2
    <3> QED BY <3>3, <3>4
  <2>6. CASE r.job.id = ca_ws.id /\ ca_ws.state = "snapshot"
    <3>1. UNCHANGED ca_ws
          /\ ca_behind' = IF r.job = ca_jobs[ca_ws.id] THEN ca_behind \union {"window"} ELSE ca_behind
      BY <2>6 DEF Calib!persist_and_publish
    <3>2. r.job # ca_jobs[ca_cal.job] /\ ca_behind' = ca_behind
      BY <2>1, <3>1
    <3>3. \A q \in ca_net : q.stage = "saving" => q.job # ca_jobs[ca_cal.job]
      BY <2>3, <3>2
    <3> QED BY <3>1, <3>2, <3>3 DEF CalibInv, CalibFollows
  <2>7. CASE ca_ws.state \in {"closed", "opening"}
    <3>1. UNCHANGED ca_ws
      BY <2>7 DEF Calib!persist_and_publish
    <3> QED BY <2>7, <3>1
  <2> QED BY <2>1, <2>4, <2>5, <2>6, <2>7
<1> QED BY <1>1, <1>3, <1>4, <1>5

\* Serving a request.
LEMMA CalibServe ==
  ASSUME CalibInv, Calib!Serve
  PROVE  CalibInv' /\ CalibGrow
<1>1. UNCHANGED <<ca_sent, ca_debug, ca_error, ca_selected, ca_mount, ca_cal, ca_shown>>
  BY DEF Calib!Serve, Calib!look
<1>2. PICK r \in ca_net :
       \/ /\ r.stage = "sent"
          /\ \/ r.op = "start" /\ Calib!start_job(r)
             \/ r.op = "get" /\ Calib!get_job(r)
             \/ r.op = "advance" /\ Calib!advance_job(r)
             \/ r.op = "abort" /\ Calib!abort_job(r)
             \/ r.op = "sweep" /\ Calib!complete_sweep(r)
          /\ UNCHANGED <<ca_ws, ca_behind>>
       \/ r.stage = "saving" /\ Calib!persist_and_publish(r)
  BY DEF Calib!Serve
<1>3. CASE r.stage = "saving" /\ Calib!persist_and_publish(r)
  BY <1>1, <1>3, CalibPersist, CalibPanelKept DEF CalibInv
<1>4. CASE r.stage = "sent" /\ UNCHANGED <<ca_ws, ca_behind>>
  <2>1. CalibJobsInv' /\ CalibGrow /\ CalibTold /\ CalibNetInv'
    BY <1>2, <1>4, CalibStart, CalibGet, CalibAdvance, CalibAbort, CalibSweep
  <2>2. CalibFollows'
    BY <1>1, <1>4, <2>1, CalibFollowsKept
  <2> QED BY <1>1, <1>4, <2>1, <2>2, CalibPanelKept, CalibSocketKept DEF CalibInv
<1> QED BY <1>2, <1>3, <1>4

\* A request of the page for a joint or for a job of the Brain.
LEMMA CalibFetch ==
  ASSUME CalibInv, NEW op \in {"start", "get", "advance", "abort"}, NEW arg,
         IF op = "start" THEN arg \in 1..ca_Joints ELSE arg \in DOMAIN ca_jobs,
         NEW rest, rest \subseteq ca_net,
         ca_mount' \in 0..ca_MaxMounts, UNCHANGED ca_jobs,
         Calib!brainFetch(op, arg, rest)
  PROVE  /\ CalibNetInv' /\ ca_sent' \in 0..ca_MaxRequests
         /\ (\A w \in ca_net : w.stage = "saving" => w \in rest) => CalibTold
<1>1. ca_sent \in Nat /\ ca_sent < ca_MaxRequests /\ ca_sent' = ca_sent + 1
  BY CalibBounds DEF CalibInv, CalibPanelInv, Calib!brainFetch
<1>2. PICK q : q = [n |-> ca_sent + 1, op |-> op, arg |-> arg, mount |-> ca_mount',
                    stage |-> "sent", ok |-> TRUE, job |-> Calib!NoJob]
  OBVIOUS
<1>3. ca_net' = rest \union {q}
  BY <1>2 DEF Calib!brainFetch
<1>4. arg \in Nat
  BY CalibBounds DEF CalibInv, CalibJobsInv
<1>5. CalibRequestInv(q)'
  BY <1>1, <1>2, <1>4, CalibBounds DEF CalibRequestInv, CalibRequest, CalibState, CalibJob, Calib!NoJob
<1>6. CalibNetInv'
  BY <1>3, <1>5, CalibIdle, CalibNetServed DEF CalibInv
<1>7. ca_sent' \in 0..ca_MaxRequests
  BY <1>1, CalibBounds
<1>8. (\A w \in ca_net : w.stage = "saving" => w \in rest) => CalibTold
  BY <1>3 DEF CalibTold
<1> QED BY <1>6, <1>7, <1>8

\* Requests that go away disturb nothing.
LEMMA CalibNetFewer ==
  ASSUME CalibInv, ca_net' \subseteq ca_net, UNCHANGED ca_jobs
  PROVE  CalibNetInv' /\ ((\A q \in ca_net : q.stage = "saving" => q \in ca_net') => CalibTold)
BY CalibIdle, CalibNetServed DEF CalibInv, CalibTold

\* The panel opens the socket of a job, or has none.
LEMMA CalibObserved ==
  ASSUME CalibInv, UNCHANGED ca_jobs, NEW id \in DOMAIN ca_jobs,
         ca_ws' = [id |-> id, state |-> "opening", feed |-> <<>>],
         ca_debug' => id = ca_cal'.job
  PROVE  CalibSocketInv'
BY DEF CalibInv, CalibJobsInv, CalibSocketInv

\* No socket is a sound one.
LEMMA CalibNoSocket ==
  ASSUME ca_ws' = Calib!NoSocket, ca_debug' => ca_cal'.job = 0
  PROVE  CalibSocketInv'
BY DEF CalibSocketInv, Calib!NoSocket

\* The panel opens and closes.
LEMMA CalibDebugPanel ==
  ASSUME CalibInv, Calib!DebugPanel
  PROVE  CalibInv'
<1>1. /\ UNCHANGED <<ca_jobs, ca_selected, ca_cal>> /\ ca_debug' = ~ca_debug
      /\ ca_shown' = Calib!NoJob /\ ca_error' = FALSE
      /\ ca_mount' \in 0..ca_MaxMounts
  BY CalibBounds DEF Calib!DebugPanel, CalibInv, CalibPanelInv
<1>2. ca_cal \in [busy : BOOLEAN, job : {0} \union DOMAIN ca_jobs]
  BY DEF CalibInv, CalibPanelInv
<1>3. CalibNetInv' /\ CalibSocketInv' /\ ca_sent' \in 0..ca_MaxRequests
  <2>1. CASE ca_debug' /\ ca_cal.job # 0
    <3>1. /\ Calib!brainFetch("get", ca_cal.job, ca_net)
          /\ ca_ws' = [id |-> ca_cal.job, state |-> "opening", feed |-> <<>>]
      BY <2>1 DEF Calib!DebugPanel, Calib!Observe
    <3>2. ca_cal.job \in DOMAIN ca_jobs
      BY <1>2, <2>1
    <3>3. PICK id : id = ca_cal.job
      OBVIOUS
    <3>4. CalibNetInv' /\ ca_sent' \in 0..ca_MaxRequests
      BY <1>1, <3>1, <3>2, CalibFetch
    <3>5. CalibSocketInv'
      BY <1>1, <3>1, <3>2, <3>3, CalibObserved
    <3> QED BY <3>4, <3>5
  <2>2. CASE ~(ca_debug' /\ ca_cal.job # 0)
    <3>1. ca_ws' = Calib!NoSocket /\ UNCHANGED <<ca_net, ca_sent>>
      BY <2>2 DEF Calib!DebugPanel
    <3>2. ca_debug' => ca_cal'.job = 0
      BY <1>1, <2>2
    <3>3. ca_net' \subseteq ca_net
      BY <3>1
    <3> QED BY <1>1, <3>1, <3>2, <3>3, CalibNoSocket, CalibNetFewer DEF CalibInv, CalibPanelInv
  <2> QED BY <2>1, <2>2
<1>4. CalibPanelInv'
  BY <1>1, <1>2, <1>3 DEF CalibInv, CalibPanelInv
<1>5. CalibFollows'
  <2>1. CASE ca_debug' /\ ca_cal.job # 0
    BY <2>1, CalibNothing DEF Calib!DebugPanel, Calib!Observe
  <2>2. CASE ~(ca_debug' /\ ca_cal.job # 0)
    BY <1>1, <2>2, CalibNothing
  <2> QED BY <2>1, <2>2
<1> QED BY <1>1, <1>3, <1>4, <1>5, CalibJobsKept DEF CalibInv

\* What the page itself changes.
LEMMA CalibPage ==
  ASSUME CalibInv,
         Calib!Select \/ Calib!startCalibration \/ Calib!advance \/ Calib!abort \/ Calib!onClose
  PROVE  CalibInv'
<1>1. UNCHANGED <<ca_jobs, ca_debug, ca_shown, ca_mount, ca_behind>>
  BY DEF Calib!Select, Calib!startCalibration, Calib!advance, Calib!abort, Calib!Act,
         Calib!onClose, Calib!look, Calib!view
<1>2. CalibJobsInv'
  BY <1>1, CalibJobsKept DEF CalibInv
<1>3. ca_mount' \in 0..ca_MaxMounts
  BY <1>1 DEF CalibInv, CalibPanelInv
<1>4. ASSUME UNCHANGED <<ca_ws, ca_cal>>
      PROVE  CalibSocketInv' /\ (CalibTold => CalibFollows')
  BY <1>1, <1>4, CalibIdle, CalibSocketKept, CalibFollowsKept DEF CalibInv
<1>5. CASE Calib!Select
  <2>1. UNCHANGED <<ca_jobs, ca_net, ca_sent, ca_debug, ca_cal, ca_mount, ca_shown, ca_error, ca_ws>>
    BY <1>5 DEF Calib!Select, Calib!view
  <2>2. ca_selected' \in 0..ca_Joints
    BY <1>5, CalibBounds DEF Calib!Select, Calib!onJointClick, Calib!openDetails
  <2>3. CalibNetInv' /\ CalibTold
    BY <2>1, CalibNetFewer
  <2>4. CalibPanelInv'
    BY <2>1, <2>2 DEF CalibInv, CalibPanelInv
  <2> QED BY <1>2, <1>4, <2>1, <2>3, <2>4 DEF CalibInv
<1>6. CASE Calib!startCalibration
  <2>1. /\ ca_cal' = [ca_cal EXCEPT !.busy = TRUE] /\ UNCHANGED <<ca_selected, ca_error, ca_ws>>
    BY <1>6 DEF Calib!startCalibration, Calib!look
  <2>2. PICK joint : joint = IF ca_selected = 0 THEN 1 ELSE ca_selected
    OBVIOUS
  <2>3. Calib!brainFetch("start", joint, ca_net) /\ joint \in 1..ca_Joints
    BY <1>6, <2>2, CalibBounds DEF Calib!startCalibration, CalibInv, CalibPanelInv
  <2>4. CalibNetInv' /\ ca_sent' \in 0..ca_MaxRequests /\ CalibTold
    BY <1>1, <1>3, <2>3, CalibFetch
  <2>5. CalibPanelInv'
    BY <1>1, <2>1, <2>4 DEF CalibInv, CalibPanelInv
  <2>6. CalibSocketInv'
    BY <1>1, <2>1 DEF CalibInv, CalibPanelInv, CalibSocketInv, CalibKnown
  <2>7. CalibFollows'
    <3>1. ca_cal'.job = ca_cal.job
      BY <2>1 DEF CalibInv, CalibPanelInv
    <3> QED BY <1>1, <2>1, <2>4, <3>1, CalibFollowsKept
  <2> QED BY <1>2, <2>4, <2>5, <2>6, <2>7 DEF CalibInv
<1>7. ASSUME NEW op \in {"advance", "abort"}, Calib!Act(op)
      PROVE  CalibInv'
  <2>1. ca_error' = FALSE /\ UNCHANGED <<ca_selected, ca_cal, ca_ws>>
    BY <1>7 DEF Calib!Act, Calib!look
  <2>2. Calib!brainFetch(op, ca_cal.job, ca_net) /\ ca_cal.job \in DOMAIN ca_jobs
    BY <1>7 DEF Calib!Act, Calib!Visible, CalibInv, CalibPanelInv
  <2>3. CalibNetInv' /\ ca_sent' \in 0..ca_MaxRequests /\ CalibTold
    BY <1>1, <1>3, <2>2, CalibFetch
  <2>4. CalibPanelInv'
    BY <1>1, <2>1, <2>3 DEF CalibInv, CalibPanelInv
  <2> QED BY <1>2, <1>4, <2>1, <2>3, <2>4 DEF CalibInv
<1>8. CASE Calib!onClose
  <2>1. /\ ca_cal' = [ca_cal EXCEPT !.job = 0] /\ ca_ws' = Calib!NoSocket
        /\ UNCHANGED <<ca_net, ca_sent, ca_selected, ca_error>>
    BY <1>8 DEF Calib!onClose, Calib!look
  <2>2. CalibNetInv'
    BY <1>1, <2>1, CalibNetFewer
  <2>3. ca_cal'.job = 0 /\ ca_cal' \in [busy : BOOLEAN, job : {0}]
    BY <2>1 DEF CalibInv, CalibPanelInv
  <2>4. CalibPanelInv'
    BY <1>1, <2>1, <2>3 DEF CalibInv, CalibPanelInv
  <2>5. CalibSocketInv' /\ CalibFollows'
    BY <2>1, <2>3, CalibNoSocket, CalibNothing
  <2> QED BY <1>2, <2>2, <2>4, <2>5 DEF CalibInv
<1> QED BY <1>5, <1>6, <1>7, <1>8 DEF Calib!advance, Calib!abort

\* Answers and messages.
LEMMA CalibAnswer ==
  ASSUME CalibInv, Calib!Answer
  PROVE  CalibInv'
<1>1. UNCHANGED <<ca_jobs, ca_debug, ca_selected>>
  BY DEF Calib!Answer, Calib!look
<1>2. CalibJobsInv'
  BY <1>1, CalibJobsKept DEF CalibInv
<1>3. PICK r \in ca_net :
        /\ r.stage = "answered"
        /\ \/ r.op = "start" /\ Calib!StartAnswered(r)
           \/ r.op = "get" /\ Calib!StateFetched(r)
           \/ r.op \in {"advance", "abort"} /\ Calib!ActAnswered(r)
  BY DEF Calib!Answer
<1>4. CalibRequestInv(r) /\ (r.op = "start" /\ r.ok => CalibKnown(ca_jobs, r.job))
  BY <1>3 DEF CalibInv, CalibNetInv, CalibRequestInv, CalibRequest
<1>5. ASSUME UNCHANGED <<ca_ws, ca_cal>> PROVE CalibSocketInv'
  BY <1>1, <1>5, CalibIdle, CalibSocketKept DEF CalibInv
<1>9. \A q \in ca_net : q.stage = "saving" => q \in ca_net \ {r}
  BY <1>3
<1>6. CASE r.op = "start" /\ Calib!StartAnswered(r)
  <2>1. /\ ca_cal' = [busy |-> FALSE, job |-> IF r.ok THEN r.job.id ELSE ca_cal.job]
        /\ UNCHANGED <<ca_mount, ca_shown, ca_error>>
    BY <1>6 DEF Calib!StartAnswered
  <2>2. ca_cal' \in [busy : BOOLEAN, job : {0} \union DOMAIN ca_jobs]
    BY <1>4, <1>6, <2>1 DEF CalibInv, CalibPanelInv, CalibKnown
  <2>3. CalibNetInv' /\ CalibSocketInv' /\ ca_sent' \in 0..ca_MaxRequests /\ CalibFollows'
    <3>1. CASE r.ok /\ ca_debug
      <4>1. PICK id : id = r.job.id
        OBVIOUS
      <4>2. PICK rest : rest = ca_net \ {r}
        OBVIOUS
      <4>3. /\ Calib!brainFetch("get", id, rest)
            /\ ca_ws' = [id |-> id, state |-> "opening", feed |-> <<>>]
        BY <1>6, <3>1, <4>1, <4>2 DEF Calib!StartAnswered, Calib!Observe
      <4>4. id \in DOMAIN ca_jobs /\ rest \subseteq ca_net /\ ca_mount' \in 0..ca_MaxMounts
        BY <1>4, <1>6, <2>1, <3>1, <4>1, <4>2 DEF CalibInv, CalibPanelInv, CalibKnown
      <4>5. CalibNetInv' /\ ca_sent' \in 0..ca_MaxRequests
        BY <1>1, <4>3, <4>4, CalibFetch
      <4>6. ca_cal'.job = id
        BY <2>1, <3>1, <4>1
      <4>7. ca_ws'.state = "opening"
        BY <4>3
      <4> QED BY <1>1, <4>3, <4>4, <4>5, <4>6, <4>7, CalibObserved, CalibNothing
    <3>2. CASE ~(r.ok /\ ca_debug)
      <4>1. ca_net' = ca_net \ {r} /\ UNCHANGED <<ca_sent, ca_ws, ca_behind>>
        BY <1>6, <3>2 DEF Calib!StartAnswered
      <4>2. ca_debug => ca_cal'.job = ca_cal.job
        BY <2>1, <3>2
      <4>3. CalibSocketInv'
        BY <1>1, <4>1, <4>2 DEF CalibInv, CalibSocketInv, CalibKnown
      <4>4. CalibNetInv' /\ CalibTold
        BY <1>1, <1>9, <4>1, CalibNetFewer
      <4>5. CalibFollows'
        <5>1. CASE ca_debug
          BY <1>1, <2>1, <4>1, <4>2, <4>4, <5>1, CalibFollowsKept
        <5>2. CASE ~ca_debug
          BY <1>1, <5>2, CalibNothing
        <5> QED BY <5>1, <5>2
      <4> QED BY <4>1, <4>3, <4>4, <4>5 DEF CalibInv, CalibPanelInv
    <3> QED BY <3>1, <3>2
  <2>4. CalibPanelInv'
    BY <1>1, <2>1, <2>2, <2>3 DEF CalibInv, CalibPanelInv
  <2> QED BY <1>2, <2>3, <2>4 DEF CalibInv
<1>7. CASE r.op = "get" /\ Calib!StateFetched(r)
  <2>1. /\ ca_net' = ca_net \ {r} /\ UNCHANGED <<ca_sent, ca_cal, ca_mount, ca_ws>>
        /\ ca_error' = ca_error \/ ca_error' = TRUE
    BY <1>7 DEF Calib!StateFetched
  <2>2. CalibNetInv' /\ CalibTold
    BY <1>1, <1>9, <2>1, CalibNetFewer
  <2>3. ca_error' \in BOOLEAN
    BY <2>1 DEF CalibInv, CalibPanelInv
  <2>4. CalibPanelInv'
    BY <1>1, <2>1, <2>3 DEF CalibInv, CalibPanelInv
  <2>5. CalibFollows'
    <3>1. CASE UNCHANGED <<ca_shown, ca_behind>>
      BY <1>1, <2>1, <2>2, <3>1, CalibFollowsKept
    <3>2. CASE ca_shown' = r.job
               /\ ca_behind' = IF r.job = ca_jobs[ca_cal.job] THEN ca_behind ELSE ca_behind \union {"read"}
      BY <1>1, <1>9, <2>1, <3>2 DEF CalibInv, CalibFollows
    <3> QED BY <1>7, <3>1, <3>2 DEF Calib!StateFetched
  <2> QED BY <1>2, <1>5, <2>1, <2>2, <2>4, <2>5 DEF CalibInv
<1>8. CASE Calib!ActAnswered(r)
  <2>1. /\ ca_net' = ca_net \ {r} /\ UNCHANGED <<ca_sent, ca_cal, ca_mount, ca_shown, ca_ws, ca_behind>>
        /\ ca_error' \in BOOLEAN
    BY <1>8 DEF Calib!ActAnswered
  <2>2. CalibNetInv' /\ CalibTold
    BY <1>1, <1>9, <2>1, CalibNetFewer
  <2>3. CalibPanelInv'
    BY <1>1, <2>1 DEF CalibInv, CalibPanelInv
  <2>4. CalibFollows'
    BY <1>1, <2>1, <2>2, CalibFollowsKept
  <2> QED BY <1>2, <1>5, <2>1, <2>2, <2>3, <2>4 DEF CalibInv
<1> QED BY <1>3, <1>6, <1>7, <1>8

\* The socket subscribes, delivers and fails.
LEMMA CalibMessages ==
  ASSUME CalibInv, Calib!calibration_ws \/ Calib!ws_onmessage \/ Calib!ws_onerror
  PROVE  CalibInv'
<1>1. UNCHANGED <<ca_jobs, ca_net, ca_sent, ca_debug, ca_selected, ca_cal, ca_mount, ca_error>>
  BY DEF Calib!calibration_ws, Calib!ws_onmessage, Calib!ws_onerror, Calib!look
<1>2. CalibJobsInv' /\ CalibNetInv'
  BY <1>1, CalibJobsKept, CalibNetFewer DEF CalibInv
<1>3. /\ ca_ws \in [id : Nat, state : {"closed", "opening", "snapshot", "live"}, feed : Seq(CalibJob)]
      /\ \A i \in DOMAIN ca_ws.feed : CalibKnown(ca_jobs, ca_ws.feed[i])
      /\ ca_debug => ca_ws.id = ca_cal.job
      /\ ca_ws.state = "opening" => ca_ws.id \in DOMAIN ca_jobs
  BY DEF CalibInv, CalibSocketInv
<1>4. CASE Calib!calibration_ws
  <2>1. ca_ws'.id = ca_ws.id /\ ca_ws'.state \in {"snapshot", "live"}
    BY <1>3, <1>4 DEF Calib!calibration_ws
  <2>2. /\ ca_ws' \in [id : Nat, state : {"closed", "opening", "snapshot", "live"}, feed : Seq(CalibJob)]
        /\ \A i \in DOMAIN ca_ws'.feed : CalibKnown(ca_jobs, ca_ws'.feed[i])
    <3>1. CASE ca_ws.state = "opening"
               /\ ca_ws' = [ca_ws EXCEPT !.state = "snapshot", !.feed = <<ca_jobs[ca_ws.id]>>]
      <4>1. ca_jobs[ca_ws.id] \in CalibJob /\ CalibKnown(ca_jobs, ca_jobs[ca_ws.id])
        BY <1>3, <3>1 DEF CalibInv, CalibJobsInv, CalibKnown
      <4>2. ca_ws'.feed = <<ca_jobs[ca_ws.id]>>
        BY <1>3, <3>1
      <4>3. <<ca_jobs[ca_ws.id]>> \in Seq(CalibJob)
        BY <4>1
      <4>4. ca_ws' \in [id : Nat, state : {"closed", "opening", "snapshot", "live"}, feed : Seq(CalibJob)]
        BY <1>3, <3>1, <4>3
      <4>5. \A i \in DOMAIN ca_ws'.feed : CalibKnown(ca_jobs, ca_ws'.feed[i])
        BY <4>1, <4>2
      <4> QED BY <4>4, <4>5
    <3>2. CASE ca_ws' = [ca_ws EXCEPT !.state = "live"]
      BY <1>3, <3>2
    <3> QED BY <1>4, <3>1, <3>2 DEF Calib!calibration_ws
  <2>3. CalibSocketInv'
    BY <1>1, <1>3, <2>1, <2>2 DEF CalibSocketInv
  <2>4. CalibFollows'
    <3>1. UNCHANGED <<ca_shown, ca_behind>>
      BY <1>4 DEF Calib!calibration_ws
    <3>2. CASE ca_ws.state = "opening"
               /\ ca_ws' = [ca_ws EXCEPT !.state = "snapshot", !.feed = <<ca_jobs[ca_ws.id]>>]
      <4>1. ca_ws'.feed = <<ca_jobs[ca_ws.id]>>
        BY <1>3, <3>2
      <4>2. ca_ws'.feed # <<>> /\ ca_ws'.feed[Len(ca_ws'.feed)] = ca_jobs[ca_ws.id]
        BY <4>1
      <4> QED BY <1>1, <1>3, <4>2 DEF CalibFollows
    <3>3. CASE ca_ws.state = "snapshot" /\ ca_ws' = [ca_ws EXCEPT !.state = "live"]
      <4>1. ca_ws'.feed = ca_ws.feed
        BY <1>3, <3>3
      <4> QED BY <1>1, <3>1, <3>3, <4>1 DEF CalibInv, CalibFollows
    <3> QED BY <1>4, <3>2, <3>3 DEF Calib!calibration_ws
  <2> QED BY <1>1, <1>2, <2>3, <2>4, CalibIdle, CalibPanelKept DEF CalibInv
<1>5. CASE Calib!ws_onmessage
  <2>1. /\ ca_ws.feed # <<>> /\ ca_shown' = Head(ca_ws.feed) /\ ca_ws' = [ca_ws EXCEPT !.feed = Tail(@)]
        /\ ca_behind' = ca_behind \ {"read"}
    BY <1>5 DEF Calib!ws_onmessage
  <2>2. Tail(ca_ws.feed) \in Seq(CalibJob)
        /\ \A i \in DOMAIN Tail(ca_ws.feed) : CalibKnown(ca_jobs, Tail(ca_ws.feed)[i])
    BY <1>3, <2>1
  <2>3. CalibSocketInv'
    BY <1>1, <1>3, <2>1, <2>2 DEF CalibSocketInv
  <2>4. CalibFollows'
    <3>1. ca_ws'.feed = Tail(ca_ws.feed) /\ ca_ws'.state = ca_ws.state
      BY <1>3, <2>1
    <3>2. /\ ca_ws'.feed # <<>> => ca_ws'.feed[Len(ca_ws'.feed)] = ca_ws.feed[Len(ca_ws.feed)]
          /\ ca_ws'.feed = <<>> => ca_shown' = ca_ws.feed[Len(ca_ws.feed)]
      <4>1. PICK f \in Seq(CalibJob) : f = ca_ws.feed
        BY <1>3
      <4>2. f # <<>> /\ Head(f) = f[1] /\ Len(Tail(f)) = Len(f) - 1
        BY <2>1, <4>1
      <4>5. Tail(f) \in Seq(CalibJob) /\ Len(f) \in Nat
        BY <4>1, <4>2
      <4>6. Tail(f) # <<>> => Len(f) - 1 # 0
        BY <4>2, <4>5
      <4>7. \A i \in 1..(Len(f) - 1) : Tail(f)[i] = f[i + 1]
        BY <4>1, <4>2
      <4>3. Tail(f) # <<>> => Len(f) > 1 /\ Tail(f)[Len(f) - 1] = f[Len(f)]
        BY <4>2, <4>5, <4>6, <4>7
      <4>8. Tail(f) = <<>> => Len(Tail(f)) = 0
        <5>1. Len(<<>>) = 0
          OBVIOUS
        <5> QED BY <5>1
      <4>4. Tail(f) = <<>> => Len(f) = 1
        BY <4>2, <4>5, <4>8
      <4> QED BY <2>1, <3>1, <4>1, <4>2, <4>3, <4>4
    <3> QED BY <1>1, <2>1, <3>1, <3>2 DEF CalibInv, CalibFollows
  <2> QED BY <1>1, <1>2, <2>3, <2>4, CalibIdle, CalibPanelKept DEF CalibInv
<1>6. CASE Calib!ws_onerror
  <2>1. ca_ws' = [ca_ws EXCEPT !.state = "closed", !.feed = <<>>]
    BY <1>6 DEF Calib!ws_onerror
  <2>2. CalibSocketInv' /\ ca_ws'.state = "closed"
    <3>1. <<>> \in Seq(CalibJob)
      OBVIOUS
    <3>2. ca_ws' \in [id : Nat, state : {"closed", "opening", "snapshot", "live"}, feed : Seq(CalibJob)]
      BY <1>3, <2>1, <3>1
    <3>3. ca_ws'.feed = <<>> /\ ca_ws'.id = ca_ws.id /\ ca_ws'.state = "closed"
      BY <1>3, <2>1
    <3> QED BY <1>1, <1>3, <3>2, <3>3 DEF CalibSocketInv
  <2> QED BY <1>1, <1>2, <2>2, CalibIdle, CalibPanelKept, CalibNothing DEF CalibInv
<1> QED BY <1>4, <1>5, <1>6

\* It holds of the first state.
LEMMA CalibFirst == Calib!Init => CalibInv
<1> SUFFICES ASSUME Calib!Init PROVE CalibInv
  OBVIOUS
<1>1. CalibJobsInv
  <2>1. CASE ca_jobs = <<>>
    BY <2>1, CalibBounds DEF CalibJobsInv
  <2>2. CASE ca_jobs = <<Calib!Reloaded>>
    <3>1. /\ Calib!Reloaded \in CalibJob /\ CalibStep(Calib!Reloaded)
          /\ Calib!Reloaded.id = 1 /\ Calib!Reloaded.joint = 1
      BY DEF Calib!Reloaded, CalibJob, CalibStep
    <3> QED BY <2>2, <3>1, CalibBounds DEF CalibJobsInv
  <2> QED BY <2>1, <2>2 DEF Calib!Init
<1>2. CalibNetInv /\ CalibSocketInv /\ CalibFollows
  BY DEF Calib!Init, CalibNetInv, CalibSocketInv, CalibFollows, Calib!NoSocket
<1>3. CalibPanelInv
  <2>1. ca_cal \in [busy : BOOLEAN, job : {0} \union DOMAIN ca_jobs]
    BY DEF Calib!Init
  <2>3. ca_debug \in BOOLEAN /\ ca_error \in BOOLEAN
    BY DEF Calib!Init
  <2>4. ca_sent \in 0..ca_MaxRequests /\ ca_selected \in 0..ca_Joints /\ ca_mount \in 0..ca_MaxMounts
    BY CalibBounds DEF Calib!Init
  <2> QED BY <2>1, <2>3, <2>4 DEF CalibPanelInv
<1> QED BY <1>1, <1>2, <1>3 DEF CalibInv

\* Every step keeps it.
LEMMA CalibNext ==
  ASSUME CalibInv, [Calib!Next]_(Calib!vars)
  PROVE  CalibInv' /\ CalibGrow
<1>1. CASE Calib!Serve
  BY <1>1, CalibServe
<1>2. CASE Calib!Select \/ Calib!startCalibration \/ Calib!advance \/ Calib!abort \/ Calib!onClose
  <2>1. UNCHANGED ca_jobs
    BY <1>2 DEF Calib!Select, Calib!startCalibration, Calib!advance, Calib!abort, Calib!Act,
                Calib!onClose
  <2> QED BY <1>2, <2>1, CalibIdle, CalibPage
<1>3. CASE Calib!DebugPanel
  BY <1>3, CalibIdle, CalibDebugPanel DEF Calib!DebugPanel
<1>4. CASE Calib!Answer
  BY <1>4, CalibIdle, CalibAnswer DEF Calib!Answer
<1>5. CASE Calib!calibration_ws \/ Calib!ws_onmessage \/ Calib!ws_onerror
  BY <1>5, CalibIdle, CalibMessages DEF Calib!calibration_ws, Calib!ws_onmessage, Calib!ws_onerror
<1>6. CASE UNCHANGED Calib!vars
  <2>1. UNCHANGED <<ca_jobs, ca_net, ca_sent, ca_debug, ca_selected, ca_cal, ca_mount, ca_shown,
                    ca_error, ca_ws, ca_behind>>
    BY <1>6 DEF Calib!vars
  <2>2. CalibNetInv' /\ CalibTold
    BY <2>1, CalibNetFewer
  <2> QED BY <2>1, <2>2, CalibIdle, CalibJobsKept, CalibPanelKept, CalibSocketKept, CalibFollowsKept
             DEF CalibInv
<1> QED BY <1>1, <1>2, <1>3, <1>4, <1>5, <1>6 DEF Calib!Next

\* What the invariant says of the properties.
LEMMA CalibShows ==
  ASSUME CalibInv
  PROVE  Calib!TypeOK /\ Calib!JobsSound /\ Calib!PanelFollowsJob
<1>1. /\ \A i \in DOMAIN ca_jobs : ca_jobs[i].joint \in 1..ca_Joints /\ ca_jobs[i].id = i
      /\ DOMAIN ca_jobs \subseteq 0..ca_MaxJobs
  BY CalibBounds DEF CalibInv, CalibJobsInv
<1>2. ca_cal.busy \in BOOLEAN /\ ca_cal.job \in 0..ca_MaxJobs
  BY <1>1, CalibBounds DEF CalibInv, CalibPanelInv
<1>3. Calib!TypeOK
  BY <1>1, <1>2 DEF CalibInv, CalibPanelInv, Calib!TypeOK
<1>4. ASSUME NEW i \in DOMAIN ca_jobs
      PROVE  ca_jobs[i].status = "completed" <=> ca_jobs[i].step = 3
  <2>1. ca_jobs[i] \in CalibJob /\ CalibStep(ca_jobs[i])
    BY DEF CalibInv, CalibJobsInv
  <2> QED BY <2>1 DEF CalibJob, CalibStep
<1>5. ASSUME NEW i \in DOMAIN ca_jobs, NEW j \in DOMAIN ca_jobs,
             ca_jobs[i].joint = ca_jobs[j].joint,
             {ca_jobs[i].status, ca_jobs[j].status} \cap Calib!TERMINAL = {}
      PROVE  i = j
  BY <1>5 DEF CalibInv, CalibJobsInv
<1>6. Calib!JobsSound
  BY <1>4, <1>5 DEF Calib!JobsSound
<1>7. Calib!PanelFollowsJob
  BY DEF CalibInv, CalibSocketInv, CalibFollows, Calib!PanelFollowsJob
<1> QED BY <1>3, <1>6, <1>7
-----------------------------------------------------------------------------
(* The kinematics tab (EditKinematics)                                     *)

\* What is assumed of its constants.
LEMMA KineBounds ==
  ek_MaxPuts \in Nat /\ ek_MaxApplies \in Nat /\ ek_MaxMounts \in Nat /\ ek_MaxOpens \in Nat \ {0}
  BY MachinePagesAssumption

\* The requests: a copy that was read, or answered, is a machine's.
KineBody == [dh : 0..ek_MaxApplies, force : BOOLEAN, numeric : BOOLEAN, ee : Nat]
KineRequest ==
  [op : {"get", "overrides", "ee", "apply"}, n : Nat, body : KineBody, mount : 0..ek_MaxMounts,
   opening : 0..ek_MaxOpens, stage : {"sent", "read", "answered"}, ok : BOOLEAN,
   copy : IkTab!Description \union {IkTab!NoMachine}]
KineTyped(r) ==
  /\ r \in KineRequest
  /\ r.op = "ee" => r.body.ee \in IkTab!EE
  /\ r.stage = "read" \/ (r.op # "apply" /\ r.stage = "answered" /\ r.ok) => r.copy \in IkTab!Description

\* Those whose answer the editor that is open waits for: at most one, while it
\* loads; what it brings are the settings the Brain has.
KineAwaited(r) == r.op # "apply" /\ r.opening = ek_opening
KineRequests ==
  /\ \A r \in ek_reqs : KineTyped(r) /\ r.opening <= ek_opening
  /\ \A q, r \in ek_reqs : KineAwaited(q) /\ KineAwaited(r) => q = r
  /\ \A r \in ek_reqs : ek_open /\ KineAwaited(r) => ek_loading
KineBrings ==
  ~ek_behind => \A r \in ek_reqs : KineAwaited(r) /\ r.stage = "answered" /\ r.ok
                                     => IkTab!Settings(r.copy) = IkTab!Settings(ek_stored)
KineCounts == ek_puts \in 0..ek_MaxPuts /\ ek_applies \in 0..ek_MaxApplies
KineMounted == (ek_tab # 0 => ek_open) /\ (ek_eeEditing => ek_tab # 0)
KineInv ==
  IkTab!TypeOK /\ IkTab!ShownIsStored /\ KineRequests /\ KineBrings /\ KineCounts /\ KineMounted

\* null, and the machine's parts the tab can read of it.
LEMMA KineNull ==
  /\ IkTab!NoMachine \in KineBody /\ IkTab!NoMachine.force = FALSE /\ IkTab!NoMachine.numeric = FALSE
  /\ IkTab!NoMachine \notin IkTab!Description
  /\ IkTab!Description \subseteq KineBody
  /\ 0 \in IkTab!EE /\ 0 \in 0..ek_MaxMounts /\ 0 \in 0..ek_MaxApplies
<1>1. 0 \in 0..ek_MaxMounts /\ 0 \in 0..ek_MaxApplies /\ 0 \in IkTab!EE
  BY KineBounds DEF IkTab!EE
<1>2. IkTab!NoMachine \in KineBody /\ IkTab!NoMachine.force = FALSE /\ IkTab!NoMachine.numeric = FALSE
      /\ IkTab!NoMachine.ee = 3
  BY <1>1 DEF IkTab!NoMachine, KineBody
<1>3. IkTab!NoMachine \notin IkTab!Description
  BY <1>2 DEF IkTab!Description, IkTab!EE
<1>4. IkTab!Description \subseteq KineBody
  BY DEF IkTab!Description, KineBody, IkTab!EE
<1> QED BY <1>1, <1>2, <1>3, <1>4

\* It holds of the first state.
LEMMA KineFirst ==
  ASSUME IkTab!Init
  PROVE  KineInv
<1>1. ek_stored \in IkTab!Description
  <2>1. ek_stored \in [dh : {0}, force : {FALSE}, numeric : BOOLEAN, ee : {1}]
    BY DEF IkTab!Init
  <2>2. 1 \in IkTab!EE
    BY DEF IkTab!EE
  <2> QED BY <2>1, <2>2, KineNull DEF IkTab!Description
<1>2. IkTab!TypeOK
  <2>1. 1 \in 0..ek_MaxOpens
    BY KineBounds
  <2> QED BY <1>1, <2>1, KineNull DEF IkTab!Init, IkTab!TypeOK
<1>3. PICK q : q = IkTab!Request("get", 1, IkTab!NoMachine)
  OBVIOUS
<1>4. ek_tab = 0 /\ ek_opening = 1 /\ ek_loading = TRUE /\ ek_puts = 0 /\ ek_applies = 0 /\ ek_eeEditing = FALSE
  BY DEF IkTab!Init
<1>5. q \in KineRequest /\ q.op = "get" /\ q.stage = "sent" /\ q.opening = 1
  BY <1>3, <1>4, KineBounds, KineNull DEF IkTab!Request, KineRequest
<1>6. ek_reqs = {q}
  BY <1>3 DEF IkTab!Init
<1>7. KineRequests /\ KineBrings
  BY <1>4, <1>5, <1>6 DEF KineRequests, KineTyped, KineBrings
<1>8. IkTab!ShownIsStored /\ KineCounts /\ KineMounted
  BY <1>4, KineBounds DEF IkTab!ShownIsStored, KineCounts, KineMounted
<1> QED BY <1>2, <1>7, <1>8 DEF KineInv

\* The steps of the tab that send nothing.
LEMMA KineLocal ==
  ASSUME KineInv, UNCHANGED <<ek_stored, ek_open, ek_opening, ek_machine, ek_loading, ek_error, ek_reqs,
                              ek_puts, ek_applies, ek_behind>>,
         ek_tab' \in 0..ek_MaxMounts, ek_mounts' \in 0..ek_MaxMounts, ek_draftEE' \in IkTab!EE,
         ek_eeEditing' \in BOOLEAN, ek_try' \in {"idle", "loading", "result", "error"},
         KineMounted'
  PROVE  KineInv'
<1>1. IkTab!TypeOK'
  BY DEF KineInv, IkTab!TypeOK, IkTab!Description, IkTab!EE
<1>2. IkTab!ShownIsStored'
  BY DEF KineInv, IkTab!ShownIsStored
<1>3. KineRequests' /\ KineBrings' /\ KineCounts'
  BY DEF KineInv, KineRequests, KineBrings, KineCounts, KineAwaited, KineTyped, KineRequest, KineBody,
     IkTab!Description, IkTab!EE, IkTab!NoMachine
<1> QED BY <1>1, <1>2, <1>3 DEF KineInv

\* A request q is added to those under way: the editor loads, or q is an edit's.
LEMMA KineAsks ==
  ASSUME KineInv, NEW q, KineTyped(q), q.opening = ek_opening, q.stage = "sent",
         ek_reqs' = ek_reqs \union {q},
         q.op = "apply" \/ (ek_open /\ ~ek_loading /\ ek_loading'),
         UNCHANGED <<ek_stored, ek_open, ek_opening, ek_behind>>, ek_loading => ek_loading'
  PROVE  KineRequests' /\ KineBrings'
<1>1. /\ \A r \in ek_reqs : KineTyped(r) /\ r.opening <= ek_opening
      /\ \A p, r \in ek_reqs : KineAwaited(p) /\ KineAwaited(r) => p = r
      /\ \A r \in ek_reqs : ek_open /\ KineAwaited(r) => ek_loading
  BY DEF KineInv, KineRequests
<1>2. \A r : KineTyped(r)' <=> KineTyped(r)
  BY DEF KineTyped, KineRequest, KineBody, IkTab!Description, IkTab!EE, IkTab!NoMachine
<1>3. \A r : KineAwaited(r)' <=> KineAwaited(r)
  BY DEF KineAwaited
<1>4. ek_opening \in Nat
  BY DEF KineInv, IkTab!TypeOK
<1>5. \A r \in ek_reqs' : KineTyped(r)' /\ r.opening <= ek_opening'
  BY <1>1, <1>2, <1>4
<1>6. q.op = "apply" => ~KineAwaited(q)
  BY DEF KineAwaited
<1>7. ek_open /\ ~ek_loading => \A r \in ek_reqs : ~KineAwaited(r)
  BY <1>1
<1>8. \A p, r \in ek_reqs' : KineAwaited(p) /\ KineAwaited(r) => p = r
  BY <1>1, <1>6, <1>7
<1>9. \A r \in ek_reqs' : ek_open /\ KineAwaited(r) => ek_loading'
  BY <1>1, <1>6
<1>10. KineRequests'
  BY <1>3, <1>5, <1>8, <1>9 DEF KineRequests
<1>11. KineBrings'
  BY <1>3 DEF KineInv, KineBrings
<1> QED BY <1>10, <1>11

\* A PUT.
LEMMA KinePut ==
  ASSUME KineInv, NEW op \in {"overrides", "ee"}, NEW body \in IkTab!Description, IkTab!put(op, body),
         ek_tab # 0, ~ek_loading, UNCHANGED <<ek_stored, IkTab!editor, IkTab!local, ek_behind>>
  PROVE  KineInv'
<1>1. /\ UNCHANGED <<ek_stored, ek_open, ek_opening, ek_machine, ek_tab, ek_mounts, ek_draftEE,
                     ek_eeEditing, ek_try, ek_applies, ek_behind>>
      /\ ek_loading' = TRUE /\ ek_error' = FALSE /\ ek_puts' = ek_puts + 1 /\ ek_puts < ek_MaxPuts
  BY DEF IkTab!put, IkTab!local, IkTab!editor
<1>2. PICK q : q = IkTab!Request(op, ek_puts + 1, body)
  OBVIOUS
<1>3. ek_puts + 1 \in Nat /\ ek_tab \in 0..ek_MaxMounts /\ ek_opening \in 0..ek_MaxOpens
  BY DEF KineInv, IkTab!TypeOK, KineCounts
<1>4. q \in KineRequest /\ q.op = op /\ q.body = body /\ q.stage = "sent" /\ q.opening = ek_opening
  BY <1>2, <1>3, KineNull DEF IkTab!Request, KineRequest
<1>5. KineTyped(q)
  <2>1. body.ee \in IkTab!EE
    BY DEF IkTab!Description
  <2> QED BY <1>4, <2>1 DEF KineTyped
<1>6. ek_reqs' = ek_reqs \union {q}
  BY <1>2 DEF IkTab!put
<1>7. ek_open
  BY DEF KineInv, KineMounted
<1>8. KineRequests' /\ KineBrings'
  BY <1>1, <1>4, <1>5, <1>6, <1>7, KineAsks
<1>9. IkTab!TypeOK' /\ IkTab!ShownIsStored' /\ KineMounted'
  BY <1>1 DEF KineInv, IkTab!TypeOK, IkTab!ShownIsStored, IkTab!Description, IkTab!EE, KineMounted
<1>10. KineCounts'
  BY <1>1, KineBounds DEF KineInv, KineCounts
<1> QED BY <1>8, <1>9, <1>10 DEF KineInv

\* Nothing of the editor is left once it is closed: what is sent is still under way.
LEMMA KineUnmounted ==
  ASSUME KineInv, IkTab!Unmounted, ek_reqs' \subseteq ek_reqs,
         UNCHANGED <<ek_stored, ek_opening, ek_mounts, ek_puts, ek_applies, ek_behind>>
  PROVE  KineInv'
<1>1. /\ ek_open' = FALSE /\ ek_machine' = IkTab!NoMachine /\ ek_loading' = FALSE /\ ek_error' = FALSE
      /\ ek_tab' = 0 /\ ek_draftEE' = 0 /\ ek_eeEditing' = FALSE /\ ek_try' = "idle"
  BY DEF IkTab!Unmounted
<1>2. IkTab!TypeOK'
  BY <1>1, KineNull DEF KineInv, IkTab!TypeOK
<1>3. IkTab!ShownIsStored' /\ KineMounted' /\ KineCounts'
  BY <1>1 DEF KineInv, IkTab!ShownIsStored, KineMounted, KineCounts
<1>4. KineRequests'
  BY <1>1 DEF KineInv, KineRequests, KineAwaited, KineTyped, KineRequest, KineBody, IkTab!Description, IkTab!EE,
     IkTab!NoMachine
<1>5. KineBrings'
  BY DEF KineInv, KineBrings, KineAwaited
<1> QED BY <1>2, <1>3, <1>4, <1>5 DEF KineInv

\* The editor opens: what earlier openings sent is not awaited.
LEMMA KineOpens ==
  ASSUME KineInv, IkTab!OpenEditor
  PROVE  KineInv'
<1>1. /\ ~ek_open /\ ek_opening < ek_MaxOpens /\ ek_open' = TRUE /\ ek_opening' = ek_opening + 1
      /\ ek_machine' = IkTab!NoMachine /\ ek_loading' = TRUE /\ ek_error' = FALSE
      /\ UNCHANGED <<ek_stored, ek_tab, ek_mounts, ek_draftEE, ek_eeEditing, ek_try, ek_puts, ek_applies, ek_behind>>
  BY DEF IkTab!OpenEditor, IkTab!local, IkTab!count
<1>2. PICK q : q = [IkTab!Request("get", 1, IkTab!NoMachine) EXCEPT !.opening = ek_opening + 1]
  OBVIOUS
<1>3. ek_opening \in 0..ek_MaxOpens /\ ek_opening + 1 \in 0..ek_MaxOpens /\ ek_tab \in 0..ek_MaxMounts
  BY <1>1, KineBounds DEF KineInv, IkTab!TypeOK
<1>4. q \in KineRequest /\ q.op = "get" /\ q.stage = "sent" /\ q.opening = ek_opening + 1
  BY <1>2, <1>3, KineNull DEF IkTab!Request, KineRequest
<1>5. ek_reqs' = ek_reqs \union {q}
  BY <1>2 DEF IkTab!OpenEditor
<1>6. \A r \in ek_reqs : KineTyped(r) /\ r.opening \in 0..ek_MaxOpens /\ r.opening <= ek_opening
  BY DEF KineInv, KineRequests, KineTyped, KineRequest
<1>7. \A r \in ek_reqs : ~KineAwaited(r)' /\ r.opening <= ek_opening'
  BY <1>1, <1>3, <1>6 DEF KineAwaited
<1>8. \A r : KineTyped(r)' <=> KineTyped(r)
  BY DEF KineTyped, KineRequest, KineBody, IkTab!Description, IkTab!EE, IkTab!NoMachine
<1>9. KineTyped(q) /\ q.opening <= ek_opening'
  BY <1>1, <1>3, <1>4 DEF KineTyped
<1>10. KineRequests'
  BY <1>1, <1>5, <1>6, <1>7, <1>8, <1>9 DEF KineRequests
<1>11. KineBrings'
  BY <1>4, <1>5, <1>7 DEF KineBrings
<1>12. IkTab!TypeOK' /\ IkTab!ShownIsStored' /\ KineCounts' /\ KineMounted'
  BY <1>1, <1>3 DEF KineInv, IkTab!TypeOK, IkTab!ShownIsStored, KineCounts, KineMounted, IkTab!Description, IkTab!EE
<1> QED BY <1>10, <1>11, <1>12 DEF KineInv

\* "Apply" sends the geometry, whatever the tab does.
LEMMA KineApplies ==
  ASSUME KineInv, IkTab!handleApplyEdit
  PROVE  KineInv'
<1>1. /\ ek_applies < ek_MaxApplies /\ ek_applies' = ek_applies + 1
      /\ UNCHANGED <<ek_stored, ek_open, ek_opening, ek_machine, ek_loading, ek_error, ek_tab, ek_mounts,
                     ek_draftEE, ek_eeEditing, ek_try, ek_puts, ek_behind>>
  BY DEF IkTab!handleApplyEdit, IkTab!local, IkTab!editor, IkTab!hook
<1>2. PICK n : n = ek_applies + 1
  OBVIOUS
<1>3. n \in 0..ek_MaxApplies /\ n \in Nat /\ ek_tab \in 0..ek_MaxMounts /\ ek_opening \in 0..ek_MaxOpens
  BY <1>1, <1>2, KineBounds DEF KineInv, IkTab!TypeOK, KineCounts
<1>4. PICK body : body = [IkTab!NoMachine EXCEPT !.dh = n]
  OBVIOUS
<1>5. body \in KineBody
  BY <1>3, <1>4, KineNull DEF KineBody
<1>6. PICK q : q = IkTab!Request("apply", n, body)
  OBVIOUS
<1>7. q \in KineRequest /\ q.op = "apply" /\ q.stage = "sent" /\ q.opening = ek_opening
  BY <1>3, <1>5, <1>6 DEF IkTab!Request, KineRequest
<1>8. KineTyped(q)
  BY <1>7 DEF KineTyped
<1>9. ek_reqs' = ek_reqs \union {q}
  BY <1>2, <1>4, <1>6 DEF IkTab!handleApplyEdit
<1>10. KineRequests' /\ KineBrings'
  BY <1>1, <1>7, <1>8, <1>9, KineAsks
<1>11. IkTab!TypeOK' /\ IkTab!ShownIsStored' /\ KineMounted'
  BY <1>1 DEF KineInv, IkTab!TypeOK, IkTab!ShownIsStored, IkTab!Description, IkTab!EE, KineMounted
<1>12. KineCounts'
  BY <1>1, <1>2, <1>3 DEF KineInv, KineCounts
<1> QED BY <1>10, <1>11, <1>12 DEF KineInv

\* What the tab's user does.
LEMMA KineUser ==
  ASSUME KineInv,
         \/ IkTab!OpenTab \/ IkTab!CloseTab \/ IkTab!SolverSection \/ IkTab!EditButton \/ IkTab!EEEditor
         \/ IkTab!CancelButton \/ IkTab!handleEEApply \/ IkTab!TryPosePanel \/ IkTab!handleTryPose
  PROVE  KineInv'
<1> USE DEF IkTab!editor, IkTab!hook, IkTab!count
<1>1. /\ ek_machine \in IkTab!Description \union {IkTab!NoMachine} /\ ek_draftEE \in IkTab!EE
      /\ ek_tab \in 0..ek_MaxMounts /\ ek_mounts \in 0..ek_MaxMounts /\ ek_eeEditing \in BOOLEAN
      /\ ek_try \in {"idle", "loading", "result", "error"} /\ KineMounted
  BY DEF KineInv, IkTab!TypeOK
<1>2. ek_machine # IkTab!NoMachine => ek_machine.ee \in IkTab!EE
  BY <1>1 DEF IkTab!Description
<1>3. ek_machine.force \in BOOLEAN /\ ek_machine.numeric \in BOOLEAN
  <2>1. CASE ek_machine \in IkTab!Description
    BY <2>1 DEF IkTab!Description
  <2>2. CASE ek_machine = IkTab!NoMachine
    <3>1. ek_machine.force = FALSE /\ ek_machine.numeric = FALSE
      BY <2>2, KineNull, Zenon
    <3> QED BY <3>1
  <2> QED BY <1>1, <2>1, <2>2
<1>5. CASE IkTab!OpenTab
  <2>1. ek_mounts + 1 \in 0..ek_MaxMounts /\ ek_mounts + 1 # 0
    BY <1>1, <1>5, KineBounds DEF IkTab!OpenTab
  <2>2. KineMounted'
    BY <1>5, <2>1 DEF IkTab!OpenTab, KineMounted
  <2> QED BY <1>1, <1>2, <1>5, <2>1, <2>2, KineNull, KineLocal DEF IkTab!OpenTab
<1>6. CASE IkTab!CloseTab
  <2>1. KineMounted'
    BY <1>6 DEF IkTab!CloseTab, KineMounted
  <2> QED BY <1>1, <1>6, <2>1, KineNull, KineLocal DEF IkTab!CloseTab
<1>7. CASE IkTab!SolverSection
  <2>1. PICK body : body = [dh |-> 0, force |-> ~ek_machine.force, numeric |-> ek_machine.numeric, ee |-> 0]
    OBVIOUS
  <2>2. body \in IkTab!Description
    BY <1>3, <2>1, KineNull DEF IkTab!Description
  <2>3. ek_tab # 0 /\ ~ek_loading /\ IkTab!put("overrides", body)
        /\ UNCHANGED <<ek_stored, IkTab!editor, IkTab!local, ek_behind>>
    BY <1>7, <2>1 DEF IkTab!SolverSection, IkTab!handleForceNumericToggle, IkTab!setForceNumeric
  <2> QED BY <2>2, <2>3, KinePut
<1>8. CASE IkTab!EditButton
  <2>1. KineMounted'
    BY <1>1, <1>8 DEF IkTab!EditButton, KineMounted
  <2> QED BY <1>1, <1>8, <2>1, KineLocal DEF IkTab!EditButton
<1>9. CASE IkTab!EEEditor
  <2>1. KineMounted'
    BY <1>1, <1>9 DEF IkTab!EEEditor, KineMounted
  <2> QED BY <1>1, <1>9, <2>1, KineLocal DEF IkTab!EEEditor
<1>10. CASE IkTab!CancelButton
  <2>1. KineMounted'
    BY <1>1, <1>10 DEF IkTab!CancelButton, KineMounted
  <2> QED BY <1>1, <1>2, <1>10, <2>1, KineLocal DEF IkTab!CancelButton
<1>11. CASE IkTab!handleEEApply
  <2>1. PICK body : body = [dh |-> 0, force |-> FALSE, numeric |-> FALSE, ee |-> ek_draftEE]
    OBVIOUS
  <2>2. body \in IkTab!Description
    BY <1>1, <2>1, KineNull DEF IkTab!Description
  <2>3. ek_tab # 0 /\ ~ek_loading /\ IkTab!put("ee", body)
        /\ UNCHANGED <<ek_stored, IkTab!editor, IkTab!local, ek_behind>>
    BY <1>1, <1>11, <2>1 DEF IkTab!handleEEApply, IkTab!setEndEffector, KineMounted
  <2> QED BY <2>2, <2>3, KinePut
<1>12. CASE IkTab!TryPosePanel \/ IkTab!handleTryPose
  <2>1. KineMounted'
    BY <1>1, <1>12 DEF IkTab!TryPosePanel, IkTab!handleTryPose, KineMounted
  <2>2. ek_try' \in {"idle", "loading", "result", "error"}
    BY <1>12 DEF IkTab!TryPosePanel, IkTab!handleTryPose
  <2> QED BY <1>1, <1>12, <2>1, <2>2, KineLocal DEF IkTab!TryPosePanel, IkTab!handleTryPose
<1> QED BY <1>5, <1>6, <1>7, <1>8, <1>9, <1>10, <1>11, <1>12

\* A request r moves on as q, which keeps who asked and what for.
LEMMA KineMoves ==
  ASSUME KineInv, NEW r \in ek_reqs, NEW q, KineTyped(q), q.op = r.op, q.opening = r.opening,
         ek_reqs' = (ek_reqs \ {r}) \union {q}, UNCHANGED <<ek_open, ek_opening, ek_loading>>
  PROVE  KineRequests'
<1>1. /\ \A s \in ek_reqs : KineTyped(s) /\ s.opening <= ek_opening
      /\ \A p, s \in ek_reqs : KineAwaited(p) /\ KineAwaited(s) => p = s
      /\ \A s \in ek_reqs : ek_open /\ KineAwaited(s) => ek_loading
  BY DEF KineInv, KineRequests
<1>2. \A s : KineTyped(s)' <=> KineTyped(s)
  BY DEF KineTyped, KineRequest, KineBody, IkTab!Description, IkTab!EE, IkTab!NoMachine
<1>3. (\A s : KineAwaited(s)' <=> KineAwaited(s)) /\ (KineAwaited(q) <=> KineAwaited(r))
  BY DEF KineAwaited
<1>4. \A s \in ek_reqs' : KineTyped(s)' /\ s.opening <= ek_opening'
  BY <1>1, <1>2
<1>5. \A p, s \in ek_reqs' : KineAwaited(p) /\ KineAwaited(s) => p = s
  BY <1>1, <1>3
<1>6. \A s \in ek_reqs' : ek_open /\ KineAwaited(s) => ek_loading
  BY <1>1, <1>3
<1> QED BY <1>3, <1>4, <1>5, <1>6 DEF KineRequests

\* A machine is read, or a request refused before that.
LEMMA KineReads ==
  ASSUME KineInv, NEW r \in ek_reqs, IkTab!get_machine(r), UNCHANGED <<IkTab!editor, IkTab!hook, IkTab!local, IkTab!count>>
  PROVE  KineInv'
<1>1. UNCHANGED <<ek_stored, ek_open, ek_opening, ek_machine, ek_loading, ek_error, ek_tab, ek_mounts,
                  ek_draftEE, ek_eeEditing, ek_try, ek_puts, ek_applies>>
  BY DEF IkTab!get_machine, IkTab!editor, IkTab!hook, IkTab!local, IkTab!count
<1>2. KineTyped(r) /\ r \in KineRequest /\ ek_stored \in IkTab!Description
  BY DEF KineInv, KineRequests, KineTyped, IkTab!TypeOK
<1>3. PICK stage \in {"read", "answered"}, ok \in BOOLEAN, copy \in {ek_stored, IkTab!NoMachine} :
        /\ ek_reqs' = (ek_reqs \ {r}) \union {[r EXCEPT !.stage = stage, !.ok = ok, !.copy = copy]}
        /\ stage = "answered" /\ ok => r.op = "get"
        /\ stage = "read" \/ ok => copy = ek_stored
        /\ ek_behind' \in BOOLEAN
        /\ (ek_behind /\ ~ek_behind') => ok /\ r.op = "get" /\ ~IkTab!Earlier(r)
  <2>1. r.stage = "sent" /\ r.ok \in BOOLEAN /\ ek_behind \in BOOLEAN
    BY <1>2 DEF IkTab!get_machine, KineRequest, KineInv, IkTab!TypeOK
  <2>2. CASE IkTab!Replied(r, FALSE, IkTab!NoMachine) /\ UNCHANGED ek_behind
    <3>1. ek_reqs' = (ek_reqs \ {r}) \union {[r EXCEPT !.stage = "answered", !.ok = FALSE, !.copy = IkTab!NoMachine]}
      BY <2>2 DEF IkTab!Replied
    <3> QED BY <2>1, <2>2, <3>1
  <2>3. CASE r.op = "get" /\ IkTab!Replied(r, TRUE, ek_stored) /\ ek_behind' = (ek_behind /\ IkTab!Earlier(r))
    <3>1. ek_reqs' = (ek_reqs \ {r}) \union {[r EXCEPT !.stage = "answered", !.ok = TRUE, !.copy = ek_stored]}
      BY <2>3 DEF IkTab!Replied
    <3>2. ek_behind' \in BOOLEAN
      BY <2>3, Zenon
    <3> QED BY <2>1, <2>3, <3>1, <3>2
  <2>4. CASE /\ r.op \in {"overrides", "ee", "apply"}
             /\ ek_reqs' = (ek_reqs \ {r}) \union {[r EXCEPT !.stage = "read", !.copy = ek_stored]}
             /\ UNCHANGED ek_behind
    <3>1. PICK ok : ok = r.ok
      OBVIOUS
    <3>2. [r EXCEPT !.stage = "read", !.copy = ek_stored]
            = [r EXCEPT !.stage = "read", !.ok = ok, !.copy = ek_stored]
      BY <1>2, <3>1 DEF KineRequest
    <3> QED BY <2>1, <2>4, <3>1, <3>2
  <2> QED BY <2>2, <2>3, <2>4 DEF IkTab!get_machine
<1>4. PICK q : q = [r EXCEPT !.stage = stage, !.ok = ok, !.copy = copy]
  OBVIOUS
<1>5. q \in KineRequest /\ q.op = r.op /\ q.opening = r.opening /\ q.stage = stage /\ q.ok = ok
      /\ q.copy = copy /\ q.body = r.body
  BY <1>2, <1>3, <1>4 DEF KineRequest
<1>6. KineTyped(q)
  BY <1>2, <1>3, <1>5 DEF KineTyped
<1>7. ek_reqs' = (ek_reqs \ {r}) \union {q}
  BY <1>3, <1>4
<1>8. KineRequests'
  BY <1>1, <1>5, <1>6, <1>7, KineMoves
<1>9. \A s : KineAwaited(s)' <=> KineAwaited(s)
  BY <1>1 DEF KineAwaited
<1>10. \A p, s \in ek_reqs : KineAwaited(p) /\ KineAwaited(s) => p = s
  BY DEF KineInv, KineRequests
<1>11. ek_behind /\ ~ek_behind' => KineAwaited(r)
  BY <1>3 DEF KineAwaited, IkTab!Earlier
<1>12. KineBrings'
  <2>1. ASSUME ~ek_behind', NEW s \in ek_reqs', KineAwaited(s), s.stage = "answered", s.ok
        PROVE  IkTab!Settings(s.copy) = IkTab!Settings(ek_stored)
    <3>1. CASE s = q
      BY <1>3, <1>5, <2>1, <3>1
    <3>2. CASE s # q
      <4>1. s \in ek_reqs /\ s # r
        BY <1>7, <3>2
      <4>2. ~ek_behind
        BY <1>10, <1>11, <2>1, <4>1
      <4> QED BY <2>1, <4>1, <4>2 DEF KineInv, KineBrings
    <3> QED BY <3>1, <3>2
  <2> QED BY <1>1, <1>9, <2>1 DEF KineBrings
<1>13. IkTab!ShownIsStored'
  <2>1. ek_open /\ KineAwaited(r) => ek_loading
    BY DEF KineInv, KineRequests
  <2> QED BY <1>1, <1>11, <2>1 DEF KineInv, IkTab!ShownIsStored
<1>14. IkTab!TypeOK' /\ KineCounts' /\ KineMounted'
  BY <1>1, <1>3 DEF KineInv, IkTab!TypeOK, KineCounts, KineMounted, IkTab!Description, IkTab!EE
<1> QED BY <1>8, <1>12, <1>13, <1>14 DEF KineInv

\* What is written is a machine; an edit of the geometry leaves the settings.
LEMMA KineWrites ==
  ASSUME NEW r, KineTyped(r), NEW m \in IkTab!Description
  PROVE  /\ IkTab!Written(r, m) \in IkTab!Description
         /\ r.op = "apply" => IkTab!Settings(IkTab!Written(r, m)) = IkTab!Settings(m)
<1>1. /\ r.op \in {"get", "overrides", "ee", "apply"} /\ r.body.force \in BOOLEAN /\ r.body.numeric \in BOOLEAN
      /\ r.body.dh \in 0..ek_MaxApplies /\ (r.op = "ee" => r.body.ee \in IkTab!EE)
  BY DEF KineTyped, KineRequest, KineBody
<1>2. CASE r.op = "overrides"
  <2>1. IkTab!Written(r, m) = [m EXCEPT !.force = r.body.force, !.numeric = r.body.numeric]
    BY <1>2 DEF IkTab!Written
  <2> QED BY <1>1, <1>2, <2>1 DEF IkTab!Description
<1>3. CASE r.op = "ee"
  <2>1. IkTab!Written(r, m) = [m EXCEPT !.ee = r.body.ee]
    BY <1>3 DEF IkTab!Written
  <2> QED BY <1>1, <1>3, <2>1 DEF IkTab!Description
<1>4. CASE r.op \in {"get", "apply"}
  <2>1. IkTab!Written(r, m) = [m EXCEPT !.dh = r.body.dh]
    BY <1>4 DEF IkTab!Written
  <2> QED BY <1>1, <2>1 DEF IkTab!Description, IkTab!Settings
<1> QED BY <1>1, <1>2, <1>3, <1>4

\* What was read is written, with the request's part of it; or it fails.
LEMMA KinePersists ==
  ASSUME KineInv, NEW r \in ek_reqs, IkTab!_persist(r), UNCHANGED <<IkTab!editor, IkTab!hook, IkTab!local, IkTab!count>>
  PROVE  KineInv'
<1>1. UNCHANGED <<ek_open, ek_opening, ek_machine, ek_loading, ek_error, ek_tab, ek_mounts,
                  ek_draftEE, ek_eeEditing, ek_try, ek_puts, ek_applies>>
  BY DEF IkTab!editor, IkTab!hook, IkTab!local, IkTab!count
<1>2. KineTyped(r) /\ r \in KineRequest /\ ek_stored \in IkTab!Description /\ r.copy \in IkTab!Description
      /\ ek_behind \in BOOLEAN
  BY DEF KineInv, KineRequests, KineTyped, IkTab!TypeOK, IkTab!_persist
<1>3. PICK ok \in BOOLEAN, copy \in {ek_stored', IkTab!NoMachine} :
        /\ ek_reqs' = (ek_reqs \ {r}) \union {[r EXCEPT !.stage = "answered", !.ok = ok, !.copy = copy]}
        /\ ok => copy = ek_stored'
        /\ \/ ~ok /\ UNCHANGED <<ek_stored, ek_behind>>
           \/ /\ ek_stored' = IkTab!Written(r, r.copy)
              /\ ek_behind' = (ek_behind \/ r.copy # ek_stored \/ (IkTab!Earlier(r) /\ r.op # "apply"))
  <2>1. CASE IkTab!Replied(r, FALSE, IkTab!NoMachine) /\ UNCHANGED <<ek_stored, ek_behind>>
    BY <2>1 DEF IkTab!Replied
  <2>2. CASE /\ ek_stored' = IkTab!Written(r, r.copy)
             /\ \E ok \in BOOLEAN : IkTab!Replied(r, ok, ek_stored')
             /\ ek_behind' = (ek_behind \/ r.copy # ek_stored \/ (IkTab!Earlier(r) /\ r.op # "apply"))
    BY <2>2, Zenon DEF IkTab!Replied
  <2> QED BY <2>1, <2>2 DEF IkTab!_persist
<1>4. PICK q : q = [r EXCEPT !.stage = "answered", !.ok = ok, !.copy = copy]
  OBVIOUS
<1>15. /\ ek_stored' \in IkTab!Description /\ ek_behind' \in BOOLEAN
       /\ ~ek_behind' => ~ek_behind
       /\ ~ek_behind' => KineAwaited(r) \/ IkTab!Settings(ek_stored') = IkTab!Settings(ek_stored)
  <2>1. CASE UNCHANGED <<ek_stored, ek_behind>>
    BY <1>2, <2>1
  <2>2. CASE /\ ek_stored' = IkTab!Written(r, r.copy)
             /\ ek_behind' = (ek_behind \/ r.copy # ek_stored \/ (IkTab!Earlier(r) /\ r.op # "apply"))
    <3>1. ek_stored' \in IkTab!Description
      BY <1>2, <2>2, KineWrites
    <3>2. ek_behind' \in BOOLEAN /\ (~ek_behind' => ~ek_behind)
      BY <2>2, Zenon
    <3>3. ASSUME ~ek_behind', ~KineAwaited(r)
          PROVE  IkTab!Settings(ek_stored') = IkTab!Settings(ek_stored)
      <4>1. r.copy = ek_stored /\ r.op = "apply"
        BY <2>2, <3>3, Zenon DEF KineAwaited, IkTab!Earlier
      <4> QED BY <1>2, <2>2, <4>1, KineWrites
    <3> QED BY <3>1, <3>2, <3>3, Zenon
  <2> QED BY <1>3, <2>1, <2>2
<1>5. q \in KineRequest /\ q.op = r.op /\ q.opening = r.opening /\ q.stage = "answered" /\ q.ok = ok
      /\ q.copy = copy /\ q.body = r.body
  BY <1>2, <1>3, <1>4, <1>15 DEF KineRequest
<1>6. KineTyped(q)
  BY <1>2, <1>3, <1>5, <1>15 DEF KineTyped
<1>7. ek_reqs' = (ek_reqs \ {r}) \union {q}
  BY <1>3, <1>4
<1>8. KineRequests'
  BY <1>1, <1>5, <1>6, <1>7, KineMoves
<1>9. \A s : KineAwaited(s)' <=> KineAwaited(s)
  BY <1>1 DEF KineAwaited
<1>10. \A p, s \in ek_reqs : KineAwaited(p) /\ KineAwaited(s) => p = s
  BY DEF KineInv, KineRequests
<1>12. KineBrings'
  <2>1. ASSUME ~ek_behind', NEW s \in ek_reqs', KineAwaited(s), s.stage = "answered", s.ok
        PROVE  IkTab!Settings(s.copy) = IkTab!Settings(ek_stored')
    <3>1. CASE s = q
      BY <1>3, <1>5, <2>1, <3>1
    <3>2. CASE s # q
      <4>1. s \in ek_reqs /\ s # r
        BY <1>7, <3>2
      <4>2. ~KineAwaited(r)
        BY <1>10, <2>1, <4>1
      <4>3. IkTab!Settings(s.copy) = IkTab!Settings(ek_stored)
        BY <1>15, <2>1, <4>1 DEF KineInv, KineBrings
      <4> QED BY <1>15, <2>1, <4>2, <4>3
    <3> QED BY <3>1, <3>2
  <2> QED BY <1>9, <2>1 DEF KineBrings
<1>13. IkTab!ShownIsStored'
  <2>1. ek_open /\ KineAwaited(r) => ek_loading
    BY DEF KineInv, KineRequests
  <2> QED BY <1>1, <1>15, <2>1 DEF KineInv, IkTab!ShownIsStored
<1>14. IkTab!TypeOK' /\ KineCounts' /\ KineMounted'
  BY <1>1, <1>15 DEF KineInv, IkTab!TypeOK, KineCounts, KineMounted, IkTab!Description, IkTab!EE
<1> QED BY <1>8, <1>12, <1>13, <1>14 DEF KineInv

\* An answer is shown by the opening that asked, or by none.
LEMMA KineAnswer ==
  ASSUME KineInv, IkTab!Answer
  PROVE  KineInv'
<1>1. PICK r \in ek_reqs :
       /\ r.stage = "answered" /\ ek_reqs' = ek_reqs \ {r}
       /\ \/ r.op = "apply" /\ IkTab!ApplyAnswered(r)
          \/ r.op # "apply" /\ ek_open /\ ~IkTab!Earlier(r) /\ IkTab!Shown(r)
          \/ UNCHANGED <<ek_open, IkTab!hook, ek_tab, ek_draftEE, ek_eeEditing, ek_try>>
  BY DEF IkTab!Answer
<1>2. UNCHANGED <<ek_stored, ek_opening, ek_mounts, ek_puts, ek_applies, ek_behind>>
  BY DEF IkTab!Answer, IkTab!count
<1>3. CASE UNCHANGED <<ek_open, IkTab!hook, ek_tab, ek_draftEE, ek_eeEditing, ek_try>>
  <2>1. UNCHANGED <<ek_open, ek_machine, ek_loading, ek_error, ek_tab, ek_draftEE, ek_eeEditing, ek_try>>
    BY <1>3 DEF IkTab!hook
  <2>2. KineRequests' /\ KineBrings'
    BY <1>1, <1>2, <2>1 DEF KineInv, KineRequests, KineBrings, KineAwaited, KineTyped, KineRequest, KineBody,
       IkTab!Description, IkTab!EE, IkTab!NoMachine
  <2>3. IkTab!TypeOK' /\ IkTab!ShownIsStored' /\ KineCounts' /\ KineMounted'
    BY <1>2, <2>1 DEF KineInv, IkTab!TypeOK, IkTab!ShownIsStored, KineCounts, KineMounted, IkTab!Description, IkTab!EE
  <2> QED BY <2>2, <2>3 DEF KineInv
<1>4. CASE r.op = "apply" /\ IkTab!ApplyAnswered(r)
  <2>1. CASE r.ok
    BY <1>1, <1>2, <1>4, <2>1, KineUnmounted DEF IkTab!ApplyAnswered
  <2>2. CASE ~r.ok
    BY <1>3, <1>4, <2>2 DEF IkTab!ApplyAnswered
  <2> QED BY <2>1, <2>2
<1>5. CASE r.op # "apply" /\ ek_open /\ ~IkTab!Earlier(r) /\ IkTab!Shown(r)
  <2>1. /\ UNCHANGED <<ek_open, ek_tab, ek_draftEE, ek_try>> /\ ek_loading' = FALSE
        /\ \/ r.ok /\ ek_machine' = r.copy /\ ek_error' = ek_error
           \/ ~r.ok /\ ek_error' = TRUE /\ ek_machine' = ek_machine
    BY <1>5 DEF IkTab!Shown, IkTab!Answered
  <2>2. ek_eeEditing' \in BOOLEAN /\ (ek_eeEditing' => ek_eeEditing)
    BY <1>5 DEF IkTab!Shown, IkTab!EEApplied, KineInv, IkTab!TypeOK
  <2>3. KineAwaited(r) /\ KineTyped(r)
    BY <1>5 DEF KineAwaited, IkTab!Earlier, KineInv, KineRequests
  <2>4. \A s : KineAwaited(s)' <=> KineAwaited(s)
    BY <1>2 DEF KineAwaited
  <2>5. \A s \in ek_reqs' : ~KineAwaited(s)
    BY <1>1, <2>3 DEF KineInv, KineRequests
  <2>6. KineRequests'
    <3>1. \A s : KineTyped(s)' <=> KineTyped(s)
      BY DEF KineTyped, KineRequest, KineBody, IkTab!Description, IkTab!EE, IkTab!NoMachine
    <3> QED BY <1>1, <1>2, <2>4, <2>5, <3>1 DEF KineInv, KineRequests
  <2>7. KineBrings'
    BY <2>4, <2>5 DEF KineBrings
  <2>8. r.ok => r.copy \in IkTab!Description
           /\ (~ek_behind => IkTab!Settings(r.copy) = IkTab!Settings(ek_stored))
    BY <1>1, <1>5, <2>3 DEF KineInv, KineBrings, KineTyped
  <2>9. IkTab!ShownIsStored'
    BY <1>2, <2>1, <2>8 DEF IkTab!ShownIsStored
  <2>10. KineMounted' /\ KineCounts'
    BY <1>2, <2>1, <2>2 DEF KineInv, KineMounted, KineCounts
  <2>11. IkTab!TypeOK'
    <3>1. ek_machine' \in IkTab!Description \union {IkTab!NoMachine}
      BY <2>1, <2>8 DEF KineInv, IkTab!TypeOK
    <3>2. ek_loading' \in BOOLEAN /\ ek_error' \in BOOLEAN
      <4>1. ek_error \in BOOLEAN
        BY DEF KineInv, IkTab!TypeOK
      <4> QED BY <2>1, <4>1, Zenon
    <3> QED BY <1>2, <2>1, <2>2, <3>1, <3>2 DEF KineInv, IkTab!TypeOK
  <2> QED BY <2>6, <2>7, <2>9, <2>10, <2>11 DEF KineInv
<1> QED BY <1>1, <1>3, <1>4, <1>5

\* Every step keeps it.
LEMMA KineNext ==
  ASSUME KineInv, [IkTab!Next]_(IkTab!vars)
  PROVE  KineInv'
<1>1. CASE UNCHANGED IkTab!vars
  <2>1. UNCHANGED <<ek_stored, ek_open, ek_opening, ek_machine, ek_loading, ek_error, ek_tab, ek_mounts, ek_draftEE,
                    ek_eeEditing, ek_try, ek_reqs, ek_puts, ek_applies, ek_behind>>
    BY <1>1 DEF IkTab!vars
  <2>2. KineMounted'
    BY <2>1 DEF KineInv, KineMounted
  <2> QED BY <2>1, <2>2, KineLocal DEF KineInv, IkTab!TypeOK
<1>2. CASE IkTab!Cancel
  BY <1>2, KineUnmounted DEF IkTab!Cancel, IkTab!count
<1>3. CASE IkTab!Serve
  BY <1>3, KineReads, KinePersists DEF IkTab!Serve
<1> QED BY <1>1, <1>2, <1>3, KineOpens, KineApplies, KineUser, KineAnswer DEF IkTab!Next

\* It holds what the runs check.
LEMMA KineShows ==
  ASSUME KineInv
  PROVE  IkTab!TypeOK /\ IkTab!ShownIsStored
BY DEF KineInv

-----------------------------------------------------------------------------
(* The sliders (DhEdit)                                                    *)

\* What is assumed of its constants.
LEMMA SlidersBounds ==
  dh_MaxValue \in Nat /\ dh_Easy \subseteq Sliders!Target
  BY MachinePagesAssumption, SlidersAssumption

SliderJoint == [Sliders!NumberFields -> Int]
SliderValues == [link_radius : Int, joints : [dh_Joints -> SliderJoint]]

\* The Brain's parameters are its own reading of what it keeps, and a target
\* that nothing overlapping edited reads the same in the draft.
SlidersInv ==
  /\ dh_dhValues \in SliderValues /\ dh_stored \in SliderValues
  /\ dh_parameters = [alias \in dh_Easy |-> Sliders!readDhTarget(dh_stored, alias)]
  /\ dh_aimed \subseteq Sliders!Target
  /\ \A t \in Sliders!Target :
       (\A a \in dh_aimed : ~Sliders!Overlaps(t, a))
         => Sliders!readDhTarget(dh_dhValues, t) = Sliders!readDhTarget(dh_stored, t)

\* The three forms of a slider's target.
LEMMA SliderTarget ==
  ASSUME NEW t \in Sliders!Target
  PROVE  \/ t.field = "link_radius" /\ t = [joint |-> 0, field |-> "link_radius"]
         \/ t.field = "limit_symmetric" /\ t.joint \in dh_Joints
         \/ t.field \in Sliders!NumberFields /\ t.joint \in dh_Joints
BY DEF Sliders!Target, Sliders!NumberFields

\* What each form reads.
LEMMA SliderReads ==
  ASSUME NEW v, NEW t
  PROVE  /\ t.field = "link_radius" => Sliders!readDhTarget(v, t) = v.link_radius
         /\ t.field = "limit_symmetric"
              => Sliders!readDhTarget(v, t) = v.joints[t.joint].limit_upper
         /\ t.field \in Sliders!NumberFields
              => Sliders!readDhTarget(v, t) = v.joints[t.joint][t.field]
<1>1. CASE t.field = "link_radius"
  BY <1>1 DEF Sliders!readDhTarget, Sliders!NumberFields
<1>2. CASE t.field = "limit_symmetric"
  BY <1>2 DEF Sliders!readDhTarget, Sliders!NumberFields
<1>3. CASE t.field \in Sliders!NumberFields
  <2>1. t.field # "link_radius" /\ t.field # "limit_symmetric"
    BY <1>3 DEF Sliders!NumberFields
  <2> QED BY <1>3, <2>1 DEF Sliders!readDhTarget
<1> QED BY <1>1, <1>2, <1>3

\* What an edit leaves alone: every other joint, and of its own joint every
\* field it does not name.
LEMMA SliderFrame ==
  ASSUME NEW v \in SliderValues, NEW t \in Sliders!Target, NEW x \in Int,
         NEW w, w = Sliders!writeDhTarget(v, t, x)
  PROVE  /\ w \in SliderValues
         /\ t.field # "link_radius" => w.link_radius = v.link_radius
         /\ \A j \in dh_Joints, f \in Sliders!NumberFields :
              w.joints[j][f] # v.joints[j][f]
                => /\ j = t.joint /\ t.field # "link_radius"
                   /\ f = t.field \/ (t.field = "limit_symmetric" /\ f \in {"limit_lower", "limit_upper"})
<1>1. /\ v.link_radius \in Int /\ v.joints \in [dh_Joints -> SliderJoint]
      /\ v = [link_radius |-> v.link_radius, joints |-> v.joints]
  BY DEF SliderValues
<1>2. CASE t.field = "link_radius"
  <2>1. w = [link_radius |-> x, joints |-> v.joints]
    <3>1. w = [v EXCEPT !.link_radius = x]
      BY <1>2 DEF Sliders!writeDhTarget
    <3> QED BY <1>1, <3>1
  <2> QED BY <1>1, <1>2, <2>1 DEF SliderValues
<1>3. CASE t.field = "limit_symmetric"
  <2>1. t.joint \in dh_Joints
    BY <1>3, SliderTarget DEF Sliders!NumberFields
  <2>2. PICK y \in Int : y = Sliders!abs(x)
    BY DEF Sliders!abs
  <2>3. PICK z \in Int : z = -y
    OBVIOUS
  <2>4. PICK r : r = [[v.joints[t.joint] EXCEPT !["limit_lower"] = z] EXCEPT !["limit_upper"] = y]
    OBVIOUS
  <2>5. r \in SliderJoint /\ \A f \in Sliders!NumberFields :
          r[f] # v.joints[t.joint][f] => f \in {"limit_lower", "limit_upper"}
    <3>1. v.joints[t.joint] \in SliderJoint
      BY <1>1, <2>1
    <3> QED BY <2>4, <3>1 DEF SliderJoint, Sliders!NumberFields
  <2>6. w = [link_radius |-> v.link_radius, joints |-> [v.joints EXCEPT ![t.joint] = r]]
    <3>1. w = [v EXCEPT !.joints[t.joint].limit_lower = z, !.joints[t.joint].limit_upper = y]
      BY <1>3, <2>2, <2>3 DEF Sliders!writeDhTarget
    <3>2. PICK u : u = [v EXCEPT !.joints[t.joint].limit_lower = z]
      OBVIOUS
    <3>3. w = [u EXCEPT !.joints[t.joint].limit_upper = y]
      BY <3>1, <3>2
    <3>4. u = [link_radius |-> v.link_radius,
               joints |-> [v.joints EXCEPT ![t.joint] = [v.joints[t.joint] EXCEPT !["limit_lower"] = z]]]
      BY <1>1, <3>2
    <3>5. w = [link_radius |-> v.link_radius,
               joints |-> [u.joints EXCEPT ![t.joint] = [u.joints[t.joint] EXCEPT !["limit_upper"] = y]]]
      BY <3>3, <3>4
    <3>6. u.joints = [v.joints EXCEPT ![t.joint] = [v.joints[t.joint] EXCEPT !["limit_lower"] = z]]
      BY <3>4
    <3>7. u.joints[t.joint] = [v.joints[t.joint] EXCEPT !["limit_lower"] = z]
      BY <1>1, <2>1, <3>6
    <3>8. [u.joints EXCEPT ![t.joint] = r] = [v.joints EXCEPT ![t.joint] = r]
      BY <1>1, <2>1, <3>6
    <3> QED BY <2>4, <3>5, <3>7, <3>8
  <2> QED BY <1>1, <1>3, <2>1, <2>5, <2>6 DEF SliderValues
<1>4. CASE t.field \in Sliders!NumberFields
  <2>1. t.joint \in dh_Joints /\ t.field # "link_radius"
    BY <1>4, SliderTarget DEF Sliders!NumberFields
  <2>2. PICK r : r = [v.joints[t.joint] EXCEPT ![t.field] = x]
    OBVIOUS
  <2>3. r \in SliderJoint /\ \A f \in Sliders!NumberFields :
          r[f] # v.joints[t.joint][f] => f = t.field
    <3>1. v.joints[t.joint] \in SliderJoint
      BY <1>1, <2>1
    <3> QED BY <1>4, <2>2, <3>1 DEF SliderJoint
  <2>4. w = [link_radius |-> v.link_radius, joints |-> [v.joints EXCEPT ![t.joint] = r]]
    <3>1. w = [v EXCEPT !.joints[t.joint][t.field] = x]
      <4>1. t.field # "limit_symmetric"
        BY <1>4 DEF Sliders!NumberFields
      <4> QED BY <2>1, <4>1 DEF Sliders!writeDhTarget
    <3> QED BY <1>1, <2>2, <3>1
  <2> QED BY <1>1, <2>1, <2>3, <2>4 DEF SliderValues
<1> QED BY <1>2, <1>3, <1>4, SliderTarget

\* A target that does not overlap the edited one reads what it read.
LEMMA SliderKept ==
  ASSUME NEW v \in SliderValues, NEW t \in Sliders!Target, NEW x \in Int, NEW s \in Sliders!Target,
         ~Sliders!Overlaps(s, t), NEW w, w = Sliders!writeDhTarget(v, t, x)
  PROVE  Sliders!readDhTarget(w, s) = Sliders!readDhTarget(v, s)
<1>1. /\ t.field # "link_radius" => w.link_radius = v.link_radius
      /\ \A j \in dh_Joints, f \in Sliders!NumberFields :
           w.joints[j][f] # v.joints[j][f]
             => /\ j = t.joint /\ t.field # "link_radius"
                /\ f = t.field \/ (t.field = "limit_symmetric" /\ f \in {"limit_lower", "limit_upper"})
  BY SliderFrame
<1>2. CASE s.field = "link_radius"
  <2>1. t.field # "link_radius"
    BY <1>2, SliderTarget DEF Sliders!Overlaps, Sliders!NumberFields
  <2> QED BY <1>1, <1>2, <2>1, SliderReads
<1>3. CASE s.field = "limit_symmetric"
  <2>1. s.joint \in dh_Joints /\ s.joint = t.joint => t.field \notin {"limit_symmetric", "limit_upper"}
    BY <1>3, SliderTarget DEF Sliders!Overlaps, Sliders!NumberFields, Sliders!Target
  <2>2. s.joint \in dh_Joints
    BY <1>3, SliderTarget DEF Sliders!NumberFields
  <2>3. w.joints[s.joint]["limit_upper"] = v.joints[s.joint]["limit_upper"]
    BY <1>1, <2>1, <2>2 DEF Sliders!NumberFields
  <2> QED BY <1>3, <2>3, SliderReads
<1>4. CASE s.field \in Sliders!NumberFields
  <2>1. s.joint \in dh_Joints
    BY <1>4, SliderTarget DEF Sliders!NumberFields
  <2>2. s.joint = t.joint /\ t.field # "link_radius" => s.field # t.field
    BY <1>4 DEF Sliders!Overlaps, Sliders!Target, Sliders!NumberFields
  <2>3. s.joint = t.joint /\ t.field = "limit_symmetric" => s.field \notin {"limit_lower", "limit_upper"}
    BY <1>4 DEF Sliders!Overlaps
  <2>4. w.joints[s.joint][s.field] = v.joints[s.joint][s.field]
    BY <1>1, <1>4, <2>1, <2>2, <2>3
  <2> QED BY <1>4, <2>4, SliderReads
<1> QED BY <1>2, <1>3, <1>4, SliderTarget

\* It holds of the first state.
LEMMA SlidersFirst ==
  ASSUME Sliders!Init
  PROVE  SlidersInv
<1>1. Sliders!dhValuesFromSchema \in SliderValues
  BY DEF Sliders!dhValuesFromSchema, SliderValues, SliderJoint
<1>2. dh_parameters = [alias \in dh_Easy |-> Sliders!readDhTarget(dh_stored, alias)]
  BY DEF Sliders!Init, Sliders!dh_values_to_parameters, Sliders!resolve_dh_target, Sliders!readDhTarget
<1> QED BY <1>1, <1>2 DEF Sliders!Init, SlidersInv

\* An edit of one target keeps shown and stored together.
LEMMA SlidersEdit ==
  ASSUME SlidersInv, NEW t \in Sliders!Target, NEW x \in Int,
         Sliders!Edit(t, Sliders!writeDhTarget(dh_dhValues, t, x))
  PROVE  SlidersInv'
<1>1. PICK v \in SliderValues : v = dh_dhValues
  BY DEF SlidersInv
<1>2. PICK w : w = Sliders!writeDhTarget(v, t, x)
  OBVIOUS
<1>3. dh_dhValues' = w /\ dh_aimed' = dh_aimed \union {t} /\ UNCHANGED <<dh_stored, dh_parameters>>
  BY <1>1, <1>2 DEF Sliders!Edit
<1>4. w \in SliderValues
  BY <1>2, SliderFrame
<1>5. ASSUME NEW s \in Sliders!Target, \A a \in dh_aimed' : ~Sliders!Overlaps(s, a)
      PROVE  Sliders!readDhTarget(w, s) = Sliders!readDhTarget(dh_stored, s)
  <2>1. ~Sliders!Overlaps(s, t) /\ \A a \in dh_aimed : ~Sliders!Overlaps(s, a)
    BY <1>3, <1>5
  <2>2. Sliders!readDhTarget(w, s) = Sliders!readDhTarget(v, s)
    BY <1>2, <2>1, SliderKept
  <2> QED BY <1>1, <2>1, <2>2 DEF SlidersInv
<1> QED BY <1>3, <1>4, <1>5 DEF SlidersInv

\* Every step keeps it.
LEMMA SlidersNext ==
  ASSUME SlidersInv, [Sliders!Next]_(Sliders!vars)
  PROVE  SlidersInv'
<1>1. CASE Sliders!EasyPanel
  <2>1. PICK alias \in dh_Easy : \E x \in Sliders!easyRange(alias) :
          Sliders!Edit(alias, Sliders!writeEasyAlias(dh_dhValues, alias, x))
    BY <1>1 DEF Sliders!EasyPanel
  <2>2. PICK x \in Sliders!easyRange(alias) :
          Sliders!Edit(alias, Sliders!writeEasyAlias(dh_dhValues, alias, x))
    BY <2>1
  <2>3. x \in Int /\ alias \in Sliders!Target
    BY SlidersBounds DEF Sliders!easyRange, Sliders!readEasyAliasSpec
  <2> QED BY <2>2, <2>3, SlidersEdit DEF Sliders!writeEasyAlias
<1>2. CASE Sliders!AdvancedPanel
  <2>1. PICK t \in Sliders!Target : Sliders!AdvancedRow(t)
    BY <1>2 DEF Sliders!AdvancedPanel
  <2>2. PICK x \in -dh_MaxValue..dh_MaxValue : Sliders!Edit(t, Sliders!writeDhTarget(dh_dhValues, t, x))
    BY <2>1 DEF Sliders!AdvancedRow
  <2>3. x \in Int
    BY SlidersBounds
  <2> QED BY <2>2, <2>3, SlidersEdit
<1>3. CASE Sliders!Apply
  <2>1. dh_parameters' = [alias \in dh_Easy |-> Sliders!readDhTarget(dh_dhValues, alias)]
    BY <1>3 DEF Sliders!Apply, Sliders!dh_values_to_parameters, Sliders!resolve_dh_target,
       Sliders!readDhTarget
  <2> QED BY <1>3, <2>1 DEF Sliders!Apply, SlidersInv
<1>4. CASE Sliders!Reopen
  BY <1>4 DEF Sliders!Reopen, SlidersInv
<1>5. CASE Sliders!ChooseTab
  BY <1>5 DEF Sliders!ChooseTab, SlidersInv
<1>6. CASE UNCHANGED Sliders!vars
  BY <1>6 DEF Sliders!vars, SlidersInv
<1> QED BY <1>1, <1>2, <1>3, <1>4, <1>5, <1>6 DEF Sliders!Next

\* It holds what the runs check.
LEMMA SlidersShow ==
  ASSUME SlidersInv
  PROVE  Sliders!SlidersMatchParameters
BY SlidersBounds DEF SlidersInv, Sliders!SlidersMatchParameters, Sliders!readEasyAlias
-----------------------------------------------------------------------------
(* The frames of the arm (Kinematics)                                      *)

\* What is assumed of its constants.
LEMMA FramesBounds ==
  ki_Lengths \subseteq Int /\ ki_Turns \subseteq Int
  BY MachinePagesAssumption

-----------------------------------------------------------------------------
(* Matrices: what is proved of them is proved entry by entry. *)

Matrix == [1 .. 3 -> [1 .. 4 -> Int]]

\* A function on three numbers is a triple.
LEMMA Triple ==
  ASSUME NEW S, NEW f \in [1 .. 3 -> S] PROVE f = <<f[1], f[2], f[3]>>
OBVIOUS

\* One on four is a quadruple.
LEMMA Quadruple ==
  ASSUME NEW S, NEW f \in [1 .. 4 -> S] PROVE f = <<f[1], f[2], f[3], f[4]>>
OBVIOUS

\* A product of matrices, entry by entry; it is a matrix.
Mul(A, B) ==
  [i \in 1 .. 3 |-> [k \in 1 .. 4 |->
    A[i][1] * B[1][k] + A[i][2] * B[2][k] + A[i][3] * B[3][k] + (IF k = 4 THEN A[i][4] ELSE 0)]]

\* So is the product the copies make.
LEMMA FramesMul ==
  ASSUME NEW A \in Matrix, NEW B \in Matrix
  PROVE  Frames!mul(A, B) = Mul(A, B) /\ Frames!mul(A, B) \in Matrix
<1> DEFINE M == Mul(A, B)
<1>1. M \in [1 .. 3 -> [1 .. 4 -> Int]]
  BY DEF Matrix, Mul
<1>2. ASSUME NEW i \in 1 .. 3 PROVE Frames!Row(A, B, i) = M[i]
  <2>1. M[i] = [k \in 1 .. 4 |-> Frames!Dot(A, B, i, k) + (IF k = 4 THEN A[i][4] ELSE 0)]
    BY DEF Mul, Frames!Dot
  <2>2. \A k \in 1 .. 4 : Frames!Dot(A, B, i, k) \in Int
    BY DEF Matrix, Frames!Dot
  <2>3. M[i] \in [1 .. 4 -> Int]
    BY <1>1
  <2> HIDE DEF M
  <2>4. /\ M[i][1] = Frames!Dot(A, B, i, 1) /\ M[i][2] = Frames!Dot(A, B, i, 2)
        /\ M[i][3] = Frames!Dot(A, B, i, 3) /\ M[i][4] = Frames!Dot(A, B, i, 4) + A[i][4]
    BY <2>1, <2>2
  <2>5. M[i] = <<M[i][1], M[i][2], M[i][3], M[i][4]>>
    BY <2>3, Quadruple, Zenon
  <2> QED BY <2>4, <2>5, Zenon DEF Frames!Row
<1> HIDE DEF M
<1>3. M = <<M[1], M[2], M[3]>>
  BY <1>1, Triple, Zenon
<1>4. 1 \in 1 .. 3 /\ 2 \in 1 .. 3 /\ 3 \in 1 .. 3
  OBVIOUS
<1>5. Frames!mul(A, B) = M
  BY <1>2, <1>3, <1>4, Zenon DEF Frames!mul
<1> QED BY <1>1, <1>5, Zenon DEF M, Matrix

\* Cosine and sine of a quarter turn.
LEMMA FramesQuarter ==
  ASSUME NEW n \in Int
  PROVE  \/ Frames!Cos(n) = 1 /\ Frames!Sin(n) = 0
         \/ Frames!Cos(n) = 0 /\ Frames!Sin(n) = 1
         \/ Frames!Cos(n) = -1 /\ Frames!Sin(n) = 0
         \/ Frames!Cos(n) = 0 /\ Frames!Sin(n) = -1
BY DEF Frames!Cos, Frames!Sin

\* Rotations and translations are matrices, and so is the identity.
LEMMA FramesMatrices ==
  /\ Frames!identity \in Matrix
  /\ \A n \in Int : Frames!rotZ(n) \in Matrix /\ Frames!rotX(n) \in Matrix
  /\ \A x, y, z \in Int : Frames!trans(x, y, z) \in Matrix
<1>1. Frames!identity \in Matrix
  BY DEF Frames!identity, Matrix
<1>2. ASSUME NEW n \in Int PROVE Frames!rotZ(n) \in Matrix /\ Frames!rotX(n) \in Matrix
  <2>1. Frames!Cos(n) \in Int /\ Frames!Sin(n) \in Int
    BY FramesQuarter
  <2> QED BY <2>1 DEF Frames!rotZ, Frames!rotX, Matrix
<1>3. ASSUME NEW x \in Int, NEW y \in Int, NEW z \in Int PROVE Frames!trans(x, y, z) \in Matrix
  BY DEF Frames!trans, Matrix
<1> QED BY <1>1, <1>2, <1>3

\* The frame A moved along its own axes.
Moved(A, x, y, z) ==
  [i \in 1 .. 3 |-> [k \in 1 .. 4 |->
     IF k = 4 THEN A[i][1] * x + A[i][2] * y + A[i][3] * z + A[i][4] ELSE A[i][k]]]

\* A translation moves a frame.
LEMMA FramesTranslate ==
  ASSUME NEW A \in Matrix, NEW x \in Int, NEW y \in Int, NEW z \in Int
  PROVE  /\ Frames!mul(A, Frames!trans(x, y, z)) = Moved(A, x, y, z)
         /\ Moved(A, x, y, z) \in Matrix
<1>1. Frames!mul(A, Frames!trans(x, y, z)) = Moved(A, x, y, z)
  <2>1. Frames!mul(A, Frames!trans(x, y, z)) = Mul(A, Frames!trans(x, y, z))
    BY FramesMul, FramesMatrices
  <2>2. Mul(A, Frames!trans(x, y, z)) = Moved(A, x, y, z)
    BY DEF Mul, Frames!trans, Matrix, Moved
  <2> QED BY <2>1, <2>2, Zenon
<1>2. Moved(A, x, y, z) \in Matrix
  BY DEF Matrix, Moved
<1> QED BY <1>1, <1>2

\* One along X after it moves it further.
LEMMA FramesFurther ==
  ASSUME NEW A \in Matrix, NEW x \in Int, NEW y \in Int, NEW z \in Int,
         NEW u \in Int, NEW v \in Int, x + u = v
  PROVE  Frames!mul(Moved(A, x, y, z), Frames!trans(u, 0, 0)) = Moved(A, v, y, z)
<1>1. Mul(Moved(A, x, y, z), Frames!trans(u, 0, 0)) = Moved(A, x + u, y, z)
  <2> DEFINE M == Moved(A, x, y, z)
  <2>1. ASSUME NEW i \in 1 .. 3
        PROVE  /\ M[i] = [k \in 1 .. 4 |-> IF k = 4 THEN A[i][1] * x + A[i][2] * y + A[i][3] * z + A[i][4]
                                                   ELSE A[i][k]]
               /\ Moved(A, x + u, y, z)[i] =
                    [k \in 1 .. 4 |-> IF k = 4 THEN A[i][1] * (x + u) + A[i][2] * y + A[i][3] * z + A[i][4]
                                             ELSE A[i][k]]
    BY DEF Moved
  <2>2. ASSUME NEW i \in 1 .. 3
        PROVE  Mul(M, Frames!trans(u, 0, 0))[i] =
                 [k \in 1 .. 4 |-> IF k = 4 THEN M[i][1] * u + M[i][4] ELSE M[i][k]]
    <3>1. M \in Matrix
      BY FramesTranslate
    <3> HIDE DEF M
    <3>2. \A k \in 1 .. 4 : M[i][k] \in Int
      BY <3>1 DEF Matrix
    <3>3. ASSUME NEW k \in 1 .. 4
          PROVE  Mul(M, Frames!trans(u, 0, 0))[i][k] = IF k = 4 THEN M[i][1] * u + M[i][4] ELSE M[i][k]
      <4>1. CASE k = 1
        BY <3>2, <4>1 DEF Mul, Frames!trans
      <4>2. CASE k = 2
        BY <3>2, <4>2 DEF Mul, Frames!trans
      <4>3. CASE k = 3
        BY <3>2, <4>3 DEF Mul, Frames!trans
      <4>4. CASE k = 4
        BY <3>2, <4>4 DEF Mul, Frames!trans
      <4> QED BY <4>1, <4>2, <4>3, <4>4
    <3> QED BY <3>3 DEF Mul
  <2>3. ASSUME NEW i \in 1 .. 3
        PROVE  A[i][1] * u + (A[i][1] * x + A[i][2] * y + A[i][3] * z + A[i][4])
                 = A[i][1] * (x + u) + A[i][2] * y + A[i][3] * z + A[i][4]
    BY DEF Matrix
  <2>4. ASSUME NEW i \in 1 .. 3
        PROVE  Mul(M, Frames!trans(u, 0, 0))[i] = Moved(A, x + u, y, z)[i]
    <3> HIDE DEF M
    <3> QED BY <2>1, <2>2, <2>3
  <2> QED BY <2>4 DEF Mul, Moved
<1>2. Moved(A, x, y, z) \in Matrix /\ Frames!trans(u, 0, 0) \in Matrix
  BY FramesTranslate, FramesMatrices
<1> QED BY <1>1, <1>2, FramesMul

\* The fields of a joint of a chain.
LEMMA FramesJoint ==
  ASSUME NEW j \in Frames!Joint
  PROVE  /\ j.a \in Int /\ j.d \in Int /\ j.q \in Int
         /\ j.alpha \in Int /\ j.theta_offset \in Int
         /\ j.type \in {"revolute", "prismatic"} /\ j.axis \in {"x", "y", "z"}
BY FramesBounds DEF Frames!Joint

-----------------------------------------------------------------------------
(* One joint: the frame behind it, as each of the three copies makes it. *)

JointTurn(T, j) ==
  Frames!mul(T, Frames!rotZ(j.theta_offset + (IF j.type = "revolute" THEN j.q ELSE 0)))
PageStep(T, j) ==
  Frames!mul(Frames!mul(Frames!linkFrame(T, j), Frames!trans(Frames!extraX(j), 0, 0)),
             Frames!rotX(j.alpha))
SceneLink(T, j) ==
  Frames!mul(JointTurn(T, j),
    Frames!trans(IF j.type = "prismatic" /\ j.axis = "x" THEN j.a + j.q ELSE 0,
                 IF j.type = "prismatic" /\ j.axis = "y" THEN j.q ELSE 0,
                 IF j.type = "revolute" THEN j.d ELSE IF j.axis = "z" THEN j.d + j.q ELSE 0))
SceneTip(T, j) ==
  Frames!mul(SceneLink(T, j),
    Frames!trans(IF j.type = "prismatic" /\ j.axis = "x" THEN 0 ELSE j.a, 0, 0))
SceneStep(T, j) ==
  [link |-> SceneLink(T, j), tip |-> SceneTip(T, j),
   next |-> Frames!mul(SceneTip(T, j), Frames!rotX(j.alpha))]
BrainCarry(j) ==
  IF j.type = "revolute" THEN Frames!trans(j.a, 0, j.d)
  ELSE IF j.axis = "x" THEN Frames!trans(j.a + j.q, 0, j.d)
  ELSE IF j.axis = "y" THEN Frames!trans(j.a, j.q, j.d)
  ELSE Frames!trans(j.a, 0, j.d + j.q)
BrainStep(T, j) == Frames!mul(Frames!mul(JointTurn(T, j), BrainCarry(j)), Frames!rotX(j.alpha))

\* A joint as it is drawn differs from the joint in the offset alone.
LEMMA FramesDrawn ==
  ASSUME NEW j \in Frames!Joint
  PROVE  LET k == Frames!Drawn(j)
         IN /\ k.type = j.type /\ k.axis = j.axis /\ k.a = j.a /\ k.q = j.q
            /\ k.alpha = j.alpha /\ k.theta_offset = j.theta_offset
            /\ k.d = IF j.type = "prismatic" /\ j.axis # "z" THEN 0 ELSE j.d
<1>1. CASE j.type = "prismatic" /\ j.axis # "z"
  <2>1. Frames!Drawn(j) = [j EXCEPT !.d = 0]
    BY <1>1 DEF Frames!Drawn
  <2>2. j \in [type : {"prismatic"}, axis : {"x", "y", "z"}, a : ki_Lengths, d : ki_Lengths,
               alpha : ki_Turns, theta_offset : ki_Turns, q : ki_Lengths]
    BY <1>1 DEF Frames!Joint
  <2> QED BY <1>1, <2>1, <2>2
<1>2. CASE ~(j.type = "prismatic" /\ j.axis # "z")
  BY <1>2 DEF Frames!Drawn
<1> QED BY <1>1, <1>2

\* The turn of a joint is a matrix.
LEMMA FramesTurn ==
  ASSUME NEW T \in Matrix, NEW j \in Frames!Joint PROVE JointTurn(T, j) \in Matrix
<1>1. j.theta_offset + (IF j.type = "revolute" THEN j.q ELSE 0) \in Int
  BY FramesJoint
<1> QED BY <1>1, FramesMul, FramesMatrices DEF JointTurn

\* Before the twist the page's frame is behind two translations, the scene's
\* behind two others, the Brain's behind one; all three come to one place.
LEMMA FramesBeforeTwist ==
  ASSUME NEW T \in Matrix, NEW j \in Frames!Joint
  PROVE  LET A == JointTurn(T, j)
             page == Frames!mul(Frames!mul(A, Frames!slide(j)), Frames!trans(Frames!extraX(j), 0, 0))
         IN /\ page \in Matrix
            /\ SceneTip(T, j) = page /\ SceneLink(T, j) \in Matrix
            /\ Frames!mul(A, BrainCarry(Frames!Drawn(j))) = page
<1> DEFINE A == JointTurn(T, j)
<1>1. A \in Matrix
  BY FramesTurn
<1>2. /\ j.a \in Int /\ j.d \in Int /\ j.q \in Int /\ j.a + j.q \in Int /\ j.d + j.q \in Int
      /\ j.type \in {"revolute", "prismatic"} /\ j.axis \in {"x", "y", "z"} /\ 0 \in Int
  BY FramesJoint
<1> HIDE DEF A
<1>3. ASSUME NEW x \in Int, NEW y \in Int, NEW z \in Int
      PROVE  /\ Moved(A, x, y, z) \in Matrix
             /\ Frames!mul(A, Frames!trans(x, y, z)) = Moved(A, x, y, z)
  BY <1>1, FramesTranslate
<1>5. ASSUME NEW y \in Int, NEW z \in Int
      PROVE  Frames!mul(Moved(A, 0, y, z), Frames!trans(j.a, 0, 0)) = Moved(A, j.a, y, z)
  <2> DEFINE a == j.a
  <2>1. a \in Int /\ 0 \in Int /\ 0 + a = a
    BY <1>2
  <2> HIDE DEF a
  <2>2. Frames!mul(Moved(A, 0, y, z), Frames!trans(a, 0, 0)) = Moved(A, a, y, z)
    BY <1>1, <2>1, FramesFurther
  <2> QED BY <2>2 DEF a
<1> DEFINE page == Frames!mul(Frames!mul(A, Frames!slide(j)), Frames!trans(Frames!extraX(j), 0, 0))
           link == Frames!mul(A, Frames!trans(
                     IF j.type = "prismatic" /\ j.axis = "x" THEN j.a + j.q ELSE 0,
                     IF j.type = "prismatic" /\ j.axis = "y" THEN j.q ELSE 0,
                     IF j.type = "revolute" THEN j.d ELSE IF j.axis = "z" THEN j.d + j.q ELSE 0))
           tip == Frames!mul(link, Frames!trans(IF j.type = "prismatic" /\ j.axis = "x" THEN 0 ELSE j.a, 0, 0))
           k == Frames!Drawn(j)
           brain == Frames!mul(A, BrainCarry(k))
<1>7. /\ k.type = j.type /\ k.axis = j.axis /\ k.a = j.a /\ k.q = j.q
      /\ k.d = IF j.type = "prismatic" /\ j.axis # "z" THEN 0 ELSE j.d
  BY FramesDrawn
<1> HIDE DEF k
<1>6. link \in Matrix /\ page \in Matrix /\ tip = page /\ brain = page
  <2>1. CASE j.type = "revolute"
    <3>1. link = Moved(A, 0, 0, j.d) /\ page = Moved(A, j.a, 0, j.d) /\ tip = page
      <4>1. Frames!slide(j) = Frames!trans(0, 0, j.d) /\ Frames!extraX(j) = j.a
        BY <2>1 DEF Frames!slide, Frames!extraX
      <4>2. link = Moved(A, 0, 0, j.d)
        BY <1>2, <1>3, <2>1
      <4>3. tip = Moved(A, j.a, 0, j.d)
        <5>1. tip = Frames!mul(link, Frames!trans(j.a, 0, 0))
          BY <2>1
        <5> HIDE DEF link, tip
        <5> QED BY <1>2, <1>5, <4>2, <5>1, Zenon
      <4>4. page = Moved(A, j.a, 0, j.d)
        <5>1. page = Frames!mul(Moved(A, 0, 0, j.d), Frames!trans(j.a, 0, 0))
          BY <1>2, <1>3, <4>1
        <5> HIDE DEF page
        <5> QED BY <1>2, <1>5, <5>1, Zenon
      <4> QED BY <4>2, <4>3, <4>4
    <3>2. brain = Moved(A, j.a, 0, j.d)
      BY <1>2, <1>3, <1>7, <2>1 DEF BrainCarry
    <3> QED BY <1>2, <1>3, <3>1, <3>2
  <2>2. CASE j.type = "prismatic" /\ j.axis = "x"
    <3>1. link = Moved(A, j.a + j.q, 0, 0) /\ page = Moved(A, j.a + j.q, 0, 0) /\ tip = page
      <4>0. Frames!mul(Moved(A, j.a + j.q, 0, 0), Frames!trans(0, 0, 0)) = Moved(A, j.a + j.q, 0, 0)
        BY <1>1, <1>2, FramesFurther
      <4>1. Frames!slide(j) = Frames!trans(j.a + j.q, 0, 0) /\ Frames!extraX(j) = 0
        BY <2>2 DEF Frames!slide, Frames!extraX
      <4>2. link = Moved(A, j.a + j.q, 0, 0)
        BY <1>2, <1>3, <2>2
      <4>3. tip = Moved(A, j.a + j.q, 0, 0)
        <5>1. tip = Frames!mul(link, Frames!trans(0, 0, 0))
          BY <2>2
        <5> HIDE DEF link, tip
        <5> QED BY <4>0, <4>2, <5>1
      <4>4. page = Moved(A, j.a + j.q, 0, 0)
        <5>1. page = Frames!mul(Moved(A, j.a + j.q, 0, 0), Frames!trans(0, 0, 0))
          BY <1>2, <1>3, <4>1
        <5> HIDE DEF page
        <5> QED BY <4>0, <5>1
      <4> QED BY <4>2, <4>3, <4>4
    <3>2. brain = Moved(A, j.a + j.q, 0, 0)
      BY <1>2, <1>3, <1>7, <2>2 DEF BrainCarry
    <3> QED BY <1>2, <1>3, <3>1, <3>2
  <2>3. CASE j.type = "prismatic" /\ j.axis = "y"
    <3>1. link = Moved(A, 0, j.q, 0) /\ page = Moved(A, j.a, j.q, 0) /\ tip = page
      <4>1. Frames!slide(j) = Frames!trans(0, j.q, 0) /\ Frames!extraX(j) = j.a
        BY <2>3 DEF Frames!slide, Frames!extraX
      <4>2. link = Moved(A, 0, j.q, 0)
        BY <1>2, <1>3, <2>3
      <4>3. tip = Moved(A, j.a, j.q, 0)
        <5>1. tip = Frames!mul(link, Frames!trans(j.a, 0, 0))
          BY <2>3
        <5> HIDE DEF link, tip
        <5> QED BY <1>2, <1>5, <4>2, <5>1, Zenon
      <4>4. page = Moved(A, j.a, j.q, 0)
        <5>1. page = Frames!mul(Moved(A, 0, j.q, 0), Frames!trans(j.a, 0, 0))
          BY <1>2, <1>3, <4>1
        <5> HIDE DEF page
        <5> QED BY <1>2, <1>5, <5>1, Zenon
      <4> QED BY <4>2, <4>3, <4>4
    <3>2. brain = Moved(A, j.a, j.q, 0)
      BY <1>2, <1>3, <1>7, <2>3 DEF BrainCarry
    <3> QED BY <1>2, <1>3, <3>1, <3>2
  <2>4. CASE j.type = "prismatic" /\ j.axis = "z"
    <3>1. link = Moved(A, 0, 0, j.d + j.q) /\ page = Moved(A, j.a, 0, j.d + j.q) /\ tip = page
      <4>1. Frames!slide(j) = Frames!trans(0, 0, j.d + j.q) /\ Frames!extraX(j) = j.a
        BY <2>4 DEF Frames!slide, Frames!extraX
      <4>2. link = Moved(A, 0, 0, j.d + j.q)
        BY <1>2, <1>3, <2>4
      <4>3. tip = Moved(A, j.a, 0, j.d + j.q)
        <5>1. tip = Frames!mul(link, Frames!trans(j.a, 0, 0))
          BY <2>4
        <5> HIDE DEF link, tip
        <5> QED BY <1>2, <1>5, <4>2, <5>1, Zenon
      <4>4. page = Moved(A, j.a, 0, j.d + j.q)
        <5>1. page = Frames!mul(Moved(A, 0, 0, j.d + j.q), Frames!trans(j.a, 0, 0))
          BY <1>2, <1>3, <4>1
        <5> HIDE DEF page
        <5> QED BY <1>2, <1>5, <5>1, Zenon
      <4> QED BY <4>2, <4>3, <4>4
    <3>2. brain = Moved(A, j.a, 0, j.d + j.q)
      BY <1>2, <1>3, <1>7, <2>4 DEF BrainCarry
    <3> QED BY <1>2, <1>3, <3>1, <3>2
  <2> QED BY <1>2, <2>1, <2>2, <2>3, <2>4
<1> QED BY <1>6 DEF A, SceneTip, SceneLink, k

\* A twist leaves the place of the frame.
LEMMA FramesTwist ==
  ASSUME NEW A \in Matrix, NEW n \in Int
  PROVE  Frames!Position(Frames!mul(A, Frames!rotX(n))) = Frames!Position(A)
<1>1. Frames!mul(A, Frames!rotX(n)) = Mul(A, Frames!rotX(n))
  BY FramesMul, FramesMatrices
<1> QED BY <1>1 DEF Mul, Frames!rotX, Frames!Position, Matrix

\* So behind each joint the three frames are one, and the tip is drawn there.
LEMMA FramesStep ==
  ASSUME NEW T \in Matrix, NEW j \in Frames!Joint
  PROVE  /\ PageStep(T, j) \in Matrix
         /\ SceneStep(T, j) \in [link : Matrix, tip : Matrix, next : Matrix]
         /\ SceneStep(T, j).next = PageStep(T, j)
         /\ Frames!Position(SceneStep(T, j).tip) = Frames!Position(PageStep(T, j))
         /\ BrainStep(T, Frames!Drawn(j)) = PageStep(T, j)
<1> DEFINE A == JointTurn(T, j)
           page == Frames!mul(Frames!mul(A, Frames!slide(j)), Frames!trans(Frames!extraX(j), 0, 0))
           k == Frames!Drawn(j)
           brain == Frames!mul(A, BrainCarry(k))
<1>1. /\ page \in Matrix /\ SceneTip(T, j) = page /\ SceneLink(T, j) \in Matrix
      /\ brain = page
  BY FramesBeforeTwist
<1>7. k.type = j.type /\ k.q = j.q /\ k.theta_offset = j.theta_offset /\ k.alpha = j.alpha
  BY FramesDrawn
<1> HIDE DEF k
<1>2. /\ PageStep(T, j) = Frames!mul(page, Frames!rotX(j.alpha))
      /\ BrainStep(T, k) = Frames!mul(brain, Frames!rotX(j.alpha))
  BY <1>7 DEF PageStep, BrainStep, Frames!linkFrame, JointTurn
<1> HIDE DEF page, brain
<1>3. j.alpha \in Int
  BY FramesJoint
<1>4. PageStep(T, j) \in Matrix
  BY <1>1, <1>2, <1>3, FramesMul, FramesMatrices
<1>5. Frames!Position(page) = Frames!Position(PageStep(T, j))
  BY <1>1, <1>2, <1>3, FramesTwist
<1>6. BrainStep(T, Frames!Drawn(j)) = PageStep(T, j)
  BY <1>1, <1>2, Zenon DEF k
<1>8. SceneStep(T, j) = [link |-> SceneLink(T, j), tip |-> page, next |-> PageStep(T, j)]
  BY <1>1, <1>2 DEF SceneStep
<1> QED BY <1>1, <1>4, <1>5, <1>6, <1>8

-----------------------------------------------------------------------------
(* Recursion over the joints of a chain. *)

\* Every non-empty set of naturals has a least element.
LEMMA FramesLeast ==
  ASSUME NEW T, T \subseteq Nat, T # {}
  PROVE  \E m \in T : \A k \in T : m <= k
<1> DEFINE R == OpToRel(<, Nat)
<1>1. IsWellFoundedOn(R, Nat)
  BY NatLessThanWellFounded
<1>2. \A k, m \in Nat : k < m => <<k, m>> \in R
  BY Zenon DEF OpToRel
<1> HIDE DEF R
<1>3. PICK m \in T : \A k \in T : ~(<<k, m>> \in R)
  BY <1>1, WFMin, Zenon
<1>4. \A k \in T : k \in Nat /\ m \in Nat /\ ~(k < m)
  BY <1>2, <1>3, Zenon
<1> QED BY <1>4

\* What holds at 0 and is passed from each joint to the next holds at all.
LEMMA AlongChain ==
  ASSUME NEW N \in Nat, NEW S, 0 \in S, \A n \in 1 .. N : n - 1 \in S => n \in S
  PROVE  \A n \in 0 .. N : n \in S
<1> DEFINE Bad == {n \in 0 .. N : n \notin S}
<1> SUFFICES ASSUME Bad # {} PROVE FALSE
  OBVIOUS
<1>1. Bad \subseteq Nat
  OBVIOUS
<1>2. PICK m \in Bad : \A k \in Bad : m <= k
  <2> HIDE DEF Bad
  <2> QED BY <1>1, FramesLeast
<1>3. m \in 1 .. N /\ m \notin S
  OBVIOUS
<1>4. m - 1 \in 0 .. N /\ ~(m <= m - 1)
  BY <1>3
<1>5. m - 1 \notin Bad
  BY <1>2, <1>4
<1>6. m - 1 \in S
  BY <1>4, <1>5
<1> QED BY <1>3, <1>6

\* A recursion over 0 .. N defines a function.
LEMMA Recursion ==
  ASSUME NEW M, NEW z \in M, NEW N \in Nat, NEW g \in [1 .. N -> [M -> M]]
  PROVE  \E T \in [0 .. N -> M] :
           T[0] = z /\ \A n \in 1 .. N : T[n] = g[n][T[n - 1]]
<1> DEFINE Good(n) == \E T \in [0 .. n -> M] :
                         T[0] = z /\ \A k \in 1 .. n : T[k] = g[k][T[k - 1]]
           S == {n \in 0 .. N : Good(n)}
<1>1. 0 \in S
  <2> DEFINE T == [k \in 0 .. 0 |-> z]
  <2>1. T \in [0 .. 0 -> M] /\ T[0] = z /\ \A k \in 1 .. 0 : T[k] = g[k][T[k - 1]]
    OBVIOUS
  <2> HIDE DEF T
  <2>2. Good(0)
    BY <2>1
  <2> QED BY <2>2
<1>2. ASSUME NEW m \in 1 .. N, m - 1 \in S PROVE m \in S
  <2>1. PICK T \in [0 .. m - 1 -> M] :
          T[0] = z /\ \A k \in 1 .. m - 1 : T[k] = g[k][T[k - 1]]
    BY <1>2
  <2> DEFINE U == [k \in 0 .. m |-> IF k = m THEN g[m][T[m - 1]] ELSE T[k]]
  <2>2. g[m][T[m - 1]] \in M
    <3>1. m - 1 \in 0 .. m - 1
      OBVIOUS
    <3>2. T[m - 1] \in M
      BY <2>1, <3>1
    <3> QED BY <3>2
  <2>3. U \in [0 .. m -> M]
    <3>1. ASSUME NEW k \in 0 .. m, k # m PROVE T[k] \in M
      <4>1. k \in 0 .. m - 1
        BY <3>1
      <4> QED BY <2>1, <4>1
    <3> QED BY <2>2, <3>1
  <2>4. U[0] = z
    BY <2>1
  <2>5. ASSUME NEW k \in 1 .. m PROVE U[k] = g[k][U[k - 1]]
    <3>1. k \in 0 .. m /\ k - 1 \in 0 .. m /\ k - 1 # m
      OBVIOUS
    <3>2. U[k - 1] = T[k - 1]
      BY <3>1
    <3>3. CASE k = m
      BY <3>1, <3>2, <3>3
    <3>4. CASE k # m
      <4>1. k \in 1 .. m - 1
        BY <3>4
      <4>2. U[k] = T[k]
        BY <3>1, <3>4
      <4> QED BY <2>1, <3>2, <4>1, <4>2
    <3> QED BY <3>3, <3>4
  <2> HIDE DEF U
  <2>6. Good(m)
    BY <2>3, <2>4, <2>5
  <2> QED BY <2>6
<1>3. N \in S
  <2> HIDE DEF S
  <2>1. \A n \in 0 .. N : n \in S
    BY <1>1, <1>2, AlongChain
  <2> QED BY <2>1
<1> QED BY <1>3

\* The page's frames, from one joint to the next.
LEMMA FramesPage ==
  ASSUME ki_joints \in Seq(Frames!Joint)
  PROVE  /\ Frames!forwardKinematics \in [0 .. Len(ki_joints) -> Matrix]
         /\ Frames!forwardKinematics[0] = Frames!identity
         /\ \A n \in 1 .. Len(ki_joints) :
              Frames!forwardKinematics[n] = PageStep(Frames!forwardKinematics[n - 1], ki_joints[n])
<1> DEFINE N == Len(ki_joints)
           g == [n \in 1 .. N |-> [T \in Matrix |-> PageStep(T, ki_joints[n])]]
<1>1. N \in Nat /\ \A n \in 1 .. N : ki_joints[n] \in Frames!Joint
  OBVIOUS
<1> HIDE DEF N
<1>2. ASSUME NEW n \in 1 .. N, NEW T \in Matrix PROVE PageStep(T, ki_joints[n]) \in Matrix
  BY <1>1, FramesStep
<1>3. g \in [1 .. N -> [Matrix -> Matrix]]
  BY <1>2
<1>4. ASSUME NEW n \in 1 .. N, NEW M \in Matrix PROVE g[n][M] = PageStep(M, ki_joints[n])
  OBVIOUS
<1> HIDE DEF g
<1>5. PICK U \in [0 .. N -> Matrix] : U[0] = Frames!identity /\ \A n \in 1 .. N : U[n] = g[n][U[n - 1]]
  <2>1. Frames!identity \in Matrix
    BY FramesMatrices
  <2>2. \A z \in Matrix, h \in [1 .. N -> [Matrix -> Matrix]] :
          \E T \in [0 .. N -> Matrix] : T[0] = z /\ \A n \in 1 .. N : T[n] = h[n][T[n - 1]]
    <3> TAKE z \in Matrix, h \in [1 .. N -> [Matrix -> Matrix]]
    <3>1. N \in Nat
      BY <1>1
    <3> QED BY <3>1, Recursion
  <2> QED BY <1>3, <2>1, <2>2
<1>6. U = [n \in 0 .. N |-> IF n = 0 THEN Frames!identity ELSE PageStep(U[n - 1], ki_joints[n])]
  <2>1. ASSUME NEW n \in 1 .. N PROVE U[n] = PageStep(U[n - 1], ki_joints[n])
    <3>1. n - 1 \in 0 .. N
      BY <1>1
    <3>2. U[n - 1] \in Matrix
      BY <1>5, <3>1
    <3> QED BY <1>4, <1>5, <3>2
  <2>2. \A n \in 0 .. N : n # 0 => n \in 1 .. N
    BY <1>1
  <2> QED BY <1>5, <2>1, <2>2
<1> DEFINE T == Frames!forwardKinematics
<1>7. T = [n \in 0 .. N |-> IF n = 0 THEN Frames!identity ELSE PageStep(T[n - 1], ki_joints[n])]
  BY <1>6 DEF Frames!forwardKinematics, PageStep, N
<1> HIDE DEF T
<1>8. T[0] = Frames!identity /\ \A n \in 1 .. N : T[n] = PageStep(T[n - 1], ki_joints[n])
  BY <1>1, <1>7
<1>9. \A n \in 0 .. N : T[n] \in Matrix
  <2> DEFINE S == {n \in 0 .. N : T[n] \in Matrix}
  <2>1. 0 \in S
    BY <1>1, <1>8, FramesMatrices
  <2>2. ASSUME NEW n \in 1 .. N, n - 1 \in S PROVE n \in S
    <3>1. T[n - 1] \in Matrix
      BY <2>2
    <3>2. PageStep(T[n - 1], ki_joints[n]) \in Matrix
      BY <1>1, <3>1, FramesStep
    <3> QED BY <1>8, <3>2
  <2>3. \A n \in 0 .. N : n \in S
    <3> HIDE DEF S
    <3> QED BY <1>1, <2>1, <2>2, AlongChain
  <2> QED BY <2>3
<1>10. T \in [0 .. N -> Matrix]
  BY <1>7, <1>9
<1> QED BY <1>8, <1>10 DEF N, T

\* The scene's frames are the page's, one joint later.
LEMMA FramesScene ==
  ASSUME ki_joints \in Seq(Frames!Joint)
  PROVE  \A n \in 1 .. Len(ki_joints) :
           Frames!frames[n] = SceneStep(Frames!forwardKinematics[n - 1], ki_joints[n])
<1> DEFINE N == Len(ki_joints)
           T == Frames!forwardKinematics
           F == Frames!frames
           G == [n \in 1 .. N |-> SceneStep(T[n - 1], ki_joints[n])]
           Before(H, n) == IF n = 1 THEN Frames!identity ELSE H[n - 1].next
<1>1. N \in Nat /\ \A n \in 1 .. N : ki_joints[n] \in Frames!Joint
  OBVIOUS
<1>2. /\ T \in [0 .. N -> Matrix] /\ T[0] = Frames!identity
      /\ \A n \in 1 .. N : T[n] = PageStep(T[n - 1], ki_joints[n])
  BY FramesPage
<1> HIDE DEF N, T
<1>3. ASSUME NEW n \in 1 .. N
      PROVE  /\ n - 1 \in 0 .. N /\ T[n - 1] \in Matrix
             /\ SceneStep(T[n - 1], ki_joints[n]).next = T[n]
  <2>1. n - 1 \in 0 .. N
    BY <1>1
  <2>2. T[n - 1] \in Matrix
    BY <1>2, <2>1
  <2> QED BY <1>1, <1>2, <2>1, <2>2, FramesStep
<1>4. G = [n \in 1 .. N |-> SceneStep(Before(G, n), ki_joints[n])]
  <2>1. ASSUME NEW n \in 1 .. N PROVE Before(G, n) = T[n - 1]
    <3>1. CASE n = 1
      BY <1>2, <3>1
    <3>2. CASE n # 1
      <4>1. n - 1 \in 1 .. N
        BY <1>1, <3>2
      <4>2. G[n - 1].next = T[n - 1]
        BY <1>3, <4>1
      <4> HIDE DEF G
      <4> QED BY <3>2, <4>2
    <3> QED BY <3>1, <3>2
  <2> QED BY <2>1
<1>5. F = [n \in 1 .. N |-> SceneStep(Before(F, n), ki_joints[n])]
  <2> DEFINE Rz(j) == Frames!rotZ(j.theta_offset + (IF j.type = "revolute" THEN j.q ELSE 0))
             Taxis(j) == Frames!trans(
                IF j.type = "prismatic" /\ j.axis = "x" THEN j.a + j.q ELSE 0,
                IF j.type = "prismatic" /\ j.axis = "y" THEN j.q ELSE 0,
                IF j.type = "revolute" THEN j.d ELSE IF j.axis = "z" THEN j.d + j.q ELSE 0)
             tip(j) == Frames!trans(IF j.type = "prismatic" /\ j.axis = "x" THEN 0 ELSE j.a, 0, 0)
             Drawn(H, n) ==
               LET pre == IF n = 1 THEN Frames!identity ELSE H[n - 1].next
                   link == Frames!mul(Frames!mul(pre, Rz(ki_joints[n])), Taxis(ki_joints[n]))
               IN [link |-> link, tip |-> Frames!mul(link, tip(ki_joints[n])),
                   next |-> Frames!mul(Frames!mul(link, tip(ki_joints[n])),
                                       Frames!rotX(ki_joints[n].alpha))]
  <2>1. ASSUME NEW H, NEW n PROVE SceneStep(Before(H, n), ki_joints[n]) = Drawn(H, n)
    BY Zenon DEF SceneStep, SceneLink, SceneTip, JointTurn
  <2>2. F = CHOOSE H : H = [n \in 1 .. N |-> Drawn(H, n)]
    BY DEF Frames!frames, N
  <2> HIDE DEF F, G, Before, Drawn
  <2>3. G = [n \in 1 .. N |-> Drawn(G, n)]
    BY <1>4, <2>1
  <2>4. F = [n \in 1 .. N |-> Drawn(F, n)]
    BY <2>2, <2>3
  <2> QED BY <2>1, <2>4
<1> HIDE DEF F, G
<1>6. \A n \in 1 .. N : F[n] = SceneStep(Before(F, n), ki_joints[n])
  BY <1>5
<1> DEFINE S == {n \in 0 .. N : n = 0 \/ F[n] = SceneStep(T[n - 1], ki_joints[n])}
<1>7. 0 \in S
  BY <1>1
<1>8. ASSUME NEW n \in 1 .. N, n - 1 \in S PROVE n \in S
  <2>1. Before(F, n) = T[n - 1]
    <3>1. CASE n = 1
      BY <1>2, <3>1
    <3>2. CASE n # 1
      <4>1. n - 1 \in 1 .. N
        BY <1>1, <3>2
      <4>2. F[n - 1] = SceneStep(T[n - 1 - 1], ki_joints[n - 1])
        BY <1>8, <4>1
      <4>3. F[n - 1].next = T[n - 1]
        BY <1>3, <4>1, <4>2
      <4> QED BY <3>2, <4>3
    <3> QED BY <3>1, <3>2
  <2>2. F[n] = SceneStep(T[n - 1], ki_joints[n])
    BY <1>6, <2>1
  <2> QED BY <2>2
<1>9. \A n \in 0 .. N : n \in S
  <2> HIDE DEF S
  <2> QED BY <1>1, <1>7, <1>8, AlongChain
<1>10. \A n \in 1 .. N : F[n] = SceneStep(T[n - 1], ki_joints[n])
  BY <1>9
<1> QED BY <1>10 DEF F, T, N

\* The Brain's frames of the chain without those offsets are the page's.
LEMMA FramesBrain ==
  ASSUME ki_joints \in Seq(Frames!Joint)
  PROVE  Frames!forwardKinematics = Frames!joint_transforms(Frames!DrawnChain)
<1> DEFINE N == Len(ki_joints)
           C == Frames!DrawnChain
           T == Frames!forwardKinematics
           B == Frames!joint_transforms(C)
<1>1. /\ N \in Nat /\ \A n \in 1 .. N : ki_joints[n] \in Frames!Joint
      /\ Len(C) = N /\ \A n \in 1 .. N : C[n] = Frames!Drawn(ki_joints[n])
  BY DEF Frames!DrawnChain
<1>2. /\ T \in [0 .. N -> Matrix] /\ T[0] = Frames!identity
      /\ \A n \in 1 .. N : T[n] = PageStep(T[n - 1], ki_joints[n])
  BY FramesPage
<1> HIDE DEF N, T, C
<1>3. ASSUME NEW n \in 1 .. N PROVE T[n] = BrainStep(T[n - 1], C[n])
  <2>1. n - 1 \in 0 .. N
    BY <1>1
  <2>2. T[n - 1] \in Matrix
    BY <1>2, <2>1
  <2>3. BrainStep(T[n - 1], Frames!Drawn(ki_joints[n])) = PageStep(T[n - 1], ki_joints[n])
    BY <1>1, <2>2, FramesStep
  <2>4. C[n] = Frames!Drawn(ki_joints[n]) /\ T[n] = PageStep(T[n - 1], ki_joints[n])
    BY <1>1, <1>2
  <2> QED BY <2>3, <2>4
<1>4. T = [n \in 0 .. N |-> IF n = 0 THEN Frames!identity ELSE BrainStep(T[n - 1], C[n])]
  <2>1. \A n \in 0 .. N : n # 0 => n \in 1 .. N
    BY <1>1
  <2> QED BY <1>2, <1>3, <2>1
<1>5. B = [n \in 0 .. N |-> IF n = 0 THEN Frames!identity ELSE BrainStep(B[n - 1], C[n])]
  BY <1>1, <1>4 DEF Frames!joint_transforms, BrainStep, BrainCarry, JointTurn
<1> HIDE DEF B
<1> DEFINE S == {n \in 0 .. N : B[n] = T[n]}
<1>6. 0 \in S
  BY <1>1, <1>2, <1>5
<1>7. ASSUME NEW n \in 1 .. N, n - 1 \in S PROVE n \in S
  <2>1. B[n - 1] = T[n - 1] /\ n \in 0 .. N /\ n # 0
    BY <1>7
  <2>2. B[n] = BrainStep(B[n - 1], C[n])
    BY <1>5, <2>1
  <2> QED BY <1>3, <2>1, <2>2
<1>8. \A n \in 0 .. N : n \in S
  <2> HIDE DEF S
  <2> QED BY <1>1, <1>6, <1>7, AlongChain
<1>9. \A n \in 0 .. N : B[n] = T[n]
  BY <1>8
<1>10. B = T
  BY <1>2, <1>5, <1>9
<1> QED BY <1>10 DEF B, T, C

\* The three copies agree on every chain of joints.
LEMMA FramesCopies ==
  ASSUME ki_joints \in Seq(Frames!Joint) PROVE Frames!ThreeCopiesAgree
<1> DEFINE N == Len(ki_joints)
           T == Frames!forwardKinematics
<1>1. N \in Nat /\ DOMAIN ki_joints = 1 .. N /\ \A n \in 1 .. N : ki_joints[n] \in Frames!Joint
  OBVIOUS
<1>2. /\ T \in [0 .. N -> Matrix]
      /\ \A n \in 1 .. N : T[n] = PageStep(T[n - 1], ki_joints[n])
  BY FramesPage
<1>3. \A n \in 1 .. N : Frames!frames[n] = SceneStep(T[n - 1], ki_joints[n])
  BY FramesScene
<1>4. T = Frames!joint_transforms(Frames!DrawnChain)
  BY FramesBrain
<1> HIDE DEF N, T
<1>5. ASSUME NEW n \in 1 .. N
      PROVE  /\ Frames!frames[n].next = T[n]
             /\ Frames!Position(Frames!frames[n].tip) = Frames!Position(T[n])
  <2>1. n - 1 \in 0 .. N
    BY <1>1
  <2>2. T[n - 1] \in Matrix
    BY <1>2, <2>1
  <2>3. /\ SceneStep(T[n - 1], ki_joints[n]).next = PageStep(T[n - 1], ki_joints[n])
        /\ Frames!Position(SceneStep(T[n - 1], ki_joints[n]).tip)
             = Frames!Position(PageStep(T[n - 1], ki_joints[n]))
    BY <1>1, <2>2, FramesStep
  <2> QED BY <1>2, <1>3, <2>3
<1> QED BY <1>1, <1>4, <1>5 DEF Frames!ThreeCopiesAgree, T

-----------------------------------------------------------------------------
(* Rotations by quarter turns. *)

\* The 24 rotations by quarter turns: one entry of each row and each column is
\* 1 or -1, and the third is such that the determinant is 1.
Same(s, t) == IF s = t THEN 1 ELSE -1
Rotation(a, b, c, d, e, f, g, h, i) ==
  \/ a \in {-1, 1} /\ e \in {-1, 1} /\ i = Same(a, e)
     /\ b = 0 /\ c = 0 /\ d = 0 /\ f = 0 /\ g = 0 /\ h = 0
  \/ b \in {-1, 1} /\ f \in {-1, 1} /\ g = Same(b, f)
     /\ a = 0 /\ c = 0 /\ d = 0 /\ e = 0 /\ h = 0 /\ i = 0
  \/ c \in {-1, 1} /\ d \in {-1, 1} /\ h = Same(c, d)
     /\ a = 0 /\ b = 0 /\ e = 0 /\ f = 0 /\ g = 0 /\ i = 0
  \/ a \in {-1, 1} /\ f \in {-1, 1} /\ h = 0 - Same(a, f)
     /\ b = 0 /\ c = 0 /\ d = 0 /\ e = 0 /\ g = 0 /\ i = 0
  \/ b \in {-1, 1} /\ d \in {-1, 1} /\ i = 0 - Same(b, d)
     /\ a = 0 /\ c = 0 /\ e = 0 /\ f = 0 /\ g = 0 /\ h = 0
  \/ c \in {-1, 1} /\ e \in {-1, 1} /\ g = 0 - Same(c, e)
     /\ a = 0 /\ b = 0 /\ d = 0 /\ f = 0 /\ h = 0 /\ i = 0

\* Turned about one of its own axes a rotation is a rotation.
LEMMA RotationTurns ==
  ASSUME NEW a \in Int, NEW b \in Int, NEW c \in Int, NEW d \in Int, NEW e \in Int,
         NEW f \in Int, NEW g \in Int, NEW h \in Int, NEW i \in Int,
         Rotation(a, b, c, d, e, f, g, h, i)
  PROVE  /\ Rotation(a, c, -b, d, f, -e, g, i, -h)
         /\ Rotation(a, -b, -c, d, -e, -f, g, -h, -i)
         /\ Rotation(a, -c, b, d, -f, e, g, -i, h)
         /\ Rotation(-c, b, a, -f, e, d, -i, h, g)
         /\ Rotation(-a, b, -c, -d, e, -f, -g, h, -i)
         /\ Rotation(c, b, -a, f, e, -d, i, h, -g)
         /\ Rotation(b, -a, c, e, -d, f, h, -g, i)
         /\ Rotation(-a, -b, c, -d, -e, f, -g, -h, i)
         /\ Rotation(-b, a, c, -e, d, f, -h, g, i)
<1> USE DEF Rotation, Same
<1>1. Rotation(a, c, -b, d, f, -e, g, i, -h)
  OBVIOUS
<1>2. Rotation(a, -b, -c, d, -e, -f, g, -h, -i)
  OBVIOUS
<1>3. Rotation(a, -c, b, d, -f, e, g, -i, h)
  OBVIOUS
<1>4. Rotation(-c, b, a, -f, e, d, -i, h, g)
  OBVIOUS
<1>5. Rotation(-a, b, -c, -d, e, -f, -g, h, -i)
  OBVIOUS
<1>6. Rotation(c, b, -a, f, e, -d, i, h, -g)
  OBVIOUS
<1>7. Rotation(b, -a, c, e, -d, f, h, -g, i)
  OBVIOUS
<1>8. Rotation(-a, -b, c, -d, -e, f, -g, -h, i)
  OBVIOUS
<1>9. Rotation(-b, a, c, -e, d, f, -h, g, i)
  OBVIOUS
<1> HIDE DEF Rotation, Same
<1> QED BY <1>1, <1>2, <1>3, <1>4, <1>5, <1>6, <1>7, <1>8, <1>9

\* And so it is turned about one of the world's.
LEMMA RotationTurnsRows ==
  ASSUME NEW a \in Int, NEW b \in Int, NEW c \in Int, NEW d \in Int, NEW e \in Int,
         NEW f \in Int, NEW g \in Int, NEW h \in Int, NEW i \in Int,
         Rotation(a, b, c, d, e, f, g, h, i)
  PROVE  /\ Rotation(a, b, c, -g, -h, -i, d, e, f)
         /\ Rotation(a, b, c, g, h, i, -d, -e, -f)
         /\ Rotation(g, h, i, d, e, f, -a, -b, -c)
         /\ Rotation(-g, -h, -i, d, e, f, a, b, c)
         /\ Rotation(-d, -e, -f, a, b, c, g, h, i)
         /\ Rotation(d, e, f, -a, -b, -c, g, h, i)
<1> USE DEF Rotation, Same
<1>1. Rotation(a, b, c, -g, -h, -i, d, e, f)
  OBVIOUS
<1>2. Rotation(a, b, c, g, h, i, -d, -e, -f)
  OBVIOUS
<1>3. Rotation(g, h, i, d, e, f, -a, -b, -c)
  OBVIOUS
<1>4. Rotation(-g, -h, -i, d, e, f, a, b, c)
  OBVIOUS
<1>5. Rotation(-d, -e, -f, a, b, c, g, h, i)
  OBVIOUS
<1>6. Rotation(d, e, f, -a, -b, -c, g, h, i)
  OBVIOUS
<1> HIDE DEF Rotation, Same
<1> QED BY <1>1, <1>2, <1>3, <1>4, <1>5, <1>6

\* These entries, times n, are those of the rotation of <<x, y, z, w>>.
RotatesBy(x, y, z, w, a, b, c, d, e, f, g, h, i) ==
  LET n == x*x + y*y + z*z + w*w
  IN /\ n > 0
     /\ w*w + x*x - y*y - z*z = n * a /\ 2*(x*y - w*z) = n * b /\ 2*(x*z + w*y) = n * c
     /\ 2*(x*y + w*z) = n * d /\ w*w - x*x + y*y - z*z = n * e /\ 2*(y*z - w*x) = n * f
     /\ 2*(x*z - w*y) = n * g /\ 2*(y*z + w*x) = n * h /\ w*w - x*x - y*y + z*z = n * i

\* The quaternion of Shepperd's method for nine entries.
Branch(x, y, z, w, a, b, c, d, e, f, g, h, i) ==
  IF a + e + i > 0 THEN x = h - f /\ y = c - g /\ z = d - b /\ w = a + e + i + 1
  ELSE IF a > e /\ a > i THEN x = 1 + a - e - i /\ y = b + d /\ z = c + g /\ w = h - f
  ELSE IF e > i THEN x = b + d /\ y = 1 + e - a - i /\ z = f + h /\ w = c - g
  ELSE x = c + g /\ y = f + h /\ z = 1 + i - a - e /\ w = d - b

\* In each of the 24 rotations that quaternion rotates alike.
LEMMA Shepperd ==
  ASSUME NEW a \in Int, NEW b \in Int, NEW c \in Int, NEW d \in Int, NEW e \in Int,
         NEW f \in Int, NEW g \in Int, NEW h \in Int, NEW i \in Int,
         NEW x \in Int, NEW y \in Int, NEW z \in Int, NEW w \in Int,
         Rotation(a, b, c, d, e, f, g, h, i),
         Branch(x, y, z, w, a, b, c, d, e, f, g, h, i)
  PROVE  RotatesBy(x, y, z, w, a, b, c, d, e, f, g, h, i)
<1>1. CASE a # 0 /\ e # 0
  <2>1. CASE a = 1 /\ e = 1
    BY <1>1, <2>1 DEF Rotation, Same, Branch, RotatesBy
  <2>2. CASE a = 1 /\ e = -1
    BY <1>1, <2>2 DEF Rotation, Same, Branch, RotatesBy
  <2>3. CASE a = -1 /\ e = 1
    BY <1>1, <2>3 DEF Rotation, Same, Branch, RotatesBy
  <2>4. CASE a = -1 /\ e = -1
    BY <1>1, <2>4 DEF Rotation, Same, Branch, RotatesBy
  <2> QED BY <1>1, <2>1, <2>2, <2>3, <2>4 DEF Rotation
<1>2. CASE b # 0 /\ f # 0
  <2>1. CASE b = 1 /\ f = 1
    BY <1>2, <2>1 DEF Rotation, Same, Branch, RotatesBy
  <2>2. CASE b = 1 /\ f = -1
    BY <1>2, <2>2 DEF Rotation, Same, Branch, RotatesBy
  <2>3. CASE b = -1 /\ f = 1
    BY <1>2, <2>3 DEF Rotation, Same, Branch, RotatesBy
  <2>4. CASE b = -1 /\ f = -1
    BY <1>2, <2>4 DEF Rotation, Same, Branch, RotatesBy
  <2> QED BY <1>2, <2>1, <2>2, <2>3, <2>4 DEF Rotation
<1>3. CASE c # 0 /\ d # 0
  <2>1. CASE c = 1 /\ d = 1
    BY <1>3, <2>1 DEF Rotation, Same, Branch, RotatesBy
  <2>2. CASE c = 1 /\ d = -1
    BY <1>3, <2>2 DEF Rotation, Same, Branch, RotatesBy
  <2>3. CASE c = -1 /\ d = 1
    BY <1>3, <2>3 DEF Rotation, Same, Branch, RotatesBy
  <2>4. CASE c = -1 /\ d = -1
    BY <1>3, <2>4 DEF Rotation, Same, Branch, RotatesBy
  <2> QED BY <1>3, <2>1, <2>2, <2>3, <2>4 DEF Rotation
<1>4. CASE a # 0 /\ f # 0
  <2>1. CASE a = 1 /\ f = 1
    BY <1>4, <2>1 DEF Rotation, Same, Branch, RotatesBy
  <2>2. CASE a = 1 /\ f = -1
    BY <1>4, <2>2 DEF Rotation, Same, Branch, RotatesBy
  <2>3. CASE a = -1 /\ f = 1
    BY <1>4, <2>3 DEF Rotation, Same, Branch, RotatesBy
  <2>4. CASE a = -1 /\ f = -1
    BY <1>4, <2>4 DEF Rotation, Same, Branch, RotatesBy
  <2> QED BY <1>4, <2>1, <2>2, <2>3, <2>4 DEF Rotation
<1>5. CASE b # 0 /\ d # 0
  <2>1. CASE b = 1 /\ d = 1
    BY <1>5, <2>1 DEF Rotation, Same, Branch, RotatesBy
  <2>2. CASE b = 1 /\ d = -1
    BY <1>5, <2>2 DEF Rotation, Same, Branch, RotatesBy
  <2>3. CASE b = -1 /\ d = 1
    BY <1>5, <2>3 DEF Rotation, Same, Branch, RotatesBy
  <2>4. CASE b = -1 /\ d = -1
    BY <1>5, <2>4 DEF Rotation, Same, Branch, RotatesBy
  <2> QED BY <1>5, <2>1, <2>2, <2>3, <2>4 DEF Rotation
<1>6. CASE c # 0 /\ e # 0
  <2>1. CASE c = 1 /\ e = 1
    BY <1>6, <2>1 DEF Rotation, Same, Branch, RotatesBy
  <2>2. CASE c = 1 /\ e = -1
    BY <1>6, <2>2 DEF Rotation, Same, Branch, RotatesBy
  <2>3. CASE c = -1 /\ e = 1
    BY <1>6, <2>3 DEF Rotation, Same, Branch, RotatesBy
  <2>4. CASE c = -1 /\ e = -1
    BY <1>6, <2>4 DEF Rotation, Same, Branch, RotatesBy
  <2> QED BY <1>6, <2>1, <2>2, <2>3, <2>4 DEF Rotation
<1> QED BY <1>1, <1>2, <1>3, <1>4, <1>5, <1>6 DEF Rotation

\* A matrix whose first three columns are such a rotation.
Turned(T) == Rotation(T[1][1], T[1][2], T[1][3], T[2][1], T[2][2], T[2][3], T[3][1], T[3][2], T[3][3])

\* What it is that a quaternion rotates as a matrix does, entry by entry.
LEMMA FramesRotates ==
  ASSUME NEW q, NEW M, q[1] \in Int, q[2] \in Int, q[3] \in Int, q[4] \in Int,
         RotatesBy(q[1], q[2], q[3], q[4], M[1][1], M[1][2], M[1][3],
                   M[2][1], M[2][2], M[2][3], M[3][1], M[3][2], M[3][3])
  PROVE  Frames!Rotates(q, M)
<1> DEFINE x == q[1]  y == q[2]  z == q[3]  w == q[4]
           n == x*x + y*y + z*z + w*w
           R == <<<<w*w + x*x - y*y - z*z, 2*(x*y - w*z), 2*(x*z + w*y)>>,
                  <<2*(x*y + w*z), w*w - x*x + y*y - z*z, 2*(y*z - w*x)>>,
                  <<2*(x*z - w*y), 2*(y*z + w*x), w*w - x*x - y*y + z*z>>>>
<1>1. /\ R[1][1] = n * M[1][1] /\ R[1][2] = n * M[1][2] /\ R[1][3] = n * M[1][3]
      /\ R[2][1] = n * M[2][1] /\ R[2][2] = n * M[2][2] /\ R[2][3] = n * M[2][3]
      /\ R[3][1] = n * M[3][1] /\ R[3][2] = n * M[3][2] /\ R[3][3] = n * M[3][3]
      /\ n > 0
  BY DEF RotatesBy
<1> HIDE DEF R, n
<1>2. \A i, k \in 1 .. 3 : R[i][k] = n * M[i][k]
  BY <1>1
<1> QED BY <1>1, <1>2 DEF Frames!Rotates, R, n

\* A turn about the last axis or the first, and a translation, keep a rotation.
LEMMA FramesTurned ==
  ASSUME NEW A \in Matrix, Turned(A), NEW n \in Int, NEW x \in Int, NEW y \in Int, NEW z \in Int
  PROVE  /\ Turned(Frames!mul(A, Frames!rotZ(n)))
         /\ Turned(Frames!mul(A, Frames!rotX(n)))
         /\ Turned(Frames!mul(A, Frames!trans(x, y, z)))
<1> DEFINE c == Frames!Cos(n)
           s == Frames!Sin(n)
<1>1. c \in Int /\ s \in Int
  BY FramesQuarter
<1>2. \A i \in 1 .. 3 : A[i][1] \in Int /\ A[i][2] \in Int /\ A[i][3] \in Int
  BY DEF Matrix
<1>10. /\ Frames!mul(A, Frames!rotZ(n)) = Mul(A, Frames!rotZ(n))
       /\ Frames!mul(A, Frames!rotX(n)) = Mul(A, Frames!rotX(n))
  BY FramesMul, FramesMatrices
<1>3. (c = 1 /\ s = 0) \/ (c = 0 /\ s = 1) \/ (c = -1 /\ s = 0) \/ (c = 0 /\ s = -1)
  BY FramesQuarter
<1>4. ASSUME NEW i \in 1 .. 3
      PROVE  LET Z == Frames!mul(A, Frames!rotZ(n))
             IN /\ Z[i][1] = A[i][1] * c + A[i][2] * s
                /\ Z[i][2] = A[i][2] * c - A[i][1] * s
                /\ Z[i][3] = A[i][3]
  <2> HIDE DEF c, s
  <2> QED BY <1>1, <1>2, <1>10 DEF Mul, Frames!rotZ, c, s
<1>5. ASSUME NEW i \in 1 .. 3
      PROVE  LET X == Frames!mul(A, Frames!rotX(n))
             IN /\ X[i][1] = A[i][1]
                /\ X[i][2] = A[i][2] * c + A[i][3] * s
                /\ X[i][3] = A[i][3] * c - A[i][2] * s
  BY <1>1, <1>2, <1>10 DEF Mul, Frames!rotX
<1> HIDE DEF c, s
<1>6. /\ Rotation(A[1][2], -A[1][1], A[1][3], A[2][2], -A[2][1], A[2][3],
                  A[3][2], -A[3][1], A[3][3])
      /\ Rotation(-A[1][1], -A[1][2], A[1][3], -A[2][1], -A[2][2], A[2][3],
                  -A[3][1], -A[3][2], A[3][3])
      /\ Rotation(-A[1][2], A[1][1], A[1][3], -A[2][2], A[2][1], A[2][3],
                  -A[3][2], A[3][1], A[3][3])
      /\ Rotation(A[1][1], A[1][3], -A[1][2], A[2][1], A[2][3], -A[2][2],
                  A[3][1], A[3][3], -A[3][2])
      /\ Rotation(A[1][1], -A[1][2], -A[1][3], A[2][1], -A[2][2], -A[2][3],
                  A[3][1], -A[3][2], -A[3][3])
      /\ Rotation(A[1][1], -A[1][3], A[1][2], A[2][1], -A[2][3], A[2][2],
                  A[3][1], -A[3][3], A[3][2])
  <2> DEFINE e1 == A[1][1]  e2 == A[1][2]  e3 == A[1][3]
             e4 == A[2][1]  e5 == A[2][2]  e6 == A[2][3]
             e7 == A[3][1]  e8 == A[3][2]  e9 == A[3][3]
  <2>1. /\ e1 \in Int /\ e2 \in Int /\ e3 \in Int /\ e4 \in Int /\ e5 \in Int /\ e6 \in Int
        /\ e7 \in Int /\ e8 \in Int /\ e9 \in Int
    BY <1>2
  <2>2. Rotation(e1, e2, e3, e4, e5, e6, e7, e8, e9)
    BY DEF Turned
  <2> HIDE DEF e1, e2, e3, e4, e5, e6, e7, e8, e9
  <2>3. /\ Rotation(e2, -e1, e3, e5, -e4, e6, e8, -e7, e9)
        /\ Rotation(-e1, -e2, e3, -e4, -e5, e6, -e7, -e8, e9)
        /\ Rotation(-e2, e1, e3, -e5, e4, e6, -e8, e7, e9)
        /\ Rotation(e1, e3, -e2, e4, e6, -e5, e7, e9, -e8)
        /\ Rotation(e1, -e2, -e3, e4, -e5, -e6, e7, -e8, -e9)
        /\ Rotation(e1, -e3, e2, e4, -e6, e5, e7, -e9, e8)
    BY <2>1, <2>2, RotationTurns, Zenon
  <2> QED BY <2>3, Zenon DEF e1, e2, e3, e4, e5, e6, e7, e8, e9
<1>7. Turned(Frames!mul(A, Frames!rotZ(n)))
  <2> DEFINE M == Frames!mul(A, Frames!rotZ(n))
  <2>0. \A i \in 1 .. 3 : M[i][1] = A[i][1] * c + A[i][2] * s /\ M[i][2] = A[i][2] * c - A[i][1] * s /\ M[i][3] = A[i][3]
    BY <1>4
  <2> HIDE DEF M
  <2>1. CASE c = 1 /\ s = 0
    <3>1. \A i, k \in 1 .. 3 : M[i][k] = A[i][k]
      BY <1>2, <2>0, <2>1
    <3> QED BY <3>1 DEF Turned, M
  <2>2. CASE c = 0 /\ s = 1
    <3>1. \A i \in 1 .. 3 : M[i][1] = A[i][2] /\ M[i][2] = -A[i][1] /\ M[i][3] = A[i][3]
      BY <1>2, <2>0, <2>2
    <3> QED BY <1>6, <3>1 DEF Turned, M
  <2>3. CASE c = -1 /\ s = 0
    <3>1. \A i \in 1 .. 3 : M[i][1] = -A[i][1] /\ M[i][2] = -A[i][2] /\ M[i][3] = A[i][3]
      BY <1>2, <2>0, <2>3
    <3> QED BY <1>6, <3>1 DEF Turned, M
  <2>4. CASE c = 0 /\ s = -1
    <3>1. \A i \in 1 .. 3 : M[i][1] = -A[i][2] /\ M[i][2] = A[i][1] /\ M[i][3] = A[i][3]
      BY <1>2, <2>0, <2>4
    <3> QED BY <1>6, <3>1 DEF Turned, M
  <2> QED BY <1>3, <2>1, <2>2, <2>3, <2>4 DEF M
<1>9. Turned(Frames!mul(A, Frames!rotX(n)))
  <2> DEFINE M == Frames!mul(A, Frames!rotX(n))
  <2>0. \A i \in 1 .. 3 : M[i][1] = A[i][1] /\ M[i][2] = A[i][2] * c + A[i][3] * s /\ M[i][3] = A[i][3] * c - A[i][2] * s
    BY <1>5
  <2> HIDE DEF M
  <2>1. CASE c = 1 /\ s = 0
    <3>1. \A i, k \in 1 .. 3 : M[i][k] = A[i][k]
      BY <1>2, <2>0, <2>1
    <3> QED BY <3>1 DEF Turned, M
  <2>2. CASE c = 0 /\ s = 1
    <3>1. \A i \in 1 .. 3 : M[i][1] = A[i][1] /\ M[i][2] = A[i][3] /\ M[i][3] = -A[i][2]
      BY <1>2, <2>0, <2>2
    <3> QED BY <1>6, <3>1 DEF Turned, M
  <2>3. CASE c = -1 /\ s = 0
    <3>1. \A i \in 1 .. 3 : M[i][1] = A[i][1] /\ M[i][2] = -A[i][2] /\ M[i][3] = -A[i][3]
      BY <1>2, <2>0, <2>3
    <3> QED BY <1>6, <3>1 DEF Turned, M
  <2>4. CASE c = 0 /\ s = -1
    <3>1. \A i \in 1 .. 3 : M[i][1] = A[i][1] /\ M[i][2] = -A[i][3] /\ M[i][3] = A[i][2]
      BY <1>2, <2>0, <2>4
    <3> QED BY <1>6, <3>1 DEF Turned, M
  <2> QED BY <1>3, <2>1, <2>2, <2>3, <2>4 DEF M
<1>8. Turned(Frames!mul(A, Frames!trans(x, y, z)))
  <2>1. Frames!mul(A, Frames!trans(x, y, z)) = Moved(A, x, y, z)
    BY FramesTranslate
  <2>2. \A i, k \in 1 .. 3 : Moved(A, x, y, z)[i][k] = A[i][k]
    BY DEF Moved
  <2> QED BY <2>1, <2>2 DEF Turned
<1> QED BY <1>7, <1>8, <1>9

\* The frame behind a joint is turned by quarter turns, as the one before it.
LEMMA FramesStepTurned ==
  ASSUME NEW T \in Matrix, Turned(T), NEW j \in Frames!Joint PROVE Turned(PageStep(T, j))
<1> DEFINE A == JointTurn(T, j)
           B == Frames!mul(A, Frames!slide(j))
           C == Frames!mul(B, Frames!trans(Frames!extraX(j), 0, 0))
<1>1. j.alpha \in Int /\ j.theta_offset + (IF j.type = "revolute" THEN j.q ELSE 0) \in Int
      /\ Frames!extraX(j) \in Int /\ 0 \in Int
  BY FramesJoint DEF Frames!extraX
<1>2. PICK x \in Int, y \in Int, z \in Int : Frames!slide(j) = Frames!trans(x, y, z)
  <2>1. /\ j.a \in Int /\ j.d \in Int /\ j.q \in Int /\ j.a + j.q \in Int /\ j.d + j.q \in Int /\ 0 \in Int
    BY FramesJoint
  <2> QED BY <2>1 DEF Frames!slide
<1>3. A \in Matrix /\ Turned(A)
  BY <1>1, FramesTurn, FramesTurned DEF JointTurn
<1>4. B \in Matrix /\ Turned(B)
  BY <1>2, <1>3, FramesMul, FramesMatrices, FramesTurned
<1>5. C \in Matrix /\ Turned(C)
  BY <1>1, <1>4, FramesMul, FramesMatrices, FramesTurned
<1>6. PageStep(T, j) = Frames!mul(C, Frames!rotX(j.alpha))
  BY DEF PageStep, Frames!linkFrame, JointTurn
<1> HIDE DEF C
<1> QED BY <1>1, <1>5, <1>6, FramesTurned

\* The quaternion made of such a frame turns as it does.
LEMMA FramesShepperd ==
  ASSUME NEW T \in Matrix, Turned(T) PROVE Frames!Rotates(Frames!matrixToQuat(T), T)
<1> DEFINE q == Frames!matrixToQuat(T)
           a == T[1][1]  b == T[1][2]  c == T[1][3]
           d == T[2][1]  e == T[2][2]  f == T[2][3]
           g == T[3][1]  h == T[3][2]  i == T[3][3]
           x == q[1]  y == q[2]  z == q[3]  w == q[4]
<1>1. /\ a \in Int /\ b \in Int /\ c \in Int /\ d \in Int /\ e \in Int /\ f \in Int
      /\ g \in Int /\ h \in Int /\ i \in Int
  BY DEF Matrix
<1>2. Rotation(a, b, c, d, e, f, g, h, i)
  BY DEF Turned
<1>3. q = IF a + e + i > 0 THEN <<h - f, c - g, d - b, a + e + i + 1>>
          ELSE IF a > e /\ a > i THEN <<1 + a - e - i, b + d, c + g, h - f>>
          ELSE IF e > i THEN <<b + d, 1 + e - a - i, f + h, c - g>>
          ELSE <<c + g, f + h, 1 + i - a - e, d - b>>
  BY Zenon DEF Frames!matrixToQuat
<1> HIDE DEF a, b, c, d, e, f, g, h, i, q
<1>4. x \in Int /\ y \in Int /\ z \in Int /\ w \in Int
  BY <1>1, <1>3
<1>5. Branch(x, y, z, w, a, b, c, d, e, f, g, h, i)
  BY <1>1, <1>3 DEF Branch
<1> HIDE DEF x, y, z, w
<1>6. RotatesBy(x, y, z, w, a, b, c, d, e, f, g, h, i)
  BY <1>1, <1>2, <1>4, <1>5, Shepperd, Zenon
<1> QED BY <1>4, <1>6, FramesRotates, Zenon DEF q, a, b, c, d, e, f, g, h, i, x, y, z, w

\* So the end effector's quaternion turns as its frame, for every chain.
LEMMA FramesQuaternion ==
  ASSUME ki_joints \in Seq(Frames!Joint) PROVE Frames!QuatTurnsAlike
<1> DEFINE N == Len(ki_joints)
           T == Frames!forwardKinematics
           S == {n \in 0 .. N : Turned(T[n])}
<1>1. N \in Nat /\ \A n \in 1 .. N : ki_joints[n] \in Frames!Joint
  OBVIOUS
<1>2. /\ T \in [0 .. N -> Matrix] /\ T[0] = Frames!identity
      /\ \A n \in 1 .. N : T[n] = PageStep(T[n - 1], ki_joints[n])
  BY FramesPage
<1> HIDE DEF N, T
<1>3. 0 \in S
  <2>1. Turned(Frames!identity)
    BY DEF Turned, Frames!identity, Rotation, Same
  <2> QED BY <1>1, <1>2, <2>1
<1>4. ASSUME NEW n \in 1 .. N, n - 1 \in S PROVE n \in S
  <2>1. n - 1 \in 0 .. N /\ Turned(T[n - 1])
    BY <1>4
  <2>2. T[n - 1] \in Matrix
    BY <1>2, <2>1
  <2> QED BY <1>1, <1>2, <2>1, <2>2, FramesStepTurned
<1>5. \A n \in 0 .. N : n \in S
  <2> HIDE DEF S
  <2> QED BY <1>1, <1>3, <1>4, AlongChain
<1>6. N \in 0 .. N
  BY <1>1
<1>7. T[N] \in Matrix /\ Turned(T[N])
  BY <1>2, <1>5, <1>6
<1> QED BY <1>7, FramesShepperd DEF Frames!QuatTurnsAlike, N, T

-----------------------------------------------------------------------------
(* The chain of joints grows by joints. *)

FramesInv == ki_joints \in Seq(Frames!Joint)

\* It holds of the first state.
LEMMA FramesFirst == ASSUME Frames!Init PROVE FramesInv
BY DEF Frames!Init, FramesInv

\* Every step keeps it.
LEMMA FramesNext == ASSUME FramesInv, [Frames!Next]_(Frames!vars) PROVE FramesInv'
<1>1. CASE Frames!AddJoint
  <2>1. PICK j \in Frames!Joint : ki_joints' = Append(ki_joints, j)
    BY <1>1 DEF Frames!AddJoint
  <2> QED BY <2>1, AppendProperties DEF FramesInv
<1>2. CASE UNCHANGED Frames!vars
  BY <1>2 DEF Frames!vars, FramesInv
<1> QED BY <1>1, <1>2 DEF Frames!Next

\* It holds what the runs check.
LEMMA FramesShows == ASSUME FramesInv PROVE Frames!ThreeCopiesAgree /\ Frames!QuatTurnsAlike
BY FramesCopies, FramesQuaternion DEF FramesInv
-----------------------------------------------------------------------------
(* Orientations (Orientation)                                              *)

\* A quaternion turned by a quarter about an axis, its own or the world's,
\* rotates as the matrix so turned does.
LEMMA RotatesTurned ==
  ASSUME NEW x \in Int, NEW y \in Int, NEW z \in Int, NEW w \in Int,
         NEW a \in Int, NEW b \in Int, NEW c \in Int, NEW d \in Int, NEW e \in Int,
         NEW f \in Int, NEW g \in Int, NEW h \in Int, NEW i \in Int,
         RotatesBy(x, y, z, w, a, b, c, d, e, f, g, h, i)
  PROVE  /\ RotatesBy(w + x, y + z, -y + z, w - x,
             a, c, -b, d, f, -e, g, i, -h)
         /\ RotatesBy(w + x, y - z, y + z, w - x,
             a, b, c, -g, -h, -i, d, e, f)
         /\ RotatesBy(w - x, -y + z, -y - z, -w - x,
             a, -c, b, d, -f, e, g, -i, h)
         /\ RotatesBy(w - x, -y - z, y - z, -w - x,
             a, b, c, g, h, i, -d, -e, -f)
         /\ RotatesBy(x - z, w + y, x + z, w - y,
             -c, b, a, -f, e, d, -i, h, g)
         /\ RotatesBy(x + z, w + y, -x + z, w - y,
             g, h, i, d, e, f, -a, -b, -c)
         /\ RotatesBy(-x - z, w - y, x - z, -w - y,
             c, b, -a, f, e, -d, i, h, -g)
         /\ RotatesBy(-x + z, w - y, -x - z, -w - y,
             -g, -h, -i, d, e, f, a, b, c)
         /\ RotatesBy(x + y, -x + y, w + z, w - z,
             b, -a, c, e, -d, f, h, -g, i)
         /\ RotatesBy(x - y, x + y, w + z, w - z,
             -d, -e, -f, a, b, c, g, h, i)
         /\ RotatesBy(-x + y, -x - y, w - z, -w - z,
             -b, a, c, -e, d, f, -h, g, i)
         /\ RotatesBy(-x - y, x - y, w - z, -w - z,
             d, e, f, -a, -b, -c, g, h, i)
<1>1. RotatesBy(w + x, y + z, -y + z, w - x,
             a, c, -b, d, f, -e, g, i, -h)
  BY DEF RotatesBy
<1>2. RotatesBy(w + x, y - z, y + z, w - x,
             a, b, c, -g, -h, -i, d, e, f)
  BY DEF RotatesBy
<1>3. RotatesBy(w - x, -y + z, -y - z, -w - x,
             a, -c, b, d, -f, e, g, -i, h)
  BY DEF RotatesBy
<1>4. RotatesBy(w - x, -y - z, y - z, -w - x,
             a, b, c, g, h, i, -d, -e, -f)
  BY DEF RotatesBy
<1>5. RotatesBy(x - z, w + y, x + z, w - y,
             -c, b, a, -f, e, d, -i, h, g)
  BY DEF RotatesBy
<1>6. RotatesBy(x + z, w + y, -x + z, w - y,
             g, h, i, d, e, f, -a, -b, -c)
  BY DEF RotatesBy
<1>7. RotatesBy(-x - z, w - y, x - z, -w - y,
             c, b, -a, f, e, -d, i, h, -g)
  BY DEF RotatesBy
<1>8. RotatesBy(-x + z, w - y, -x - z, -w - y,
             -g, -h, -i, d, e, f, a, b, c)
  BY DEF RotatesBy
<1>9. RotatesBy(x + y, -x + y, w + z, w - z,
             b, -a, c, e, -d, f, h, -g, i)
  BY DEF RotatesBy
<1>10. RotatesBy(x - y, x + y, w + z, w - z,
             -d, -e, -f, a, b, c, g, h, i)
  BY DEF RotatesBy
<1>11. RotatesBy(-x + y, -x - y, w - z, -w - z,
             -b, a, c, -e, d, f, -h, g, i)
  BY DEF RotatesBy
<1>12. RotatesBy(-x - y, x - y, w - z, -w - z,
             d, e, f, -a, -b, -c, g, h, i)
  BY DEF RotatesBy
<1> QED BY <1>1, <1>2, <1>3, <1>4, <1>5, <1>6, <1>7, <1>8, <1>9, <1>10, <1>11, <1>12

\* Cosine and sine of half a quarter turn, up to a factor, and of the turn.
Quarter(u, v, c, s) ==
  \/ u = 1 /\ v = 0 /\ c = 1 /\ s = 0
  \/ u = 1 /\ v = 1 /\ c = 0 /\ s = 1
  \/ u = 0 /\ v = 1 /\ c = -1 /\ s = 0
  \/ u = -1 /\ v = 1 /\ c = 0 /\ s = -1

\* The entries of the turns by a roll, a pitch and a yaw of these cosines and sines.
EulerEntries(rc, rs, pc, ps, yc, ys, a, b, c, d, e, f, g, h, i) ==
  /\ a = yc*pc /\ b = yc*ps*rs - ys*rc /\ c = yc*ps*rc + ys*rs
  /\ d = ys*pc /\ e = ys*ps*rs + yc*rc /\ f = ys*ps*rc - yc*rs
  /\ g = 0 - ps /\ h = pc*rs /\ i = pc*rc

\* The quaternion of these half angles rotates as the matrix of these entries.
EulerRotates(ru, rv, pu, pv, yu, yv, a, b, c, d, e, f, g, h, i) ==
  RotatesBy(rv*pu*yu - ru*pv*yv, ru*pv*yu + rv*pu*yv, ru*pu*yv - rv*pv*yu, ru*pu*yu + rv*pv*yv,
            a, b, c, d, e, f, g, h, i)

\* The quaternion of roll, pitch and yaw rotates as the three turns do.
LEMMA RotatesEuler ==
  ASSUME NEW ru \in Int, NEW rv \in Int, NEW rc \in Int, NEW rs \in Int, Quarter(ru, rv, rc, rs),
         NEW pu \in Int, NEW pv \in Int, NEW pc \in Int, NEW ps \in Int, Quarter(pu, pv, pc, ps),
         NEW yu \in Int, NEW yv \in Int, NEW yc \in Int, NEW ys \in Int, Quarter(yu, yv, yc, ys),
         NEW a \in Int, NEW b \in Int, NEW c \in Int, NEW d \in Int, NEW e \in Int,
         NEW f \in Int, NEW g \in Int, NEW h \in Int, NEW i \in Int,
         EulerEntries(rc, rs, pc, ps, yc, ys, a, b, c, d, e, f, g, h, i)
  PROVE  EulerRotates(ru, rv, pu, pv, yu, yv, a, b, c, d, e, f, g, h, i)
<1>1. CASE ru = 1 /\ rv = 0 /\ rc = 1 /\ rs = 0
  <2>1. CASE pu = 1 /\ pv = 0 /\ pc = 1 /\ ps = 0
    BY <1>1, <2>1 DEF Quarter, EulerRotates, RotatesBy, EulerEntries
  <2>2. CASE pu = 1 /\ pv = 1 /\ pc = 0 /\ ps = 1
    BY <1>1, <2>2 DEF Quarter, EulerRotates, RotatesBy, EulerEntries
  <2>3. CASE pu = 0 /\ pv = 1 /\ pc = -1 /\ ps = 0
    BY <1>1, <2>3 DEF Quarter, EulerRotates, RotatesBy, EulerEntries
  <2>4. CASE pu = -1 /\ pv = 1 /\ pc = 0 /\ ps = -1
    BY <1>1, <2>4 DEF Quarter, EulerRotates, RotatesBy, EulerEntries
  <2> QED BY <2>1, <2>2, <2>3, <2>4 DEF Quarter
<1>2. CASE ru = 1 /\ rv = 1 /\ rc = 0 /\ rs = 1
  <2>1. CASE pu = 1 /\ pv = 0 /\ pc = 1 /\ ps = 0
    BY <1>2, <2>1 DEF Quarter, EulerRotates, RotatesBy, EulerEntries
  <2>2. CASE pu = 1 /\ pv = 1 /\ pc = 0 /\ ps = 1
    BY <1>2, <2>2 DEF Quarter, EulerRotates, RotatesBy, EulerEntries
  <2>3. CASE pu = 0 /\ pv = 1 /\ pc = -1 /\ ps = 0
    BY <1>2, <2>3 DEF Quarter, EulerRotates, RotatesBy, EulerEntries
  <2>4. CASE pu = -1 /\ pv = 1 /\ pc = 0 /\ ps = -1
    BY <1>2, <2>4 DEF Quarter, EulerRotates, RotatesBy, EulerEntries
  <2> QED BY <2>1, <2>2, <2>3, <2>4 DEF Quarter
<1>3. CASE ru = 0 /\ rv = 1 /\ rc = -1 /\ rs = 0
  <2>1. CASE pu = 1 /\ pv = 0 /\ pc = 1 /\ ps = 0
    BY <1>3, <2>1 DEF Quarter, EulerRotates, RotatesBy, EulerEntries
  <2>2. CASE pu = 1 /\ pv = 1 /\ pc = 0 /\ ps = 1
    BY <1>3, <2>2 DEF Quarter, EulerRotates, RotatesBy, EulerEntries
  <2>3. CASE pu = 0 /\ pv = 1 /\ pc = -1 /\ ps = 0
    BY <1>3, <2>3 DEF Quarter, EulerRotates, RotatesBy, EulerEntries
  <2>4. CASE pu = -1 /\ pv = 1 /\ pc = 0 /\ ps = -1
    BY <1>3, <2>4 DEF Quarter, EulerRotates, RotatesBy, EulerEntries
  <2> QED BY <2>1, <2>2, <2>3, <2>4 DEF Quarter
<1>4. CASE ru = -1 /\ rv = 1 /\ rc = 0 /\ rs = -1
  <2>1. CASE pu = 1 /\ pv = 0 /\ pc = 1 /\ ps = 0
    BY <1>4, <2>1 DEF Quarter, EulerRotates, RotatesBy, EulerEntries
  <2>2. CASE pu = 1 /\ pv = 1 /\ pc = 0 /\ ps = 1
    BY <1>4, <2>2 DEF Quarter, EulerRotates, RotatesBy, EulerEntries
  <2>3. CASE pu = 0 /\ pv = 1 /\ pc = -1 /\ ps = 0
    BY <1>4, <2>3 DEF Quarter, EulerRotates, RotatesBy, EulerEntries
  <2>4. CASE pu = -1 /\ pv = 1 /\ pc = 0 /\ ps = -1
    BY <1>4, <2>4 DEF Quarter, EulerRotates, RotatesBy, EulerEntries
  <2> QED BY <2>1, <2>2, <2>3, <2>4 DEF Quarter
<1> QED BY <1>1, <1>2, <1>3, <1>4 DEF Quarter

\* The three turns make a rotation.
LEMMA RotationEuler ==
  ASSUME NEW rc \in Int, NEW rs \in Int, NEW pc \in Int, NEW ps \in Int, NEW yc \in Int, NEW ys \in Int,
         NEW ru \in Int, NEW rv \in Int, Quarter(ru, rv, rc, rs), NEW pu \in Int, NEW pv \in Int,
         Quarter(pu, pv, pc, ps),
         NEW yu \in Int, NEW yv \in Int, Quarter(yu, yv, yc, ys),
         NEW a \in Int, NEW b \in Int, NEW c \in Int, NEW d \in Int, NEW e \in Int,
         NEW f \in Int, NEW g \in Int, NEW h \in Int, NEW i \in Int,
         EulerEntries(rc, rs, pc, ps, yc, ys, a, b, c, d, e, f, g, h, i)
  PROVE  Rotation(a, b, c, d, e, f, g, h, i)
<1>5. \/ yc = 1 /\ ys = 0
      \/ yc = 0 /\ ys = 1
      \/ yc = -1 /\ ys = 0
      \/ yc = 0 /\ ys = -1
  BY DEF Quarter
<1>1. CASE rc = 1 /\ rs = 0
  <2>1. CASE pc = 1 /\ ps = 0
    <3>1. a = yc /\ b = 0 - ys /\ c = 0 /\ d = ys /\ e = yc /\ f = 0 /\ g = 0 /\ h = 0 /\ i = 1
      BY <1>1, <2>1 DEF EulerEntries
    <3>2. CASE yc = 1 /\ ys = 0
      BY <3>1, <3>2 DEF Rotation, Same
    <3>3. CASE yc = 0 /\ ys = 1
      BY <3>1, <3>3 DEF Rotation, Same
    <3>4. CASE yc = -1 /\ ys = 0
      BY <3>1, <3>4 DEF Rotation, Same
    <3>5. CASE yc = 0 /\ ys = -1
      BY <3>1, <3>5 DEF Rotation, Same
    <3> QED BY <1>5, <3>2, <3>3, <3>4, <3>5
  <2>2. CASE pc = 0 /\ ps = 1
    <3>1. a = 0 /\ b = 0 - ys /\ c = yc /\ d = 0 /\ e = yc /\ f = ys /\ g = -1 /\ h = 0 /\ i = 0
      BY <1>1, <2>2 DEF EulerEntries
    <3> QED BY <1>5, <3>1 DEF Rotation, Same
  <2>3. CASE pc = -1 /\ ps = 0
    <3>1. a = 0 - yc /\ b = 0 - ys /\ c = 0 /\ d = 0 - ys /\ e = yc /\ f = 0 /\ g = 0 /\ h = 0 /\ i = -1
      BY <1>1, <2>3 DEF EulerEntries
    <3> QED BY <1>5, <3>1 DEF Rotation, Same
  <2>4. CASE pc = 0 /\ ps = -1
    <3>1. a = 0 /\ b = 0 - ys /\ c = 0 - yc /\ d = 0 /\ e = yc /\ f = 0 - ys /\ g = 1 /\ h = 0 /\ i = 0
      BY <1>1, <2>4 DEF EulerEntries
    <3>2. CASE yc = 1 /\ ys = 0
      BY <3>1, <3>2 DEF Rotation, Same
    <3>3. CASE yc = 0 /\ ys = 1
      BY <3>1, <3>3 DEF Rotation, Same
    <3>4. CASE yc = -1 /\ ys = 0
      BY <3>1, <3>4 DEF Rotation, Same
    <3>5. CASE yc = 0 /\ ys = -1
      BY <3>1, <3>5 DEF Rotation, Same
    <3> QED BY <1>5, <3>2, <3>3, <3>4, <3>5
  <2> QED BY <2>1, <2>2, <2>3, <2>4 DEF Quarter
<1>2. CASE rc = 0 /\ rs = 1
  <2>1. CASE pc = 1 /\ ps = 0
    <3>1. a = yc /\ b = 0 /\ c = ys /\ d = ys /\ e = 0 /\ f = 0 - yc /\ g = 0 /\ h = 1 /\ i = 0
      BY <1>2, <2>1 DEF EulerEntries
    <3>2. CASE yc = 1 /\ ys = 0
      BY <3>1, <3>2 DEF Rotation, Same
    <3>3. CASE yc = 0 /\ ys = 1
      BY <3>1, <3>3 DEF Rotation, Same
    <3>4. CASE yc = -1 /\ ys = 0
      BY <3>1, <3>4 DEF Rotation, Same
    <3>5. CASE yc = 0 /\ ys = -1
      BY <3>1, <3>5 DEF Rotation, Same
    <3> QED BY <1>5, <3>2, <3>3, <3>4, <3>5
  <2>2. CASE pc = 0 /\ ps = 1
    <3>1. a = 0 /\ b = yc /\ c = ys /\ d = 0 /\ e = ys /\ f = 0 - yc /\ g = -1 /\ h = 0 /\ i = 0
      BY <1>2, <2>2 DEF EulerEntries
    <3> QED BY <1>5, <3>1 DEF Rotation, Same
  <2>3. CASE pc = -1 /\ ps = 0
    <3>1. a = 0 - yc /\ b = 0 /\ c = ys /\ d = 0 - ys /\ e = 0 /\ f = 0 - yc /\ g = 0 /\ h = -1 /\ i = 0
      BY <1>2, <2>3 DEF EulerEntries
    <3> QED BY <1>5, <3>1 DEF Rotation, Same
  <2>4. CASE pc = 0 /\ ps = -1
    <3>1. a = 0 /\ b = 0 - yc /\ c = ys /\ d = 0 /\ e = 0 - ys /\ f = 0 - yc /\ g = 1 /\ h = 0 /\ i = 0
      BY <1>2, <2>4 DEF EulerEntries
    <3>2. CASE yc = 1 /\ ys = 0
      BY <3>1, <3>2 DEF Rotation, Same
    <3>3. CASE yc = 0 /\ ys = 1
      BY <3>1, <3>3 DEF Rotation, Same
    <3>4. CASE yc = -1 /\ ys = 0
      BY <3>1, <3>4 DEF Rotation, Same
    <3>5. CASE yc = 0 /\ ys = -1
      BY <3>1, <3>5 DEF Rotation, Same
    <3> QED BY <1>5, <3>2, <3>3, <3>4, <3>5
  <2> QED BY <2>1, <2>2, <2>3, <2>4 DEF Quarter
<1>3. CASE rc = -1 /\ rs = 0
  <2>1. CASE pc = 1 /\ ps = 0
    <3>1. a = yc /\ b = ys /\ c = 0 /\ d = ys /\ e = 0 - yc /\ f = 0 /\ g = 0 /\ h = 0 /\ i = -1
      BY <1>3, <2>1 DEF EulerEntries
    <3> QED BY <1>5, <3>1 DEF Rotation, Same
  <2>2. CASE pc = 0 /\ ps = 1
    <3>1. a = 0 /\ b = ys /\ c = 0 - yc /\ d = 0 /\ e = 0 - yc /\ f = 0 - ys /\ g = -1 /\ h = 0 /\ i = 0
      BY <1>3, <2>2 DEF EulerEntries
    <3> QED BY <1>5, <3>1 DEF Rotation, Same
  <2>3. CASE pc = -1 /\ ps = 0
    <3>1. a = 0 - yc /\ b = ys /\ c = 0 /\ d = 0 - ys /\ e = 0 - yc /\ f = 0 /\ g = 0 /\ h = 0 /\ i = 1
      BY <1>3, <2>3 DEF EulerEntries
    <3>2. CASE yc = 1 /\ ys = 0
      BY <3>1, <3>2 DEF Rotation, Same
    <3>3. CASE yc = 0 /\ ys = 1
      BY <3>1, <3>3 DEF Rotation, Same
    <3>4. CASE yc = -1 /\ ys = 0
      BY <3>1, <3>4 DEF Rotation, Same
    <3>5. CASE yc = 0 /\ ys = -1
      BY <3>1, <3>5 DEF Rotation, Same
    <3> QED BY <1>5, <3>2, <3>3, <3>4, <3>5
  <2>4. CASE pc = 0 /\ ps = -1
    <3>1. a = 0 /\ b = ys /\ c = yc /\ d = 0 /\ e = 0 - yc /\ f = ys /\ g = 1 /\ h = 0 /\ i = 0
      BY <1>3, <2>4 DEF EulerEntries
    <3>2. CASE yc = 1 /\ ys = 0
      BY <3>1, <3>2 DEF Rotation, Same
    <3>3. CASE yc = 0 /\ ys = 1
      BY <3>1, <3>3 DEF Rotation, Same
    <3>4. CASE yc = -1 /\ ys = 0
      BY <3>1, <3>4 DEF Rotation, Same
    <3>5. CASE yc = 0 /\ ys = -1
      BY <3>1, <3>5 DEF Rotation, Same
    <3> QED BY <1>5, <3>2, <3>3, <3>4, <3>5
  <2> QED BY <2>1, <2>2, <2>3, <2>4 DEF Quarter
<1>4. CASE rc = 0 /\ rs = -1
  <2>1. CASE pc = 1 /\ ps = 0
    <3>1. a = yc /\ b = 0 /\ c = 0 - ys /\ d = ys /\ e = 0 /\ f = yc /\ g = 0 /\ h = -1 /\ i = 0
      BY <1>4, <2>1 DEF EulerEntries
    <3> QED BY <1>5, <3>1 DEF Rotation, Same
  <2>2. CASE pc = 0 /\ ps = 1
    <3>1. a = 0 /\ b = 0 - yc /\ c = 0 - ys /\ d = 0 /\ e = 0 - ys /\ f = yc /\ g = -1 /\ h = 0 /\ i = 0
      BY <1>4, <2>2 DEF EulerEntries
    <3> QED BY <1>5, <3>1 DEF Rotation, Same
  <2>3. CASE pc = -1 /\ ps = 0
    <3>1. a = 0 - yc /\ b = 0 /\ c = 0 - ys /\ d = 0 - ys /\ e = 0 /\ f = yc /\ g = 0 /\ h = 1 /\ i = 0
      BY <1>4, <2>3 DEF EulerEntries
    <3>2. CASE yc = 1 /\ ys = 0
      BY <3>1, <3>2 DEF Rotation, Same
    <3>3. CASE yc = 0 /\ ys = 1
      BY <3>1, <3>3 DEF Rotation, Same
    <3>4. CASE yc = -1 /\ ys = 0
      BY <3>1, <3>4 DEF Rotation, Same
    <3>5. CASE yc = 0 /\ ys = -1
      BY <3>1, <3>5 DEF Rotation, Same
    <3> QED BY <1>5, <3>2, <3>3, <3>4, <3>5
  <2>4. CASE pc = 0 /\ ps = -1
    <3>1. a = 0 /\ b = yc /\ c = 0 - ys /\ d = 0 /\ e = ys /\ f = yc /\ g = 1 /\ h = 0 /\ i = 0
      BY <1>4, <2>4 DEF EulerEntries
    <3>2. CASE yc = 1 /\ ys = 0
      BY <3>1, <3>2 DEF Rotation, Same
    <3>3. CASE yc = 0 /\ ys = 1
      BY <3>1, <3>3 DEF Rotation, Same
    <3>4. CASE yc = -1 /\ ys = 0
      BY <3>1, <3>4 DEF Rotation, Same
    <3>5. CASE yc = 0 /\ ys = -1
      BY <3>1, <3>5 DEF Rotation, Same
    <3> QED BY <1>5, <3>2, <3>3, <3>4, <3>5
  <2> QED BY <2>1, <2>2, <2>3, <2>4 DEF Quarter
<1> QED BY <1>1, <1>2, <1>3, <1>4 DEF Quarter

\* Without a pitch the entries of a rotation are those of its roll and yaw.
LevelEntries(a, b, c, d, e, f, h, i) ==
  /\ (a = 1 /\ d = 0) \/ (a = 0 /\ d = 1) \/ (a = -1 /\ d = 0) \/ (a = 0 /\ d = -1)
  /\ (i = 1 /\ h = 0) \/ (i = 0 /\ h = 1) \/ (i = -1 /\ h = 0) \/ (i = 0 /\ h = -1)
  /\ b = 0 - d*i /\ c = d*h /\ e = a*i /\ f = 0 - a*h

\* That is so of every rotation without a pitch.
LEMMA LevelRotation ==
  ASSUME NEW a \in Int, NEW b \in Int, NEW c \in Int, NEW d \in Int, NEW e \in Int,
         NEW f \in Int, NEW g \in Int, NEW h \in Int, NEW i \in Int,
         Rotation(a, b, c, d, e, f, g, h, i), g = 0
  PROVE  LevelEntries(a, b, c, d, e, f, h, i)
BY DEF Rotation, Same, LevelEntries

Quaternion == [1 .. 4 -> Int]
Rows == [1 .. 3 -> [1 .. 3 -> Int]]

\* The quaternion's rotation is that of the rows, entry by entry.
Agree(q, M) ==
  RotatesBy(q[1], q[2], q[3], q[4], M[1][1], M[1][2], M[1][3],
            M[2][1], M[2][2], M[2][3], M[3][1], M[3][2], M[3][3])

\* That is what the runs check.
LEMMA QuatsRotates ==
  ASSUME NEW q \in Quaternion, NEW M PROVE Quats!Rotates(q, M) <=> Agree(q, M)
<1> DEFINE x == q[1]  y == q[2]  z == q[3]  w == q[4]
           n == x*x + y*y + z*z + w*w
           R == <<<<w*w + x*x - y*y - z*z, 2*(x*y - w*z), 2*(x*z + w*y)>>,
                  <<2*(x*y + w*z), w*w - x*x + y*y - z*z, 2*(y*z - w*x)>>,
                  <<2*(x*z - w*y), 2*(y*z + w*x), w*w - x*x - y*y + z*z>>>>
<1>1. Agree(q, M) <=>
        /\ n > 0
        /\ R[1][1] = n * M[1][1] /\ R[1][2] = n * M[1][2] /\ R[1][3] = n * M[1][3]
        /\ R[2][1] = n * M[2][1] /\ R[2][2] = n * M[2][2] /\ R[2][3] = n * M[2][3]
        /\ R[3][1] = n * M[3][1] /\ R[3][2] = n * M[3][2] /\ R[3][3] = n * M[3][3]
  BY DEF Agree, RotatesBy
<1> HIDE DEF R, n
<1>2. (\A i, k \in 1 .. 3 : R[i][k] = n * M[i][k]) <=>
        /\ R[1][1] = n * M[1][1] /\ R[1][2] = n * M[1][2] /\ R[1][3] = n * M[1][3]
        /\ R[2][1] = n * M[2][1] /\ R[2][2] = n * M[2][2] /\ R[2][3] = n * M[2][3]
        /\ R[3][1] = n * M[3][1] /\ R[3][2] = n * M[3][2] /\ R[3][3] = n * M[3][3]
  OBVIOUS
<1>3. Quats!Rotates(q, M) <=> (n > 0 /\ \A i, k \in 1 .. 3 : R[i][k] = n * M[i][k])
  BY DEF Quats!Rotates, R, n
<1> QED BY <1>1, <1>2, <1>3

\* Half a quaternion rotates as the whole.
LEMMA RotatesHalved ==
  ASSUME NEW x \in Int, NEW y \in Int, NEW z \in Int, NEW w \in Int,
         NEW a \in Int, NEW b \in Int, NEW c \in Int, NEW d \in Int, NEW e \in Int,
         NEW f \in Int, NEW g \in Int, NEW h \in Int, NEW i \in Int,
         RotatesBy(2 * x, 2 * y, 2 * z, 2 * w, a, b, c, d, e, f, g, h, i)
  PROVE  RotatesBy(x, y, z, w, a, b, c, d, e, f, g, h, i)
BY DEF RotatesBy

\* Halving a quaternion does not change its rotation.
LEMMA QuatsReduced ==
  ASSUME NEW q \in Quaternion, NEW M \in Rows, Agree(q, M)
  PROVE  Quats!Reduced(q) \in Quaternion /\ Agree(Quats!Reduced(q), M)
<1>1. CASE ~Quats!Halved(q)
  BY <1>1 DEF Quats!Reduced
<1>2. CASE Quats!Halved(q)
  <2> DEFINE r == Quats!Reduced(q)
             x == q[1] \div 2  y == q[2] \div 2  z == q[3] \div 2  w == q[4] \div 2
  <2>1. r = <<x, y, z, w>>
    BY <1>2 DEF Quats!Reduced
  <2>2. /\ x \in Int /\ y \in Int /\ z \in Int /\ w \in Int
        /\ q[1] = 2 * x /\ q[2] = 2 * y /\ q[3] = 2 * z /\ q[4] = 2 * w
    BY <1>2 DEF Quats!Halved, Quaternion
  <2> HIDE DEF r, x, y, z, w
  <2>3. r \in Quaternion /\ r[1] = x /\ r[2] = y /\ r[3] = z /\ r[4] = w
    BY <2>1, <2>2 DEF Quaternion
  <2> DEFINE a == M[1][1]  b == M[1][2]  c == M[1][3]
             d == M[2][1]  e == M[2][2]  f == M[2][3]
             g == M[3][1]  h == M[3][2]  i == M[3][3]
  <2>4. /\ a \in Int /\ b \in Int /\ c \in Int /\ d \in Int /\ e \in Int /\ f \in Int
        /\ g \in Int /\ h \in Int /\ i \in Int
    BY DEF Rows
  <2>5. RotatesBy(2 * x, 2 * y, 2 * z, 2 * w, a, b, c, d, e, f, g, h, i)
    BY <2>2 DEF Agree
  <2> HIDE DEF a, b, c, d, e, f, g, h, i
  <2>6. RotatesBy(x, y, z, w, a, b, c, d, e, f, g, h, i)
    BY <2>2, <2>4, <2>5, RotatesHalved, Zenon
  <2>7. Agree(r, M)
    BY <2>3, <2>6, Zenon DEF Agree, a, b, c, d, e, f, g, h, i
  <2> QED BY <2>3, <2>7 DEF r
<1> QED BY <1>1, <1>2

\* The product of two quaternions, before it is halved.
Raw(p, q) ==
  <<p[4]*q[1] + p[1]*q[4] + p[2]*q[3] - p[3]*q[2],
    p[4]*q[2] - p[1]*q[3] + p[2]*q[4] + p[3]*q[1],
    p[4]*q[3] + p[1]*q[2] - p[2]*q[1] + p[3]*q[4],
    p[4]*q[4] - p[1]*q[1] - p[2]*q[2] - p[3]*q[3]>>

\* The quaternion of a quarter turn and the rows of one.
LEMMA QuatsQuarter ==
  /\ Quats!quatFromAxisAngle(1, 1) = <<1, 0, 0, 1>> /\ Quats!quatFromAxisAngle(1, 3) = <<1, 0, 0, -1>>
  /\ Quats!quatFromAxisAngle(2, 1) = <<0, 1, 0, 1>> /\ Quats!quatFromAxisAngle(2, 3) = <<0, 1, 0, -1>>
  /\ Quats!quatFromAxisAngle(3, 1) = <<0, 0, 1, 1>> /\ Quats!quatFromAxisAngle(3, 3) = <<0, 0, 1, -1>>
  /\ Quats!About(1, 1) = <<<<1, 0, 0>>, <<0, 0, -1>>, <<0, 1, 0>>>>
  /\ Quats!About(1, 3) = <<<<1, 0, 0>>, <<0, 0, 1>>, <<0, -1, 0>>>>
  /\ Quats!About(2, 1) = <<<<0, 0, 1>>, <<0, 1, 0>>, <<-1, 0, 0>>>>
  /\ Quats!About(2, 3) = <<<<0, 0, -1>>, <<0, 1, 0>>, <<1, 0, 0>>>>
  /\ Quats!About(3, 1) = <<<<0, -1, 0>>, <<1, 0, 0>>, <<0, 0, 1>>>>
  /\ Quats!About(3, 3) = <<<<0, 1, 0>>, <<-1, 0, 0>>, <<0, 0, 1>>>>
<1>1. /\ Quats!Half(1) = <<1, 1>> /\ Quats!Half(3) = <<-1, 1>>
      /\ Quats!Cos(1) = 0 /\ Quats!Sin(1) = 1 /\ Quats!Cos(3) = 0 /\ Quats!Sin(3) = -1
  BY DEF Quats!Half, Quats!Cos, Quats!Sin
<1>2. /\ Quats!quatFromAxisAngle(1, 1) = <<1, 0, 0, 1>> /\ Quats!quatFromAxisAngle(1, 3) = <<1, 0, 0, -1>>
  BY <1>1 DEF Quats!quatFromAxisAngle
<1>3. /\ Quats!quatFromAxisAngle(2, 1) = <<0, 1, 0, 1>> /\ Quats!quatFromAxisAngle(2, 3) = <<0, 1, 0, -1>>
  BY <1>1 DEF Quats!quatFromAxisAngle
<1>4. /\ Quats!quatFromAxisAngle(3, 1) = <<0, 0, 1, 1>> /\ Quats!quatFromAxisAngle(3, 3) = <<0, 0, 1, -1>>
  BY <1>1 DEF Quats!quatFromAxisAngle
<1>5. /\ Quats!About(1, 1) = <<<<1, 0, 0>>, <<0, 0, -1>>, <<0, 1, 0>>>>
      /\ Quats!About(1, 3) = <<<<1, 0, 0>>, <<0, 0, 1>>, <<0, -1, 0>>>>
  BY <1>1 DEF Quats!About
<1>6. /\ Quats!About(2, 1) = <<<<0, 0, 1>>, <<0, 1, 0>>, <<-1, 0, 0>>>>
      /\ Quats!About(2, 3) = <<<<0, 0, -1>>, <<0, 1, 0>>, <<1, 0, 0>>>>
  BY <1>1 DEF Quats!About
<1>7. /\ Quats!About(3, 1) = <<<<0, -1, 0>>, <<1, 0, 0>>, <<0, 0, 1>>>>
      /\ Quats!About(3, 3) = <<<<0, 1, 0>>, <<-1, 0, 0>>, <<0, 0, 1>>>>
  BY <1>1 DEF Quats!About
<1> QED BY <1>2, <1>3, <1>4, <1>5, <1>6, <1>7

\* A product of rotations, entry by entry; it has rows.
Times(A, B) ==
  [i \in 1 .. 3 |-> [k \in 1 .. 3 |-> A[i][1] * B[1][k] + A[i][2] * B[2][k] + A[i][3] * B[3][k]]]

\* So is the product they are checked against.
LEMMA QuatsTimes ==
  ASSUME NEW A \in Rows, NEW B \in Rows
  PROVE  Quats!Product(A, B) = Times(A, B) /\ Quats!Product(A, B) \in Rows
<1> DEFINE M == Times(A, B)
<1>1. M \in [1 .. 3 -> [1 .. 3 -> Int]]
  BY DEF Rows, Times
<1>2. ASSUME NEW i \in 1 .. 3 PROVE Quats!Row(A, B, i) = M[i]
  <2>1. M[i] = [k \in 1 .. 3 |-> Quats!Dot(A, B, i, k)]
    BY DEF Times, Quats!Dot
  <2>2. M[i] \in [1 .. 3 -> Int]
    BY <1>1
  <2> HIDE DEF M
  <2>3. /\ M[i][1] = Quats!Dot(A, B, i, 1) /\ M[i][2] = Quats!Dot(A, B, i, 2)
        /\ M[i][3] = Quats!Dot(A, B, i, 3)
    BY <2>1
  <2>4. M[i] = <<M[i][1], M[i][2], M[i][3]>>
    BY <2>2, Triple, Zenon
  <2> QED BY <2>3, <2>4, Zenon DEF Quats!Row
<1> HIDE DEF M
<1>3. M = <<M[1], M[2], M[3]>>
  BY <1>1, Triple, Zenon
<1>4. 1 \in 1 .. 3 /\ 2 \in 1 .. 3 /\ 3 \in 1 .. 3
  OBVIOUS
<1>5. Quats!Product(A, B) = M
  BY <1>2, <1>3, <1>4, Zenon DEF Quats!Product
<1> QED BY <1>1, <1>5, Zenon DEF M, Rows

\* A turn about an axis of the tool is followed.
LEMMA QuatsToolTurn ==
  ASSUME NEW q \in Quaternion, NEW M \in Rows, Agree(q, M), Turned(M), NEW axis \in 1 .. 3, NEW t \in {1, 3}
  PROVE  LET delta == Quats!quatFromAxisAngle(axis, t)
             P == Quats!Product(M, Quats!About(axis, t))
             r == Quats!quatMultiply(q, delta)
         IN /\ r \in Quaternion /\ P \in Rows /\ Turned(P) /\ Agree(r, P)
<1> DEFINE x == q[1]  y == q[2]  z == q[3]  w == q[4]
           a == M[1][1]  b == M[1][2]  c == M[1][3]
           d == M[2][1]  e == M[2][2]  f == M[2][3]
           g == M[3][1]  h == M[3][2]  i == M[3][3]
           P == Times(M, Quats!About(axis, t))
           delta == Quats!quatFromAxisAngle(axis, t)
           r == Raw(q, delta)
<1>1. /\ a \in Int /\ b \in Int /\ c \in Int /\ d \in Int /\ e \in Int /\ f \in Int
      /\ g \in Int /\ h \in Int /\ i \in Int
      /\ x \in Int /\ y \in Int /\ z \in Int /\ w \in Int
  BY DEF Rows, Quaternion
<1>2. RotatesBy(x, y, z, w, a, b, c, d, e, f, g, h, i) /\ Rotation(a, b, c, d, e, f, g, h, i)
  BY DEF Agree, Turned
<1> HIDE DEF x, y, z, w, a, b, c, d, e, f, g, h, i
<1>3. ASSUME axis = 1, t = 1 PROVE r \in Quaternion /\ Turned(P) /\ Agree(r, P)
  <2>1. r = <<w + x, y + z, -y + z, w - x>>
    BY <1>1, <1>3, QuatsQuarter DEF Raw, x, y, z, w
  <2>2. /\ P[1][1] = a /\ P[1][2] = c /\ P[1][3] = -b
        /\ P[2][1] = d /\ P[2][2] = f /\ P[2][3] = -e
        /\ P[3][1] = g /\ P[3][2] = i /\ P[3][3] = -h
    BY <1>1, <1>3, QuatsQuarter DEF Times, a, b, c, d, e, f, g, h, i
  <2>3. Rotation(a, c, -b, d, f, -e, g, i, -h)
    BY <1>1, <1>2, RotationTurns, Zenon
  <2>4. RotatesBy(w + x, y + z, -y + z, w - x, a, c, -b, d, f, -e, g, i, -h)
    BY <1>1, <1>2, RotatesTurned, Zenon
  <2> HIDE DEF P, r
  <2>5. r \in Quaternion /\ r[1] = w + x /\ r[2] = y + z /\ r[3] = -y + z /\ r[4] = w - x
    BY <1>1, <2>1 DEF Quaternion
  <2>6. Turned(P)
    BY <2>2, <2>3, Zenon DEF Turned
  <2>7. Agree(r, P)
    BY <2>2, <2>4, <2>5, Zenon DEF Agree
  <2> QED BY <2>5, <2>6, <2>7
<1>4. ASSUME axis = 1, t = 3 PROVE r \in Quaternion /\ Turned(P) /\ Agree(r, P)
  <2>1. r = <<w - x, -y + z, -y - z, -w - x>>
    BY <1>1, <1>4, QuatsQuarter DEF Raw, x, y, z, w
  <2>2. /\ P[1][1] = a /\ P[1][2] = -c /\ P[1][3] = b
        /\ P[2][1] = d /\ P[2][2] = -f /\ P[2][3] = e
        /\ P[3][1] = g /\ P[3][2] = -i /\ P[3][3] = h
    BY <1>1, <1>4, QuatsQuarter DEF Times, a, b, c, d, e, f, g, h, i
  <2>3. Rotation(a, -c, b, d, -f, e, g, -i, h)
    BY <1>1, <1>2, RotationTurns, Zenon
  <2>4. RotatesBy(w - x, -y + z, -y - z, -w - x, a, -c, b, d, -f, e, g, -i, h)
    BY <1>1, <1>2, RotatesTurned, Zenon
  <2> HIDE DEF P, r
  <2>5. r \in Quaternion /\ r[1] = w - x /\ r[2] = -y + z /\ r[3] = -y - z /\ r[4] = -w - x
    BY <1>1, <2>1 DEF Quaternion
  <2>6. Turned(P)
    BY <2>2, <2>3, Zenon DEF Turned
  <2>7. Agree(r, P)
    BY <2>2, <2>4, <2>5, Zenon DEF Agree
  <2> QED BY <2>5, <2>6, <2>7
<1>5. ASSUME axis = 2, t = 1 PROVE r \in Quaternion /\ Turned(P) /\ Agree(r, P)
  <2>1. r = <<x - z, w + y, x + z, w - y>>
    BY <1>1, <1>5, QuatsQuarter DEF Raw, x, y, z, w
  <2>2. /\ P[1][1] = -c /\ P[1][2] = b /\ P[1][3] = a
        /\ P[2][1] = -f /\ P[2][2] = e /\ P[2][3] = d
        /\ P[3][1] = -i /\ P[3][2] = h /\ P[3][3] = g
    BY <1>1, <1>5, QuatsQuarter DEF Times, a, b, c, d, e, f, g, h, i
  <2>3. Rotation(-c, b, a, -f, e, d, -i, h, g)
    BY <1>1, <1>2, RotationTurns, Zenon
  <2>4. RotatesBy(x - z, w + y, x + z, w - y, -c, b, a, -f, e, d, -i, h, g)
    BY <1>1, <1>2, RotatesTurned, Zenon
  <2> HIDE DEF P, r
  <2>5. r \in Quaternion /\ r[1] = x - z /\ r[2] = w + y /\ r[3] = x + z /\ r[4] = w - y
    BY <1>1, <2>1 DEF Quaternion
  <2>6. Turned(P)
    BY <2>2, <2>3, Zenon DEF Turned
  <2>7. Agree(r, P)
    BY <2>2, <2>4, <2>5, Zenon DEF Agree
  <2> QED BY <2>5, <2>6, <2>7
<1>6. ASSUME axis = 2, t = 3 PROVE r \in Quaternion /\ Turned(P) /\ Agree(r, P)
  <2>1. r = <<-x - z, w - y, x - z, -w - y>>
    BY <1>1, <1>6, QuatsQuarter DEF Raw, x, y, z, w
  <2>2. /\ P[1][1] = c /\ P[1][2] = b /\ P[1][3] = -a
        /\ P[2][1] = f /\ P[2][2] = e /\ P[2][3] = -d
        /\ P[3][1] = i /\ P[3][2] = h /\ P[3][3] = -g
    BY <1>1, <1>6, QuatsQuarter DEF Times, a, b, c, d, e, f, g, h, i
  <2>3. Rotation(c, b, -a, f, e, -d, i, h, -g)
    BY <1>1, <1>2, RotationTurns, Zenon
  <2>4. RotatesBy(-x - z, w - y, x - z, -w - y, c, b, -a, f, e, -d, i, h, -g)
    BY <1>1, <1>2, RotatesTurned, Zenon
  <2> HIDE DEF P, r
  <2>5. r \in Quaternion /\ r[1] = -x - z /\ r[2] = w - y /\ r[3] = x - z /\ r[4] = -w - y
    BY <1>1, <2>1 DEF Quaternion
  <2>6. Turned(P)
    BY <2>2, <2>3, Zenon DEF Turned
  <2>7. Agree(r, P)
    BY <2>2, <2>4, <2>5, Zenon DEF Agree
  <2> QED BY <2>5, <2>6, <2>7
<1>7. ASSUME axis = 3, t = 1 PROVE r \in Quaternion /\ Turned(P) /\ Agree(r, P)
  <2>1. r = <<x + y, -x + y, w + z, w - z>>
    BY <1>1, <1>7, QuatsQuarter DEF Raw, x, y, z, w
  <2>2. /\ P[1][1] = b /\ P[1][2] = -a /\ P[1][3] = c
        /\ P[2][1] = e /\ P[2][2] = -d /\ P[2][3] = f
        /\ P[3][1] = h /\ P[3][2] = -g /\ P[3][3] = i
    BY <1>1, <1>7, QuatsQuarter DEF Times, a, b, c, d, e, f, g, h, i
  <2>3. Rotation(b, -a, c, e, -d, f, h, -g, i)
    BY <1>1, <1>2, RotationTurns, Zenon
  <2>4. RotatesBy(x + y, -x + y, w + z, w - z, b, -a, c, e, -d, f, h, -g, i)
    BY <1>1, <1>2, RotatesTurned, Zenon
  <2> HIDE DEF P, r
  <2>5. r \in Quaternion /\ r[1] = x + y /\ r[2] = -x + y /\ r[3] = w + z /\ r[4] = w - z
    BY <1>1, <2>1 DEF Quaternion
  <2>6. Turned(P)
    BY <2>2, <2>3, Zenon DEF Turned
  <2>7. Agree(r, P)
    BY <2>2, <2>4, <2>5, Zenon DEF Agree
  <2> QED BY <2>5, <2>6, <2>7
<1>8. ASSUME axis = 3, t = 3 PROVE r \in Quaternion /\ Turned(P) /\ Agree(r, P)
  <2>1. r = <<-x + y, -x - y, w - z, -w - z>>
    BY <1>1, <1>8, QuatsQuarter DEF Raw, x, y, z, w
  <2>2. /\ P[1][1] = -b /\ P[1][2] = a /\ P[1][3] = c
        /\ P[2][1] = -e /\ P[2][2] = d /\ P[2][3] = f
        /\ P[3][1] = -h /\ P[3][2] = g /\ P[3][3] = i
    BY <1>1, <1>8, QuatsQuarter DEF Times, a, b, c, d, e, f, g, h, i
  <2>3. Rotation(-b, a, c, -e, d, f, -h, g, i)
    BY <1>1, <1>2, RotationTurns, Zenon
  <2>4. RotatesBy(-x + y, -x - y, w - z, -w - z, -b, a, c, -e, d, f, -h, g, i)
    BY <1>1, <1>2, RotatesTurned, Zenon
  <2> HIDE DEF P, r
  <2>5. r \in Quaternion /\ r[1] = -x + y /\ r[2] = -x - y /\ r[3] = w - z /\ r[4] = -w - z
    BY <1>1, <2>1 DEF Quaternion
  <2>6. Turned(P)
    BY <2>2, <2>3, Zenon DEF Turned
  <2>7. Agree(r, P)
    BY <2>2, <2>4, <2>5, Zenon DEF Agree
  <2> QED BY <2>5, <2>6, <2>7
<1>9. r \in Quaternion /\ Turned(P) /\ Agree(r, P)
  <2>1. (axis = 1 \/ axis = 2 \/ axis = 3) /\ (t = 1 \/ t = 3)
    OBVIOUS
  <2> HIDE DEF P, r
  <2> QED BY <2>1, <1>3, <1>4, <1>5, <1>6, <1>7, <1>8, Zenon
<1>10. P \in Rows /\ P = Quats!Product(M, Quats!About(axis, t))
  <2>1. Quats!About(axis, t) \in Rows
    BY QuatsQuarter DEF Rows
  <2> QED BY <2>1, QuatsTimes
<1>11. Quats!quatMultiply(q, delta) = Quats!Reduced(r)
  BY Zenon DEF Quats!quatMultiply, Raw
<1> HIDE DEF r, P
<1>12. Quats!Reduced(r) \in Quaternion /\ Agree(Quats!Reduced(r), P)
  BY <1>9, <1>10, QuatsReduced
<1> QED BY <1>9, <1>10, <1>11, <1>12

\* A turn about an axis of the world is followed.
LEMMA QuatsWorldTurn ==
  ASSUME NEW q \in Quaternion, NEW M \in Rows, Agree(q, M), Turned(M), NEW axis \in 1 .. 3, NEW t \in {1, 3}
  PROVE  LET delta == Quats!quatFromAxisAngle(axis, t)
             P == Quats!Product(Quats!About(axis, t), M)
             r == Quats!quatMultiply(delta, q)
         IN /\ r \in Quaternion /\ P \in Rows /\ Turned(P) /\ Agree(r, P)
<1> DEFINE x == q[1]  y == q[2]  z == q[3]  w == q[4]
           a == M[1][1]  b == M[1][2]  c == M[1][3]
           d == M[2][1]  e == M[2][2]  f == M[2][3]
           g == M[3][1]  h == M[3][2]  i == M[3][3]
           P == Times(Quats!About(axis, t), M)
           delta == Quats!quatFromAxisAngle(axis, t)
           r == Raw(delta, q)
<1>1. /\ a \in Int /\ b \in Int /\ c \in Int /\ d \in Int /\ e \in Int /\ f \in Int
      /\ g \in Int /\ h \in Int /\ i \in Int
      /\ x \in Int /\ y \in Int /\ z \in Int /\ w \in Int
  BY DEF Rows, Quaternion
<1>2. RotatesBy(x, y, z, w, a, b, c, d, e, f, g, h, i) /\ Rotation(a, b, c, d, e, f, g, h, i)
  BY DEF Agree, Turned
<1> HIDE DEF x, y, z, w, a, b, c, d, e, f, g, h, i
<1>3. ASSUME axis = 1, t = 1 PROVE r \in Quaternion /\ Turned(P) /\ Agree(r, P)
  <2>1. r = <<w + x, y - z, y + z, w - x>>
    BY <1>1, <1>3, QuatsQuarter DEF Raw, x, y, z, w
  <2>2. /\ P[1][1] = a /\ P[1][2] = b /\ P[1][3] = c
        /\ P[2][1] = -g /\ P[2][2] = -h /\ P[2][3] = -i
        /\ P[3][1] = d /\ P[3][2] = e /\ P[3][3] = f
    BY <1>1, <1>3, QuatsQuarter DEF Times, a, b, c, d, e, f, g, h, i
  <2>3. Rotation(a, b, c, -g, -h, -i, d, e, f)
    BY <1>1, <1>2, RotationTurnsRows, Zenon
  <2>4. RotatesBy(w + x, y - z, y + z, w - x, a, b, c, -g, -h, -i, d, e, f)
    BY <1>1, <1>2, RotatesTurned, Zenon
  <2> HIDE DEF P, r
  <2>5. r \in Quaternion /\ r[1] = w + x /\ r[2] = y - z /\ r[3] = y + z /\ r[4] = w - x
    BY <1>1, <2>1 DEF Quaternion
  <2>6. Turned(P)
    BY <2>2, <2>3, Zenon DEF Turned
  <2>7. Agree(r, P)
    BY <2>2, <2>4, <2>5, Zenon DEF Agree
  <2> QED BY <2>5, <2>6, <2>7
<1>4. ASSUME axis = 1, t = 3 PROVE r \in Quaternion /\ Turned(P) /\ Agree(r, P)
  <2>1. r = <<w - x, -y - z, y - z, -w - x>>
    BY <1>1, <1>4, QuatsQuarter DEF Raw, x, y, z, w
  <2>2. /\ P[1][1] = a /\ P[1][2] = b /\ P[1][3] = c
        /\ P[2][1] = g /\ P[2][2] = h /\ P[2][3] = i
        /\ P[3][1] = -d /\ P[3][2] = -e /\ P[3][3] = -f
    BY <1>1, <1>4, QuatsQuarter DEF Times, a, b, c, d, e, f, g, h, i
  <2>3. Rotation(a, b, c, g, h, i, -d, -e, -f)
    BY <1>1, <1>2, RotationTurnsRows, Zenon
  <2>4. RotatesBy(w - x, -y - z, y - z, -w - x, a, b, c, g, h, i, -d, -e, -f)
    BY <1>1, <1>2, RotatesTurned, Zenon
  <2> HIDE DEF P, r
  <2>5. r \in Quaternion /\ r[1] = w - x /\ r[2] = -y - z /\ r[3] = y - z /\ r[4] = -w - x
    BY <1>1, <2>1 DEF Quaternion
  <2>6. Turned(P)
    BY <2>2, <2>3, Zenon DEF Turned
  <2>7. Agree(r, P)
    BY <2>2, <2>4, <2>5, Zenon DEF Agree
  <2> QED BY <2>5, <2>6, <2>7
<1>5. ASSUME axis = 2, t = 1 PROVE r \in Quaternion /\ Turned(P) /\ Agree(r, P)
  <2>1. r = <<x + z, w + y, -x + z, w - y>>
    BY <1>1, <1>5, QuatsQuarter DEF Raw, x, y, z, w
  <2>2. /\ P[1][1] = g /\ P[1][2] = h /\ P[1][3] = i
        /\ P[2][1] = d /\ P[2][2] = e /\ P[2][3] = f
        /\ P[3][1] = -a /\ P[3][2] = -b /\ P[3][3] = -c
    BY <1>1, <1>5, QuatsQuarter DEF Times, a, b, c, d, e, f, g, h, i
  <2>3. Rotation(g, h, i, d, e, f, -a, -b, -c)
    BY <1>1, <1>2, RotationTurnsRows, Zenon
  <2>4. RotatesBy(x + z, w + y, -x + z, w - y, g, h, i, d, e, f, -a, -b, -c)
    BY <1>1, <1>2, RotatesTurned, Zenon
  <2> HIDE DEF P, r
  <2>5. r \in Quaternion /\ r[1] = x + z /\ r[2] = w + y /\ r[3] = -x + z /\ r[4] = w - y
    BY <1>1, <2>1 DEF Quaternion
  <2>6. Turned(P)
    BY <2>2, <2>3, Zenon DEF Turned
  <2>7. Agree(r, P)
    BY <2>2, <2>4, <2>5, Zenon DEF Agree
  <2> QED BY <2>5, <2>6, <2>7
<1>6. ASSUME axis = 2, t = 3 PROVE r \in Quaternion /\ Turned(P) /\ Agree(r, P)
  <2>1. r = <<-x + z, w - y, -x - z, -w - y>>
    BY <1>1, <1>6, QuatsQuarter DEF Raw, x, y, z, w
  <2>2. /\ P[1][1] = -g /\ P[1][2] = -h /\ P[1][3] = -i
        /\ P[2][1] = d /\ P[2][2] = e /\ P[2][3] = f
        /\ P[3][1] = a /\ P[3][2] = b /\ P[3][3] = c
    BY <1>1, <1>6, QuatsQuarter DEF Times, a, b, c, d, e, f, g, h, i
  <2>3. Rotation(-g, -h, -i, d, e, f, a, b, c)
    BY <1>1, <1>2, RotationTurnsRows, Zenon
  <2>4. RotatesBy(-x + z, w - y, -x - z, -w - y, -g, -h, -i, d, e, f, a, b, c)
    BY <1>1, <1>2, RotatesTurned, Zenon
  <2> HIDE DEF P, r
  <2>5. r \in Quaternion /\ r[1] = -x + z /\ r[2] = w - y /\ r[3] = -x - z /\ r[4] = -w - y
    BY <1>1, <2>1 DEF Quaternion
  <2>6. Turned(P)
    BY <2>2, <2>3, Zenon DEF Turned
  <2>7. Agree(r, P)
    BY <2>2, <2>4, <2>5, Zenon DEF Agree
  <2> QED BY <2>5, <2>6, <2>7
<1>7. ASSUME axis = 3, t = 1 PROVE r \in Quaternion /\ Turned(P) /\ Agree(r, P)
  <2>1. r = <<x - y, x + y, w + z, w - z>>
    BY <1>1, <1>7, QuatsQuarter DEF Raw, x, y, z, w
  <2>2. /\ P[1][1] = -d /\ P[1][2] = -e /\ P[1][3] = -f
        /\ P[2][1] = a /\ P[2][2] = b /\ P[2][3] = c
        /\ P[3][1] = g /\ P[3][2] = h /\ P[3][3] = i
    BY <1>1, <1>7, QuatsQuarter DEF Times, a, b, c, d, e, f, g, h, i
  <2>3. Rotation(-d, -e, -f, a, b, c, g, h, i)
    BY <1>1, <1>2, RotationTurnsRows, Zenon
  <2>4. RotatesBy(x - y, x + y, w + z, w - z, -d, -e, -f, a, b, c, g, h, i)
    BY <1>1, <1>2, RotatesTurned, Zenon
  <2> HIDE DEF P, r
  <2>5. r \in Quaternion /\ r[1] = x - y /\ r[2] = x + y /\ r[3] = w + z /\ r[4] = w - z
    BY <1>1, <2>1 DEF Quaternion
  <2>6. Turned(P)
    BY <2>2, <2>3, Zenon DEF Turned
  <2>7. Agree(r, P)
    BY <2>2, <2>4, <2>5, Zenon DEF Agree
  <2> QED BY <2>5, <2>6, <2>7
<1>8. ASSUME axis = 3, t = 3 PROVE r \in Quaternion /\ Turned(P) /\ Agree(r, P)
  <2>1. r = <<-x - y, x - y, w - z, -w - z>>
    BY <1>1, <1>8, QuatsQuarter DEF Raw, x, y, z, w
  <2>2. /\ P[1][1] = d /\ P[1][2] = e /\ P[1][3] = f
        /\ P[2][1] = -a /\ P[2][2] = -b /\ P[2][3] = -c
        /\ P[3][1] = g /\ P[3][2] = h /\ P[3][3] = i
    BY <1>1, <1>8, QuatsQuarter DEF Times, a, b, c, d, e, f, g, h, i
  <2>3. Rotation(d, e, f, -a, -b, -c, g, h, i)
    BY <1>1, <1>2, RotationTurnsRows, Zenon
  <2>4. RotatesBy(-x - y, x - y, w - z, -w - z, d, e, f, -a, -b, -c, g, h, i)
    BY <1>1, <1>2, RotatesTurned, Zenon
  <2> HIDE DEF P, r
  <2>5. r \in Quaternion /\ r[1] = -x - y /\ r[2] = x - y /\ r[3] = w - z /\ r[4] = -w - z
    BY <1>1, <2>1 DEF Quaternion
  <2>6. Turned(P)
    BY <2>2, <2>3, Zenon DEF Turned
  <2>7. Agree(r, P)
    BY <2>2, <2>4, <2>5, Zenon DEF Agree
  <2> QED BY <2>5, <2>6, <2>7
<1>9. r \in Quaternion /\ Turned(P) /\ Agree(r, P)
  <2>1. (axis = 1 \/ axis = 2 \/ axis = 3) /\ (t = 1 \/ t = 3)
    OBVIOUS
  <2> HIDE DEF P, r
  <2> QED BY <2>1, <1>3, <1>4, <1>5, <1>6, <1>7, <1>8, Zenon
<1>10. P \in Rows /\ P = Quats!Product(Quats!About(axis, t), M)
  <2>1. Quats!About(axis, t) \in Rows
    BY QuatsQuarter DEF Rows
  <2> QED BY <2>1, QuatsTimes
<1>11. Quats!quatMultiply(delta, q) = Quats!Reduced(r)
  BY Zenon DEF Quats!quatMultiply, Raw
<1> HIDE DEF r, P
<1>12. Quats!Reduced(r) \in Quaternion /\ Agree(Quats!Reduced(r), P)
  BY <1>9, <1>10, QuatsReduced
<1> QED BY <1>9, <1>10, <1>11, <1>12

\* Half a turn and the turn itself.
LEMMA QuatsHalf ==
  ASSUME NEW n \in Int
  PROVE  /\ Quats!Half(n)[1] \in Int /\ Quats!Half(n)[2] \in Int
         /\ Quats!Cos(n) \in Int /\ Quats!Sin(n) \in Int
         /\ Quarter(Quats!Half(n)[1], Quats!Half(n)[2], Quats!Cos(n), Quats!Sin(n))
<1>1. n % 4 = 0 \/ n % 4 = 1 \/ n % 4 = 2 \/ n % 4 = 3
  OBVIOUS
<1>2. CASE n % 4 = 0
  BY <1>2 DEF Quats!Half, Quats!Cos, Quats!Sin, Quarter
<1>3. CASE n % 4 = 1
  BY <1>3 DEF Quats!Half, Quats!Cos, Quats!Sin, Quarter
<1>4. CASE n % 4 = 2
  BY <1>4 DEF Quats!Half, Quats!Cos, Quats!Sin, Quarter
<1>5. CASE n % 4 = 3
  BY <1>5 DEF Quats!Half, Quats!Cos, Quats!Sin, Quarter
<1> QED BY <1>1, <1>2, <1>3, <1>4, <1>5

\* The rows of roll, pitch and yaw.
EulerRows(r, p, y) ==
  Quats!Product(Quats!Product(Quats!About(3, y), Quats!About(2, p)), Quats!About(1, r))

\* Entry by entry.
LEMMA QuatsEulerRows ==
  ASSUME NEW r \in Int, NEW p \in Int, NEW y \in Int
  PROVE  LET E == EulerRows(r, p, y)
             rc == Quats!Cos(r)  rs == Quats!Sin(r)
             pc == Quats!Cos(p)  ps == Quats!Sin(p)
             yc == Quats!Cos(y)  ys == Quats!Sin(y)
         IN /\ E \in Rows
            /\ EulerEntries(rc, rs, pc, ps, yc, ys, E[1][1], E[1][2], E[1][3],
                         E[2][1], E[2][2], E[2][3], E[3][1], E[3][2], E[3][3])
<1> DEFINE rc == Quats!Cos(r)  rs == Quats!Sin(r)
           pc == Quats!Cos(p)  ps == Quats!Sin(p)
           yc == Quats!Cos(y)  ys == Quats!Sin(y)
           Y == Quats!About(3, y)  P == Quats!About(2, p)  R == Quats!About(1, r)
           YP == Times(Y, P)
           E == Times(YP, R)
<1>1. /\ rc \in Int /\ rs \in Int /\ pc \in Int /\ ps \in Int /\ yc \in Int /\ ys \in Int
  BY QuatsHalf
<1>2. /\ Y = <<<<yc, -ys, 0>>, <<ys, yc, 0>>, <<0, 0, 1>>>>
      /\ P = <<<<pc, 0, ps>>, <<0, 1, 0>>, <<-ps, 0, pc>>>>
      /\ R = <<<<1, 0, 0>>, <<0, rc, -rs>>, <<0, rs, rc>>>>
  BY DEF Quats!About
<1> HIDE DEF rc, rs, pc, ps, yc, ys, Y, P, R
<1>3. Y \in Rows /\ P \in Rows /\ R \in Rows
  BY <1>1, <1>2 DEF Rows
<1>4. YP \in Rows /\ Quats!Product(Y, P) = YP
  BY <1>3, QuatsTimes
<1>5. /\ YP[1][1] = yc*pc /\ YP[1][2] = -ys /\ YP[1][3] = yc*ps
      /\ YP[2][1] = ys*pc /\ YP[2][2] = yc /\ YP[2][3] = ys*ps
      /\ YP[3][1] = 0 - ps /\ YP[3][2] = 0 /\ YP[3][3] = pc
  <2>1. \A t \in Int : -t = 0 - t
    OBVIOUS
  <2> QED BY <1>1, <1>2, <2>1 DEF Times
<1> HIDE DEF YP
<1>6. E \in Rows /\ Quats!Product(YP, R) = E
  BY <1>3, <1>4, QuatsTimes
<1>7. \A i \in 1 .. 3 : /\ E[i][1] = YP[i][1]
                        /\ E[i][2] = YP[i][2] * rc + YP[i][3] * rs
                        /\ E[i][3] = YP[i][3] * rc - YP[i][2] * rs
  <2>1. \A i \in 1 .. 3 : YP[i][1] \in Int /\ YP[i][2] \in Int /\ YP[i][3] \in Int
    BY <1>4 DEF Rows
  <2> QED BY <1>1, <1>2, <2>1 DEF Times
<1> HIDE DEF E
<1>8. EulerEntries(rc, rs, pc, ps, yc, ys, E[1][1], E[1][2], E[1][3],
                         E[2][1], E[2][2], E[2][3], E[3][1], E[3][2], E[3][3])
  BY <1>1, <1>5, <1>7 DEF EulerEntries
<1>9. EulerRows(r, p, y) = E
  BY <1>4, <1>6, Zenon DEF EulerRows, Y, P, R
<1> QED BY <1>6, <1>8, <1>9, Zenon DEF rc, rs, pc, ps, yc, ys

\* The quaternion made of roll, pitch and yaw rotates as the three turns do.
LEMMA QuatsEuler ==
  ASSUME NEW r \in Int, NEW p \in Int, NEW y \in Int
  PROVE  /\ Quats!quatFromEulerDeg(r, p, y) \in Quaternion
         /\ EulerRows(r, p, y) \in Rows /\ Turned(EulerRows(r, p, y))
         /\ Agree(Quats!quatFromEulerDeg(r, p, y), EulerRows(r, p, y))
<1> DEFINE rc == Quats!Cos(r)  rs == Quats!Sin(r)  ru == Quats!Half(r)[1]  rv == Quats!Half(r)[2]
           pc == Quats!Cos(p)  ps == Quats!Sin(p)  pu == Quats!Half(p)[1]  pv == Quats!Half(p)[2]
           yc == Quats!Cos(y)  ys == Quats!Sin(y)  yu == Quats!Half(y)[1]  yv == Quats!Half(y)[2]
           E == EulerRows(r, p, y)
           q == <<rv*pu*yu - ru*pv*yv, ru*pv*yu + rv*pu*yv, ru*pu*yv - rv*pv*yu, ru*pu*yu + rv*pv*yv>>
<1>1. /\ rc \in Int /\ rs \in Int /\ pc \in Int /\ ps \in Int /\ yc \in Int /\ ys \in Int
      /\ ru \in Int /\ rv \in Int /\ pu \in Int /\ pv \in Int /\ yu \in Int /\ yv \in Int
      /\ Quarter(ru, rv, rc, rs) /\ Quarter(pu, pv, pc, ps) /\ Quarter(yu, yv, yc, ys)
  BY QuatsHalf
<1>2. /\ E \in Rows
      /\ EulerEntries(rc, rs, pc, ps, yc, ys, E[1][1], E[1][2], E[1][3],
                         E[2][1], E[2][2], E[2][3], E[3][1], E[3][2], E[3][3])
  BY QuatsEulerRows, Zenon
<1>3. Quats!quatFromEulerDeg(r, p, y) = Quats!Reduced(Quats!Reduced(q))
  BY Zenon DEF Quats!quatFromEulerDeg
<1> DEFINE a == E[1][1]  b == E[1][2]  c == E[1][3]
           d == E[2][1]  e == E[2][2]  f == E[2][3]
           g == E[3][1]  h == E[3][2]  i == E[3][3]
<1>4. /\ a \in Int /\ b \in Int /\ c \in Int /\ d \in Int /\ e \in Int /\ f \in Int
      /\ g \in Int /\ h \in Int /\ i \in Int
      /\ EulerEntries(rc, rs, pc, ps, yc, ys, a, b, c, d, e, f, g, h, i)
  BY <1>2 DEF Rows
<1> HIDE DEF rc, rs, pc, ps, yc, ys, ru, rv, pu, pv, yu, yv, E, a, b, c, d, e, f, g, h, i
<1>5. EulerRotates(ru, rv, pu, pv, yu, yv, a, b, c, d, e, f, g, h, i)
  BY <1>1, <1>4, RotatesEuler, Zenon
<1>11. Rotation(a, b, c, d, e, f, g, h, i)
  BY <1>1, <1>4, RotationEuler, Zenon
<1>6. /\ q[1] = rv*pu*yu - ru*pv*yv /\ q[2] = ru*pv*yu + rv*pu*yv
      /\ q[3] = ru*pu*yv - rv*pv*yu /\ q[4] = ru*pu*yu + rv*pv*yv
      /\ q \in Quaternion
  BY <1>1 DEF Quaternion
<1> HIDE DEF q
<1>7. Turned(E)
  BY <1>11, Zenon DEF Turned, a, b, c, d, e, f, g, h, i
<1>8. Agree(q, E)
  BY <1>5, <1>6, Zenon DEF Agree, EulerRotates, a, b, c, d, e, f, g, h, i
<1>9. Quats!Reduced(q) \in Quaternion /\ Agree(Quats!Reduced(q), E)
  BY <1>2, <1>6, <1>8, QuatsReduced
<1>10. /\ Quats!Reduced(Quats!Reduced(q)) \in Quaternion
       /\ Agree(Quats!Reduced(Quats!Reduced(q)), E)
  BY <1>2, <1>9, QuatsReduced
<1> QED BY <1>2, <1>3, <1>7, <1>10, Zenon DEF E

\* The angles shown are whole quarters.
LEMMA QuatsAngles ==
  ASSUME NEW q PROVE Quats!quatToEulerDeg(q) \in [1 .. 3 -> Int]
<1>1. \A s, c : Quats!atan2(s, c) \in Int
  BY DEF Quats!atan2
<1> QED BY <1>1 DEF Quats!quatToEulerDeg

\* Away from the pole the angles shown are those of the orientation.
LEMMA QuatsLevel ==
  ASSUME NEW q \in Quaternion, NEW M \in Rows, Agree(q, M), Turned(M),
         Quats!quatToEulerDeg(q)[2] \in {0, 2}
  PROVE  LET e == Quats!quatToEulerDeg(q)
         IN Agree(Quats!quatFromEulerDeg(e[1], e[2], e[3]), M)
<1> DEFINE x == q[1]  y == q[2]  z == q[3]  w == q[4]
           a == M[1][1]  b == M[1][2]  c == M[1][3]
           d == M[2][1]  e == M[2][2]  f == M[2][3]
           g == M[3][1]  h == M[3][2]  i == M[3][3]
           n == x*x + y*y + z*z + w*w
           angles == Quats!quatToEulerDeg(q)
<1>1. /\ a \in Int /\ b \in Int /\ c \in Int /\ d \in Int /\ e \in Int /\ f \in Int
      /\ g \in Int /\ h \in Int /\ i \in Int
      /\ x \in Int /\ y \in Int /\ z \in Int /\ w \in Int
  BY DEF Rows, Quaternion
<1>2. RotatesBy(x, y, z, w, a, b, c, d, e, f, g, h, i) /\ Rotation(a, b, c, d, e, f, g, h, i)
  BY DEF Agree, Turned
<1>3. /\ angles[1] = Quats!atan2(2 * (w*x + y*z), n - 2 * (x*x + y*y))
      /\ angles[2] = (IF 2 * (w*y - z*x) >= n THEN 1 ELSE IF 2 * (w*y - z*x) <= -n THEN 3 ELSE 0)
      /\ angles[3] = Quats!atan2(2 * (w*z + x*y), n - 2 * (y*y + z*z))
  BY DEF Quats!quatToEulerDeg
<1> HIDE DEF x, y, z, w, a, b, c, d, e, f, g, h, i, angles
<1>4. /\ n \in Int /\ n > 0
      /\ 2 * (w*x + y*z) = n * h /\ n - 2 * (x*x + y*y) = n * i
      /\ 2 * (w*y - z*x) = -(n * g)
      /\ 2 * (w*z + x*y) = n * d /\ n - 2 * (y*y + z*z) = n * a
  BY <1>1, <1>2 DEF RotatesBy
<1> HIDE DEF n
<1>5. /\ g \in {-1, 0, 1} /\ h \in {-1, 0, 1} /\ i \in {-1, 0, 1}
      /\ d \in {-1, 0, 1} /\ a \in {-1, 0, 1}
  BY <1>2 DEF Rotation, Same
<1>6. g = 0 /\ angles[2] = 0
  <2>1. angles[2] \in {0, 2}
    BY DEF angles
  <2>2. angles[2] = IF -(n * g) >= n THEN 1 ELSE IF -(n * g) <= -n THEN 3 ELSE 0
    BY <1>3, <1>4
  <2>3. CASE g = 1
    BY <1>4, <2>1, <2>2, <2>3
  <2>4. CASE g = -1
    BY <1>4, <2>1, <2>2, <2>4
  <2>5. CASE g = 0
    BY <1>4, <2>1, <2>2, <2>5
  <2> QED BY <1>5, <2>3, <2>4, <2>5
<1>7. /\ (a = 1 /\ d = 0) \/ (a = 0 /\ d = 1) \/ (a = -1 /\ d = 0) \/ (a = 0 /\ d = -1)
      /\ (i = 1 /\ h = 0) \/ (i = 0 /\ h = 1) \/ (i = -1 /\ h = 0) \/ (i = 0 /\ h = -1)
      /\ b = 0 - d*i /\ c = d*h /\ e = a*i /\ f = 0 - a*h
  <2>1. LevelEntries(a, b, c, d, e, f, h, i)
    BY <1>1, <1>2, <1>6, LevelRotation
  <2> QED BY <2>1 DEF LevelEntries
<1>8. ASSUME NEW s \in Int, NEW t \in Int,
             (t = 1 /\ s = 0) \/ (t = 0 /\ s = 1) \/ (t = -1 /\ s = 0) \/ (t = 0 /\ s = -1)
      PROVE  Quats!Cos(Quats!atan2(n * s, n * t)) = t /\ Quats!Sin(Quats!atan2(n * s, n * t)) = s
  <2>1. CASE t = 1 /\ s = 0
    <3>1. Quats!atan2(n * s, n * t) = 0
      BY <1>4, <2>1 DEF Quats!atan2
    <3> QED BY <2>1, <3>1 DEF Quats!Cos, Quats!Sin
  <2>2. CASE t = 0 /\ s = 1
    <3>1. Quats!atan2(n * s, n * t) = 1
      BY <1>4, <2>2 DEF Quats!atan2
    <3> QED BY <2>2, <3>1 DEF Quats!Cos, Quats!Sin
  <2>3. CASE t = -1 /\ s = 0
    <3>1. Quats!atan2(n * s, n * t) = 2
      BY <1>4, <2>3 DEF Quats!atan2
    <3> QED BY <2>3, <3>1 DEF Quats!Cos, Quats!Sin
  <2>4. CASE t = 0 /\ s = -1
    <3>1. Quats!atan2(n * s, n * t) = 3
      BY <1>4, <2>4 DEF Quats!atan2
    <3> QED BY <2>4, <3>1 DEF Quats!Cos, Quats!Sin
  <2> QED BY <1>8, <2>1, <2>2, <2>3, <2>4
<1>9. /\ Quats!Cos(angles[1]) = i /\ Quats!Sin(angles[1]) = h
      /\ Quats!Cos(angles[3]) = a /\ Quats!Sin(angles[3]) = d
      /\ Quats!Cos(angles[2]) = 1 /\ Quats!Sin(angles[2]) = 0
  <2>1. Quats!Cos(0) = 1 /\ Quats!Sin(0) = 0
    BY DEF Quats!Cos, Quats!Sin
  <2>2. angles[1] = Quats!atan2(n * h, n * i) /\ angles[3] = Quats!atan2(n * d, n * a)
    BY <1>3, <1>4
  <2> QED BY <1>1, <1>6, <1>7, <1>8, <2>1, <2>2
<1> DEFINE E == EulerRows(angles[1], angles[2], angles[3])
<1>10. angles[1] \in Int /\ angles[2] \in Int /\ angles[3] \in Int
  BY QuatsAngles DEF angles
<1>11. EulerEntries(Quats!Cos(angles[1]), Quats!Sin(angles[1]),
               Quats!Cos(angles[2]), Quats!Sin(angles[2]), Quats!Cos(angles[3]), Quats!Sin(angles[3]),
               E[1][1], E[1][2], E[1][3],
                         E[2][1], E[2][2], E[2][3], E[3][1], E[3][2], E[3][3])
  BY <1>10, QuatsEulerRows
<1> HIDE DEF E
<1>12. /\ E[1][1] = a /\ E[1][2] = b /\ E[1][3] = c
       /\ E[2][1] = d /\ E[2][2] = e /\ E[2][3] = f
       /\ E[3][1] = g /\ E[3][2] = h /\ E[3][3] = i
  <2>1. /\ E[1][1] = a*1 /\ E[1][2] = a*0*h - d*i /\ E[1][3] = a*0*i + d*h
        /\ E[2][1] = d*1 /\ E[2][2] = d*0*h + a*i /\ E[2][3] = d*0*i - a*h
        /\ E[3][1] = 0 - 0 /\ E[3][2] = 1*h /\ E[3][3] = 1*i
    BY <1>9, <1>11 DEF EulerEntries
  <2> QED BY <1>1, <1>6, <1>7, <2>1
<1>13. Agree(Quats!quatFromEulerDeg(angles[1], angles[2], angles[3]), E)
  BY <1>10, QuatsEuler DEF E
<1> QED BY <1>12, <1>13, Zenon DEF Agree, angles, a, b, c, d, e, f, g, h, i

-----------------------------------------------------------------------------
(* The orientation of a page. *)

\* The orientation is a quaternion whose rotation is the one asked for.
QuatsInv ==
  /\ or_quat \in Quaternion /\ or_turned \in Rows /\ Turned(or_turned)
  /\ Agree(or_quat, or_turned)

\* It holds of the first state.
LEMMA QuatsFirst == ASSUME Quats!Init PROVE QuatsInv
<1>1. or_quat \in Quaternion /\ or_turned \in Rows
  BY DEF Quats!Init, Quats!Identity, Quaternion, Rows
<1>2. Turned(or_turned)
  BY DEF Quats!Init, Quats!Identity, Turned, Rotation, Same
<1>3. Agree(or_quat, or_turned)
  BY DEF Quats!Init, Quats!Identity, Agree, RotatesBy
<1> QED BY <1>1, <1>2, <1>3 DEF QuatsInv

\* Every step keeps it.
LEMMA QuatsNext == ASSUME QuatsInv, [Quats!Next]_(Quats!vars) PROVE QuatsInv'
<1>1. or_quat \in Quaternion /\ or_turned \in Rows /\ Turned(or_turned) /\ Agree(or_quat, or_turned)
  BY DEF QuatsInv
<1>2. SUFFICES or_quat' \in Quaternion /\ or_turned' \in Rows /\ Turned(or_turned') /\ Agree(or_quat', or_turned')
  BY DEF QuatsInv, Turned, Agree
<1>3. CASE Quats!rotJog
  BY <1>1, <1>3, QuatsToolTurn, QuatsWorldTurn DEF Quats!rotJog
<1>4. CASE Quats!TypeAngle
  <2>1. PICK i \in 1 .. 3, value \in 0 .. 3 :
          LET rpy == [Quats!quatToEulerDeg(or_quat) EXCEPT ![i] = value]
          IN /\ or_quat' = Quats!quatFromEulerDeg(rpy[1], rpy[2], rpy[3])
             /\ or_turned' = EulerRows(rpy[1], rpy[2], rpy[3])
    BY <1>4, Zenon DEF Quats!TypeAngle, EulerRows
  <2> DEFINE rpy == [Quats!quatToEulerDeg(or_quat) EXCEPT ![i] = value]
  <2>2. rpy[1] \in Int /\ rpy[2] \in Int /\ rpy[3] \in Int
    BY QuatsAngles
  <2> HIDE DEF rpy
  <2> QED BY <2>1, <2>2, QuatsEuler DEF rpy
<1>5. CASE UNCHANGED Quats!vars
  BY <1>1, <1>5 DEF Quats!vars
<1> QED BY <1>3, <1>4, <1>5 DEF Quats!Next

\* It holds what the runs check.
LEMMA QuatsShows == ASSUME QuatsInv PROVE Quats!QuatFollowsTurns /\ Quats!EulerAwayFromPole
<1>1. or_quat \in Quaternion /\ or_turned \in Rows /\ Turned(or_turned) /\ Agree(or_quat, or_turned)
  BY DEF QuatsInv
<1>2. Quats!QuatFollowsTurns
  BY <1>1, QuatsRotates DEF Quats!QuatFollowsTurns
<1>3. Quats!EulerAwayFromPole
  <2> DEFINE e == Quats!quatToEulerDeg(or_quat)
             r == Quats!quatFromEulerDeg(e[1], e[2], e[3])
  <2>1. SUFFICES ASSUME e[2] \in {0, 2} PROVE Quats!Rotates(r, or_turned)
    BY Zenon DEF Quats!EulerAwayFromPole
  <2>2. Agree(r, or_turned)
    BY <1>1, <2>1, QuatsLevel
  <2>3. e[1] \in Int /\ e[2] \in Int /\ e[3] \in Int
    BY QuatsAngles
  <2> HIDE DEF e
  <2>4. r \in Quaternion
    BY <2>3, QuatsEuler
  <2> HIDE DEF r
  <2> QED BY <2>2, <2>4, QuatsRotates
<1> QED BY <1>2, <1>3
=============================================================================
