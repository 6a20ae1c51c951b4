------------------------------ MODULE Session ------------------------------
(***************************************************************************)
(* The session of one browser tab: the auth store, the service that fills  *)
(* it, the route guards and gates that read it, and the auth forms.  One   *)
(* document is one page; a redirect is asked for first (leaving) and the   *)
(* document keeps running until it is unloaded, so answers still arrive    *)
(* and a later redirect replaces the earlier one.                          *)
(***************************************************************************)
EXTENDS Naturals, FiniteSets, FiniteSetsExt, ApiClient

CONSTANTS
    MaxFaults,    \* failed or unanswered requests
    MaxGestures,  \* submits, sign-outs and navigations of the user
    MaxExpiries,  \* sessions that end on the server on their own
    Cooldown,     \* seconds before a recovery mail can be sent again
    HopCap        \* the redirect counter saturates here

ASSUME SessionConstants ==
    /\ MaxFaults \in Nat /\ MaxGestures \in Nat /\ MaxExpiries \in Nat
    /\ Cooldown \in Nat \ {0}
    /\ HopCap \in Nat \ {0}

VARIABLES
    server,   \* external: accounts, the cookie's session, the reset link
    page,     \* the page the document shows
    leaving,  \* the path of the last location.replace, or Stay
    hydrated, \* the guard's island is hydrated
    store,    \* $user, $isAuthLoading, $profile, $isRoleLoaded, $mustChangePassword
    boot,     \* bootstrapStatus of the guard
    net,      \* the requests of this document
    form,     \* the mounted form
    denied,   \* sessionStorage[DENIED_ROUTE_STORAGE_KEY]
    budget,   \* faults, gestures and expiries so far
    ghost     \* hops, clean, out: see the properties

vars == <<server, page, leaving, hydrated, store, boot, net, form, denied, budget, ghost>>

Public == {"login", "signup", "forgot", "reset"}
Protected == {"dash", "admin", "noaccess"}
Pages == Public \cup Protected \cup {"root"}
Stay == "stay"

\* Paths that no page of the build answers: nginx serves index.html for them.
Unbuilt == {"/error", "/lan/lan/no-access", "/lan/lan"}
Routed(path) == IF path \in Unbuilt THEN "root" ELSE path

Kinds == {"me", "profile", "bootstrap", "signin", "signup", "signout",
          "change", "recover", "resend", "consume"}
Answers == Outcomes \cup {"must_change", "admin", "user", "setup", "ready"}

---------------------------------------------------------------------------
(* The store                                                               *)

EmptyStore == [user |-> FALSE, loading |-> FALSE, profile |-> "none",
               roleLoaded |-> FALSE, must |-> FALSE]

\* Mutant: the sign-out forgets the profile but not $user.
clearUserKeepsUser(s) == [EmptyStore EXCEPT !.loading = s.loading, !.user = s.user]

\* clearUser also drops the profile and its two flags.
clearUser(s) == [EmptyStore EXCEPT !.loading = s.loading]

isSuperAdmin(s) == s.profile = "admin"

---------------------------------------------------------------------------
(* A document                                                              *)

\* What PasswordForgottenForm, ChangePasswordForm, LoginForm, SignupForm and
\* ResetPasswordForm keep while they are mounted.
FreshForm == [busy |-> FALSE, err |-> FALSE, success |-> FALSE, left |-> FALSE,
              phase |-> "request", cooldown |-> 0]

Idle == [k \in Kinds |-> "idle"]

\* A new document.  AuthProvider's effect calls getSession, which raises
\* $isAuthLoading and asks /me; the nested islands hydrate after it.  The
\* entry page has no provider: FirstRunGate asks for the bootstrap state
\* while the page's inline script is already leaving for the dashboard.
Open(p) ==
    /\ page' = p
    /\ hydrated' = FALSE
    /\ boot' = "null"
    /\ form' = FreshForm
    /\ store' = [EmptyStore EXCEPT !.loading = p # "root"]
    /\ net' = [Idle EXCEPT ![IF p = "root" THEN "bootstrap" ELSE "me"] = "sent"]
    /\ leaving' = IF p = "root" THEN "dash" ELSE Stay

---------------------------------------------------------------------------
(* The guards, as functions of the store and of bootstrapStatus            *)

\* ProtectedRoute renders its children.
ProtectedShows(s) == ~s.loading /\ s.user

\* Mutant: the form is on the screen while getSession is still out.
PublicShowsEarly(s, b) == ~s.user /\ b = IF page = "signup" THEN "setup" ELSE "ready"

\* PublicOnlyRoute renders its children; only the sign-up page wants a set-up.
PublicShows(s, b) ==
    /\ ~s.loading /\ ~s.user
    /\ b = IF page = "signup" THEN "setup" ELSE "ready"

Shows(s, b) ==
    IF page \in Protected THEN ProtectedShows(s) ELSE page \in Public /\ PublicShows(s, b)

\* OnlyAdminRoute renders its children.
AdminShows(s) == ProtectedShows(s) /\ s.roleLoaded /\ isSuperAdmin(s)

\* ChangePasswordGate opens its locked modal.
GateOpen(s) == ProtectedShows(s) /\ s.roleLoaded /\ s.must

\* The guard's first effect asks for the bootstrap state.
WantsBoot(s, b) ==
    /\ ~s.user /\ b = "null"
    /\ page \in Protected => ~s.loading

\* ProtectedRoute's second effect.
ProtectedTarget(s, b) ==
    IF s.loading \/ s.user \/ b = "null" THEN Stay
    ELSE IF b = "setup" THEN "signup" ELSE "login"

\* redirectTo prefixes the locale that OnlyAdminRoute has put there already.
AdminTarget(s) ==
    IF page = "admin" /\ ProtectedShows(s) /\ s.roleLoaded /\ ~isSuperAdmin(s)
    THEN "/lan/lan/no-access" ELSE Stay

\* Mutant: the login page has its test of needsSetup the wrong way round.
PublicTargetNegated(s, b) ==
    IF s.loading THEN Stay
    ELSE IF s.user THEN "dash"
    ELSE IF page # "signup" /\ b = "ready" THEN "signup"
    ELSE IF page = "signup" /\ b = "ready" THEN "login" ELSE Stay

\* PublicOnlyRoute's second effect, and the redirect in its render.
PublicTarget(s, b) ==
    IF s.loading THEN Stay
    ELSE IF s.user THEN "dash"
    ELSE IF page # "signup" /\ b = "setup" THEN "signup"
    ELSE IF page = "signup" /\ b = "ready" THEN "login" ELSE Stay

Target(s, b) ==
    IF page \in Public THEN PublicTarget(s, b)
    ELSE IF page \in Protected THEN
        IF ProtectedTarget(s, b) # Stay THEN ProtectedTarget(s, b) ELSE AdminTarget(s)
    ELSE Stay

\* The store and bootstrapStatus become s and b after a handler that asked to
\* leave for go; then the effects of the hydrated guard run, if what they
\* depend on has changed: a request for the bootstrap state, and a redirect
\* that replaces the handler's.
Settle(s, b, n, go) ==
    LET runs == hydrated /\ <<s.loading, s.user, b>> # <<store.loading, store.user, boot>>
        asks == runs /\ WantsBoot(s, b) /\ ~WantsBoot(store, boot)
        goal == IF runs THEN Target(s, b) ELSE IF hydrated THEN AdminTarget(s) ELSE Stay
    IN  /\ store' = s
        /\ boot' = b
        /\ net' = IF asks THEN [n EXCEPT !["bootstrap"] = "sent"] ELSE n
        /\ leaving' = IF goal # Stay THEN goal ELSE go
        /\ denied' = (denied \/ goal = "/lan/lan/no-access")

\* A guard that shows its children again mounts them anew.
Mounted(f, s, b) == IF Shows(store, boot) /\ Shows(s, b) THEN f ELSE FreshForm

Hydrate ==
    /\ page # "root" /\ ~hydrated
    /\ hydrated' = TRUE
    /\ net' = IF WantsBoot(store, boot) THEN [net EXCEPT !["bootstrap"] = "sent"] ELSE net
    /\ leaving' = IF Target(store, boot) # Stay THEN Target(store, boot) ELSE leaving
    /\ denied' = (denied \/ Target(store, boot) = "/lan/lan/no-access")
    /\ UNCHANGED <<server, page, store, boot, form, budget, ghost>>

\* The browser unloads the document; requests still out are abandoned.
Unload ==
    /\ leaving # Stay
    /\ Open(Routed(leaving))
    /\ ghost' = [hops |-> Min({ghost.hops + 1, HopCap}), clean |-> TRUE, out |-> FALSE]
    /\ UNCHANGED <<server, denied, budget>>

\* NoAccessNotice reads and clears the flag, and pushes its toast.
NoticeMounts ==
    /\ page = "noaccess" /\ hydrated /\ Shows(store, boot) /\ denied
    /\ denied' = FALSE
    /\ UNCHANGED <<server, page, leaving, hydrated, store, boot, net, form, budget, ghost>>

---------------------------------------------------------------------------
(* The backend, as far as the session sees it (external)                   *)

Answer(k) ==
    CASE k = "me"        -> IF server.session THEN "ok" ELSE "refused"
      [] k = "profile"   -> IF ~server.session THEN "refused"
                            ELSE IF server.must THEN "must_change"
                            ELSE IF server.admin THEN "admin" ELSE "user"
      [] k = "bootstrap" -> IF server.setup THEN "setup" ELSE "ready"
      [] k = "signin"    -> IF server.setup THEN "refused" ELSE "ok"
      [] k = "change"    -> IF server.session THEN "ok" ELSE "refused"
      [] k = "consume"   -> IF server.link THEN "ok" ELSE "refused"
      [] OTHER           -> "ok"

\* The first account to sign up is the administrator.
Effect(k) ==
    CASE k = "signin" /\ ~server.setup -> [server EXCEPT !.session = TRUE]
      [] k = "signup" -> [server EXCEPT !.session = TRUE, !.setup = FALSE,
                                        !.admin = server.setup, !.must = FALSE]
      [] k = "signout" -> [server EXCEPT !.session = FALSE]
      [] k = "change" /\ server.session -> [server EXCEPT !.must = FALSE]
      [] k = "consume" /\ server.link ->
            [server EXCEPT !.link = FALSE, !.must = FALSE]
      [] OTHER -> server

Serve(k) ==
    /\ net[k] = "sent"
    /\ net' = [net EXCEPT ![k] = Answer(k)]
    /\ server' = Effect(k)
    /\ UNCHANGED <<page, leaving, hydrated, store, boot, form, denied, budget, ghost>>

\* The request is refused or gets no answer; in that case the backend may
\* have handled it all the same.
Fault(k) ==
    /\ net[k] = "sent"
    /\ budget.faults < MaxFaults
    /\ \E o \in {"refused", "network"} : net' = [net EXCEPT ![k] = o]
    /\ server' \in IF net'[k] = "network" THEN {server, Effect(k)} ELSE {server}
    /\ budget' = [budget EXCEPT !.faults = @ + 1]
    /\ ghost' = [ghost EXCEPT !.hops = 0, !.clean = FALSE]
    /\ UNCHANGED <<page, leaving, hydrated, store, boot, form, denied>>

Expire ==
    /\ server.session /\ budget.expiries < MaxExpiries
    /\ server' = [server EXCEPT !.session = FALSE]
    /\ budget' = [budget EXCEPT !.expiries = @ + 1]
    /\ ghost' = [ghost EXCEPT !.hops = 0]
    /\ UNCHANGED <<page, leaving, hydrated, store, boot, net, form, denied>>

---------------------------------------------------------------------------
(* The answers, one handler each                                           *)

Answered(k) == net[k] \in Answers
Done(k) == [net EXCEPT ![k] = "idle"]

\* fetchProfile clears the gate's flag before it asks.
AskProfile(s) == [s EXCEPT !.must = FALSE]

\* fetchMe takes every failure for "not signed in".
fetchMe(o) == ~Rejects(o)

\* getSession: a session fills $user and starts fetchProfile.
GetSession ==
    LET user == fetchMe(net["me"])
        s == IF user THEN AskProfile([store EXCEPT !.user = TRUE]) ELSE clearUser(store)
        t == [s EXCEPT !.loading = FALSE]
    IN  /\ Answered("me")
        /\ Settle(t, boot, [Done("me") EXCEPT !["profile"] = IF user THEN "sent" ELSE @],
                  leaving)
        /\ form' = Mounted(form, t, boot)
        /\ UNCHANGED <<server, page, hydrated, budget, ghost>>

\* Mutants: the 403 is taken for an empty answer; the role is loaded only on
\* an answer that was expected.
ProfileLoadedNo403(s, o) ==
    [s EXCEPT !.roleLoaded = TRUE, !.profile = IF o \in {"admin", "user"} THEN o ELSE @]

ProfileLoadedOnce(s, o) ==
    [s EXCEPT !.roleLoaded = o \in {"admin", "user", "must_change"},
              !.must = (@ \/ o = "must_change"),
              !.profile = IF o \in {"admin", "user"} THEN o ELSE @]

\* The store after fetchProfile: the role is loaded whatever the answer.
ProfileLoaded(s, o) ==
    [s EXCEPT !.roleLoaded = TRUE,
              !.must = (@ \/ o = "must_change"),
              !.profile = IF o \in {"admin", "user"} THEN o ELSE @]

\* A changePassword that awaits fetchProfile then calls onSuccess, which leaves
\* for the dashboard.
FetchProfile ==
    LET o == net["profile"]
        awaited == net["change"] = "awaiting"
    IN  /\ Answered("profile")
        /\ Settle(ProfileLoaded(store, o), boot,
                  [Done("profile") EXCEPT !["change"] = IF awaited THEN "idle" ELSE @],
                  IF awaited THEN "dash" ELSE leaving)
        /\ UNCHANGED <<server, page, hydrated, form, budget, ghost>>

\* getStatus throws for anything but an answer.
needsSetup(o) == o = "setup"

\* The guards take a failure for "no set-up needed"; FirstRunGate leaves for a
\* page that is not built.
BootstrapStatus ==
    LET o == net["bootstrap"]
        b == IF needsSetup(o) THEN "setup" ELSE "ready"
        go == IF o \notin {"setup", "ready"} THEN "/error"
              ELSE IF needsSetup(o) THEN "signup" ELSE "login"
    IN  /\ Answered("bootstrap")
        /\ Settle(store, IF page = "root" THEN boot ELSE b, Done("bootstrap"),
                  IF page = "root" THEN go ELSE leaving)
        /\ form' = Mounted(form, store, b)
        /\ UNCHANGED <<server, page, hydrated, budget, ghost>>

SignedIn ==
    LET o == net["signin"]
        s == [store EXCEPT !.user = @ \/ ~Rejects(o)]
    IN  /\ Answered("signin")
        /\ Settle(s, boot, Done("signin"), IF Rejects(o) THEN leaving ELSE "dash")
        /\ form' = [form EXCEPT !.busy = FALSE, !.err = Rejects(o)]
        /\ UNCHANGED <<server, page, hydrated, budget, ghost>>

\* The guard had unmounted the form: a failure comes back to an empty one.
SignedUp ==
    LET o == net["signup"]
        s == [store EXCEPT !.user = @ \/ ~Rejects(o), !.loading = FALSE]
    IN  /\ Answered("signup")
        /\ Settle(s, boot, Done("signup"), IF Rejects(o) THEN leaving ELSE "dash")
        /\ form' = FreshForm
        /\ UNCHANGED <<server, page, hydrated, budget, ghost>>

\* signOut clears the store and leaves for the login page whatever happened.
SignedOut ==
    LET s == [clearUser(store) EXCEPT !.loading = FALSE]
    IN  /\ Answered("signout")
        /\ Settle(s, boot, Done("signout"), "login")
        /\ form' = FreshForm
        /\ ghost' = [ghost EXCEPT !.out = TRUE]
        /\ UNCHANGED <<server, page, hydrated, budget>>

\* changePassword goes on to fetchProfile unless the call threw; the flag that
\* fetchProfile clears closes the gate and unmounts the form.
Changed ==
    LET o == net["change"]
    IN  /\ Answered("change")
        /\ IF Resolves(o)
           THEN /\ Settle(AskProfile(store), boot,
                          [net EXCEPT !["change"] = "awaiting", !["profile"] = "sent"], leaving)
                /\ form' = FreshForm
           ELSE /\ Settle(store, boot, Done("change"), leaving)
                /\ form' = [form EXCEPT !.busy = FALSE, !.err = TRUE]
        /\ UNCHANGED <<server, page, hydrated, budget, ghost>>

\* The answer to a submit of PasswordForgottenForm, and to its resend, which
\* does not come back to the "sent" screen if the user has left it.
Recovered(k) ==
    /\ k \in {"recover", "resend"} /\ Answered(k)
    /\ net' = Done(k)
    /\ form' = IF Resolves(net[k])
               THEN [form EXCEPT !.busy = FALSE, !.cooldown = Cooldown,
                                 !.phase = IF k = "recover" THEN "sent" ELSE @]
               ELSE [form EXCEPT !.busy = FALSE, !.err = TRUE]
    /\ UNCHANGED <<server, page, leaving, hydrated, store, boot, denied, budget, ghost>>

\* ResetPasswordForm shows its success unless the call threw.
Consumed ==
    LET o == net["consume"]
    IN  /\ Answered("consume")
        /\ net' = Done("consume")
        /\ form' = [form EXCEPT !.busy = FALSE, !.success = Resolves(o), !.err = ~Resolves(o)]
        /\ UNCHANGED <<server, page, leaving, hydrated, store, boot, denied, budget, ghost>>

---------------------------------------------------------------------------
(* What the user does                                                      *)

Gesture ==
    /\ budget.gestures < MaxGestures
    /\ budget' = [budget EXCEPT !.gestures = @ + 1]
    /\ ghost' = [ghost EXCEPT !.hops = 0]

\* The form of page p is on the screen and its submit button is enabled.
FormReady(p) == page = p /\ hydrated /\ Shows(store, boot) /\ ~form.busy

\* The forms and the two screens of PasswordForgottenForm.
LoginForm == FormReady("login")
SignupForm == FormReady("signup")
RequestState == FormReady("forgot") /\ form.phase = "request"
SentState == FormReady("forgot") /\ form.phase = "sent"
ResetPasswordForm == FormReady("reset") /\ ~form.success

\* A submit that passes the form's own checks.
Submit(k) ==
    /\ form' = [form EXCEPT !.busy = TRUE, !.err = FALSE]
    /\ net' = [net EXCEPT ![k] = "sent"]
    /\ UNCHANGED <<server, page, leaving, hydrated, store, boot, denied>>

\* A submit that does not: the form only shows its error.
RefusedByForm ==
    /\ LoginForm \/ SignupForm \/ RequestState \/ ResetPasswordForm
    /\ Gesture
    /\ form' = [form EXCEPT !.err = TRUE]
    /\ UNCHANGED <<server, page, leaving, hydrated, store, boot, net, denied>>

SubmitLogin == LoginForm /\ Gesture /\ Submit("signin")

\* signUp raises the store's flag, and with it the guard's fallback.
SubmitSignup ==
    /\ SignupForm
    /\ Gesture
    /\ store' = [store EXCEPT !.loading = TRUE]
    /\ net' = [net EXCEPT !["signup"] = "sent"]
    /\ form' = FreshForm
    /\ UNCHANGED <<server, page, leaving, hydrated, boot, denied>>

SubmitForgot == RequestState /\ Gesture /\ Submit("recover")

Resend ==
    /\ SentState /\ form.cooldown = 0
    /\ Gesture /\ Submit("resend")

\* "Use a different email" keeps the cooldown running.
EditEmail ==
    /\ page = "forgot" /\ Shows(store, boot) /\ form.phase = "sent"
    /\ Gesture
    /\ form' = [form EXCEPT !.phase = "request", !.err = FALSE]
    /\ UNCHANGED <<server, page, leaving, hydrated, store, boot, net, denied>>

CooldownTick ==
    /\ page = "forgot" /\ form.cooldown > 0
    /\ form' = [form EXCEPT !.cooldown = @ - 1]
    /\ UNCHANGED <<server, page, leaving, hydrated, store, boot, net, denied, budget, ghost>>

SubmitReset == ResetPasswordForm /\ Gesture /\ Submit("consume")

\* Three seconds after its success the form leaves for the login page.
ResetLeaves ==
    /\ page = "reset" /\ form.success /\ ~form.left
    /\ leaving' = "login"
    /\ form' = [form EXCEPT !.left = TRUE]
    /\ UNCHANGED <<server, page, hydrated, store, boot, net, denied, budget, ghost>>

SubmitChange ==
    /\ page \in Protected /\ hydrated /\ GateOpen(store) /\ ~form.busy
    /\ Gesture /\ Submit("change")

\* The menu of Topbar; the gate's locked modal covers it.
SignOut ==
    /\ page \in Protected /\ hydrated /\ ~GateOpen(store)
    /\ IF page = "admin" THEN AdminShows(store) ELSE ProtectedShows(store)
    /\ Gesture
    /\ store' = [store EXCEPT !.loading = TRUE]
    /\ net' = [net EXCEPT !["signout"] = "sent"]
    /\ UNCHANGED <<server, page, leaving, hydrated, boot, form, denied>>

\* A link, a typed address, or the notice's button with its doubled locale.
Navigate ==
    /\ Gesture
    /\ leaving' \in Pages \cup (IF page = "noaccess" THEN {"/lan/lan"} ELSE {})
    /\ leaving' # leaving
    /\ UNCHANGED <<server, page, hydrated, store, boot, net, form, denied>>

---------------------------------------------------------------------------

Init ==
    /\ \E p \in Pages :
        /\ page = p
        /\ store = [EmptyStore EXCEPT !.loading = p # "root"]
        /\ net = [Idle EXCEPT ![IF p = "root" THEN "bootstrap" ELSE "me"] = "sent"]
        /\ leaving = IF p = "root" THEN "dash" ELSE Stay
    /\ server \in {x \in [setup : BOOLEAN, session : BOOLEAN, admin : BOOLEAN,
                           must : BOOLEAN, link : BOOLEAN] :
                      x.setup => ~x.session /\ ~x.must /\ ~x.admin /\ ~x.link}
    /\ hydrated = FALSE /\ boot = "null" /\ form = FreshForm /\ denied = FALSE
    /\ budget = [faults |-> 0, gestures |-> 0, expiries |-> 0]
    /\ ghost = [hops |-> 0, clean |-> TRUE, out |-> FALSE]

Deliver ==
    \/ GetSession \/ FetchProfile \/ BootstrapStatus \/ SignedIn \/ SignedUp
    \/ SignedOut \/ Changed \/ Consumed \/ \E k \in Kinds : Recovered(k)

User ==
    \/ RefusedByForm \/ SubmitLogin \/ SubmitSignup \/ SubmitForgot \/ Resend \/ EditEmail
    \/ SubmitReset \/ SubmitChange \/ SignOut \/ Navigate

Next ==
    \/ Hydrate \/ Unload \/ NoticeMounts \/ CooldownTick \/ ResetLeaves
    \/ Deliver \/ User \/ Expire
    \/ \E k \in Kinds : Serve(k) \/ Fault(k)

Spec == Init /\ [][Next]_vars

\* Islands hydrate, timers fire, asked-for navigations happen, and the browser
\* ends every request with an answer or an error.  Nothing is asked of the user.
FairSpec ==
    /\ Spec
    /\ WF_vars(Hydrate) /\ WF_vars(Unload) /\ WF_vars(NoticeMounts)
    /\ WF_vars(CooldownTick) /\ WF_vars(ResetLeaves)
    /\ WF_vars(Deliver)
    /\ \A k \in Kinds : WF_vars(Serve(k) \/ Fault(k))

---------------------------------------------------------------------------
(* Properties                                                              *)

Flight(k) == net[k] \notin {"idle", "awaiting"}
Quiet == leaving = Stay /\ (page # "root" => hydrated) /\ \A k \in Kinds : net[k] = "idle"
Shown == hydrated /\ Shows(store, boot)

\* $isAuthLoading and the forms' flags are shared by operations that know
\* nothing of each other; still, a flag is up exactly while one request that
\* raised it is out, so none is cleared early and none stays up.
FlagsAreOwned ==
    /\ Cardinality({k \in {"me", "signup", "signout"} : Flight(k)}) = IF store.loading THEN 1 ELSE 0
    /\ Cardinality({k \in {"signin", "change", "recover", "resend", "consume"} : Flight(k)})
            = IF form.busy THEN 1 ELSE 0

\* Guards of two pages that each send the visitor to the other would never
\* end.  From the last gesture, failure or expiry at most four documents are
\* opened, through the doubled locale of the admin gate and the entry page too.
RedirectsEnd == ghost.hops <= 4

\* Once a page has come to rest with every answer good, the password gate is
\* open exactly when the backend still asks for a new password, and the admin
\* tree is on the screen only for an administrator.
GatesFollowServer ==
    /\ (Quiet /\ Shown /\ page \in Protected /\ ghost.clean /\ server.session)
            => (GateOpen(store) <=> server.must)
    /\ (Shown /\ page = "admin" /\ AdminShows(store)) => server.admin

\* A profile that arrives after the sign-out fills $profile and $isRoleLoaded
\* again; still no answer signs the user back in, and no protected page comes
\* back before the document is left.
NothingAfterSignOut == ghost.out => ~store.user /\ ~Shown /\ leaving # Stay

\* Whatever failed, the visitor ends on a page that shows its content: no
\* fallback stays for ever and no redirect is repeated for ever.
Settles ==
    <>[](Quiet /\ Shown /\ (page = "admin" => AdminShows(store)))

=============================================================================
