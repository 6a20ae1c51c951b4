---------------------------- MODULE AccountProofs ----------------------------
(***************************************************************************)
(* Proofs about the account: signing in and out of the web client and its  *)
(* gates (Session), and the recovery of a password (PasswordReset).  For   *)
(* any number of gestures, failures and expired sessions the flags of the  *)
(* session's operations are owned, no late answer signs a user back in or  *)
(* shows a protected page after the sign-out, the gates agree with the     *)
(* server and redirects come to an end.  For any number of requests,       *)
(* consumes, accounts and addresses a link is used once under every race,  *)
(* only the winner of a mailed link sets a password, 200 means what it     *)
(* says, a newer link supersedes the older ones, and no account gets more  *)
(* mails than its quota.                                                   *)
(***************************************************************************)
EXTENDS Session, PasswordReset, FiniteSetTheorems, TLAPS

(***************************************************************************)
(* Session: the web client                                                 *)
(***************************************************************************)

Stores == [user : BOOLEAN, loading : BOOLEAN, profile : {"none", "admin", "user"},
           roleLoaded : BOOLEAN, must : BOOLEAN]
Boots == {"null", "setup", "ready"}
Nets == [Kinds -> {"idle", "sent", "awaiting"} \cup Answers]
Forms == [busy : BOOLEAN, err : BOOLEAN, success : BOOLEAN, left : BOOLEAN,
          phase : {"request", "sent"}, cooldown : Nat]
Servers == [setup : BOOLEAN, session : BOOLEAN, admin : BOOLEAN, must : BOOLEAN, link : BOOLEAN]
Places == Pages \cup Unbuilt \cup {Stay}
Ghosts == [hops : Nat, clean : BOOLEAN, out : BOOLEAN]

---------------------------------------------------------------------------
(* The inductive invariant.  Every request is tied to the page that sends  *)
(* it and to what that page shows: this keeps requests that share a flag   *)
(* apart.                                                                  *)

Typed ==
    /\ server \in Servers /\ page \in Pages /\ leaving \in Places
    /\ hydrated \in BOOLEAN
    /\ store \in Stores /\ boot \in Boots
    /\ net \in Nets /\ form \in Forms /\ ghost \in Ghosts

Owners ==
    /\ Flight("signin") => page = "login"
    /\ Flight("recover") \/ Flight("resend") => page = "forgot"
    /\ Flight("consume") => page = "reset"
    /\ Flight("signup") => page = "signup" /\ ~store.user
    /\ Flight("signout") => page \in Protected
    /\ Flight("change") => page \in Protected /\ GateOpen(store)
    /\ \A k \in {"signin", "recover", "resend", "consume"} :
          Flight(k) => ~store.loading /\ boot # "null"
    /\ Flight("bootstrap") => boot = "null"

\* FlagsAreOwned without cardinalities.
Flags ==
    /\ store.loading <=> (Flight("me") \/ Flight("signup") \/ Flight("signout"))
    /\ ~(Flight("me") /\ (Flight("signup") \/ Flight("signout")))
    /\ form.busy <=> (\/ Flight("signin") \/ Flight("change") \/ Flight("recover")
                      \/ Flight("resend") \/ Flight("consume"))
    /\ ~(Flight("recover") /\ Flight("resend"))

\* The document that has signed out knows no user and is being left.
GoneForGood ==
    ghost.out => page \in Protected /\ ~store.user /\ ~store.loading /\ leaving # Stay

\* Where nobody is signed in no profile is kept or asked for, and an
\* administrator's profile was the server's.
Roles ==
    /\ page \notin Protected /\ ~store.user => store.profile = "none" /\ net["profile"] = "idle"
    /\ Flight("me") => ~store.user /\ store.profile = "none" /\ net["profile"] = "idle"
    /\ (store.profile = "admin" \/ net["profile"] = "admin") => server.admin

\* While no request has failed and the session lasts, the profile that is
\* kept or on its way agrees with the server about the forced change.
Gate ==
    /\ net["profile"] # "idle" => ~store.must /\ ~Flight("change")
    /\ (page \in Protected /\ ghost.clean /\ server.session) =>
        /\ net["profile"] \in {"idle", "sent", "must_change", "admin", "user"}
        /\ net["profile"] \in {"must_change", "admin", "user"}
              => (net["profile"] = "must_change" <=> server.must)
        /\ (store.user /\ net["profile"] = "idle")
              => store.roleLoaded /\ (net["change"] # "ok" => (store.must <=> server.must))

SessionInv == Typed /\ Owners /\ Flags /\ GoneForGood /\ Roles /\ Gate

---------------------------------------------------------------------------
(* Lemmas about the operators                                              *)

\* The guards redirect to pages, and to the doubled locale.
LEMMA TargetPlaces ==
    ASSUME NEW s, NEW b
    PROVE  Target(s, b) \in Places /\ AdminTarget(s) \in Places
BY DEF Target, PublicTarget, ProtectedTarget, AdminTarget, Places, Pages, Public, Protected,
       Unbuilt, Stay

\* What Settle does to the state that the invariant speaks of: apart from the
\* bootstrap request, which is only asked for while its answer is not known,
\* the handler's requests are kept; and a document that is being left stays so.
LEMMA SettleKeeps ==
    ASSUME NEW s, NEW b \in Boots, NEW n \in Nets, NEW go \in Places, Settle(s, b, n, go)
    PROVE  /\ store' = s /\ boot' = b
           /\ net' \in Nets
           /\ \A k \in Kinds \ {"bootstrap"} : net'[k] = n[k]
           /\ net'["bootstrap"] = n["bootstrap"] \/ (net'["bootstrap"] = "sent" /\ b = "null")
           /\ leaving' \in Places /\ (go # Stay => leaving' # Stay)
<1> DEFINE runs == hydrated /\ <<s.loading, s.user, b>> # <<store.loading, store.user, boot>>
           asks == runs /\ WantsBoot(s, b) /\ ~WantsBoot(store, boot)
           goal == IF runs THEN Target(s, b) ELSE IF hydrated THEN AdminTarget(s) ELSE Stay
<1>1. /\ store' = s /\ boot' = b
      /\ net' = IF asks THEN [n EXCEPT !["bootstrap"] = "sent"] ELSE n
      /\ leaving' = IF goal # Stay THEN goal ELSE go
  BY DEF Settle
<1>2. asks => b = "null"
  BY DEF WantsBoot
<1>6. goal \in Places
  BY TargetPlaces DEF Places
<1> HIDE DEF asks, goal
<1>3. net' \in Nets
  BY <1>1 DEF Nets, Kinds
<1>4. \A k \in Kinds \ {"bootstrap"} : net'[k] = n[k]
  BY <1>1 DEF Nets, Kinds
<1>5. net'["bootstrap"] = n["bootstrap"] \/ (net'["bootstrap"] = "sent" /\ b = "null")
  BY <1>1, <1>2 DEF Nets, Kinds
<1> QED BY <1>1, <1>3, <1>4, <1>5, <1>6

\* A fresh form is not busy.
LEMMA FreshForms == FreshForm \in Forms /\ FreshForm.busy = FALSE
BY DEF FreshForm, Forms

\* The form stays typed, and is kept only where it stays on the screen.
LEMMA MountedForms ==
    ASSUME NEW f \in Forms, NEW s, NEW b
    PROVE  /\ Mounted(f, s, b) \in Forms
           /\ Mounted(f, s, b) = f \/ (Mounted(f, s, b) = FreshForm /\ ~(Shows(store, boot) /\ Shows(s, b)))
BY DEF Mounted, FreshForm, Forms

\* The redirect counter stays a number.
LEMMA HopsCounted == \A h \in Nat : Min({h + 1, HopCap}) \in Nat
<1> SUFFICES ASSUME NEW h \in Nat PROVE Min({h + 1, HopCap}) \in Nat
  OBVIOUS
<1>1. HopCap \in Nat
  BY SessionConstants
<1>2. \E x \in {h + 1, HopCap} : \A y \in {h + 1, HopCap} : x <= y
  <2>1. CASE h + 1 <= HopCap
    BY <1>1, <2>1
  <2>2. CASE ~(h + 1 <= HopCap)
    BY <1>1, <2>2
  <2> QED BY <2>1, <2>2
<1>3. Min({h + 1, HopCap}) \in {h + 1, HopCap}
  BY <1>2 DEF Min
<1> QED BY <1>1, <1>3

\* The backend's answers and what it keeps.
LEMMA ServerTyped ==
    ASSUME server \in Servers, NEW k \in Kinds
    PROVE  /\ Answer(k) \in Answers
           /\ Effect(k) \in Servers
BY DEF Servers, Kinds, Answer, Answers, Outcomes, Effect

---------------------------------------------------------------------------
(* The first document, and every one after it                              *)

\* A document starts with one request: for the session, or on the entry page
\* for the bootstrap state.
Starts(p, s, n) ==
    /\ s = [EmptyStore EXCEPT !.loading = p # "root"]
    /\ n = [Idle EXCEPT ![IF p = "root" THEN "bootstrap" ELSE "me"] = "sent"]

\* Its requests and its store in detail.
LEMMA StartsWell ==
    ASSUME NEW p \in Pages, NEW s, NEW n, Starts(p, s, n)
    PROVE  /\ s \in Stores /\ n \in Nets
           /\ \A k \in Kinds : n[k] = IF k = (IF p = "root" THEN "bootstrap" ELSE "me")
                                      THEN "sent" ELSE "idle"
           /\ ~s.user /\ s.profile = "none" /\ ~s.must /\ (s.loading <=> p # "root")
BY DEF Starts, Stores, Nets, Kinds, EmptyStore, Idle

\* The first document satisfies the invariant.
LEMMA SessionInitInv == Init => SessionInv
<1> SUFFICES ASSUME Init PROVE SessionInv
  OBVIOUS
<1>1. page \in Pages /\ Starts(page, store, net)
  BY DEF Init, Starts
<1>2. leaving \in Places /\ form = FreshForm /\ boot = "null" /\ ghost.out = FALSE
  BY DEF Init, Places, Pages, Protected, Stay
<1>3. Typed
  <2>1. server \in Servers /\ hydrated \in BOOLEAN
    BY DEF Init, Servers
  <2>2. ghost \in Ghosts
    BY DEF Init, Ghosts
  <2>3. form \in Forms
    BY <1>2 DEF FreshForm, Forms
  <2> QED
    BY <1>1, <1>2, <2>1, <2>2, <2>3, StartsWell DEF Typed, Boots
<1> QED
  BY <1>1, <1>2, <1>3, StartsWell
  DEF SessionInv, Owners, Flags, GoneForGood, Roles, Gate, Flight, Kinds, FreshForm

\* So does every document that replaces another.
LEMMA UnloadInv == SessionInv /\ Unload => SessionInv'
<1> SUFFICES ASSUME SessionInv, Unload PROVE SessionInv'
  OBVIOUS
<1>1. page' \in Pages
  BY DEF SessionInv, Typed, Unload, Open, Routed, Places, Stay, Unbuilt, Pages
<1>2. Starts(page', store', net') /\ boot' = "null" /\ form' = FreshForm /\ hydrated' = FALSE
  BY DEF Unload, Open, Starts
<1>3. leaving' \in Places /\ server' = server
  BY DEF Unload, Open, Places, Pages, Protected, Stay
<1>4. ghost' \in Ghosts /\ ~ghost'.out
  BY HopsCounted DEF SessionInv, Typed, Unload, Ghosts
<1>5. Typed'
  BY <1>1, <1>2, <1>3, <1>4, StartsWell DEF SessionInv, Typed, Boots, FreshForm, Forms
<1> QED
  BY <1>1, <1>2, <1>4, <1>5, StartsWell
  DEF SessionInv, Owners, Flags, GoneForGood, Roles, Gate, Flight, Kinds, FreshForm

---------------------------------------------------------------------------
(* The browser's and the backend's steps                                   *)

\* Steps that leave store, requests, busy flag and backend alone.
LEMMA QuietInv ==
    ASSUME SessionInv, page' = page, store' = store, boot' = boot, net' = net,
           server' = server \/ server' = [server EXCEPT !.session = FALSE],
           form' \in Forms, form'.busy = form.busy, hydrated' = hydrated,
           leaving' \in Places, leaving # Stay => leaving' # Stay,
           ghost' \in Ghosts, ghost'.clean = ghost.clean, ghost'.out = ghost.out
    PROVE  SessionInv'
<1>1. /\ server' \in Servers /\ server'.admin = server.admin /\ server'.must = server.must
      /\ server'.session => server.session
  BY DEF SessionInv, Typed, Servers
<1>2. Typed'
  BY <1>1 DEF SessionInv, Typed
<1>3. Owners' /\ Flags'
  BY DEF SessionInv, Owners, Flags, Flight, GateOpen, ProtectedShows
<1>4. GoneForGood'
  BY DEF SessionInv, GoneForGood
<1>5. Roles'
  BY <1>1 DEF SessionInv, Roles, Flight
<1>6. Gate'
  BY <1>1 DEF SessionInv, Gate, Flight
<1> QED BY <1>2, <1>3, <1>4, <1>5, <1>6 DEF SessionInv

\* Hydration runs the guard's effects for the first time.
LEMMA HydrateInv == SessionInv /\ Hydrate => SessionInv'
<1> SUFFICES ASSUME SessionInv, Hydrate PROVE SessionInv'
  OBVIOUS
<1>1. /\ net' \in Nets
      /\ \A k \in Kinds \ {"bootstrap"} : net'[k] = net[k]
      /\ net'["bootstrap"] = net["bootstrap"] \/ boot = "null"
  BY DEF SessionInv, Typed, Hydrate, Nets, Kinds, WantsBoot
<1>2. leaving' \in Places /\ (leaving # Stay => leaving' # Stay)
  BY TargetPlaces DEF SessionInv, Typed, Hydrate
<1>3. UNCHANGED <<server, page, store, boot, form, ghost>> /\ hydrated' = TRUE
  BY DEF Hydrate
<1>4. Typed'
  BY <1>1, <1>2, <1>3 DEF SessionInv, Typed
<1>5. Owners' /\ Flags'
  BY <1>1, <1>3 DEF SessionInv, Owners, Flags, Flight, GateOpen, ProtectedShows, Kinds
<1>6. GoneForGood' /\ Roles' /\ Gate'
  BY <1>1, <1>2, <1>3 DEF SessionInv, GoneForGood, Roles, Gate, Flight, Kinds
<1> QED BY <1>4, <1>5, <1>6 DEF SessionInv

\* A request that is answered, well or not, is still the request that was out.
LEMMA AnswerKeepsFlags ==
    ASSUME SessionInv, NEW k \in Kinds, NEW o \in Answers, net[k] = "sent",
           net' = [net EXCEPT ![k] = o],
           UNCHANGED <<page, leaving, hydrated, store, boot, form>>
    PROVE  /\ net' \in Nets /\ \A j \in Kinds : Flight(j)' <=> Flight(j)
           /\ Owners' /\ Flags'
           /\ ghost'.out = ghost.out => GoneForGood'
<1>1. net' \in Nets
  BY DEF SessionInv, Typed, Nets
<1>2. \A j \in Kinds : Flight(j)' <=> Flight(j)
  BY DEF SessionInv, Typed, Nets, Flight, Answers, Outcomes
<1>3. Owners'
  BY <1>2 DEF SessionInv, Owners, GateOpen, ProtectedShows, Kinds
<1>4. Flags'
  BY <1>2 DEF SessionInv, Flags, Kinds
<1> QED BY <1>1, <1>2, <1>3, <1>4 DEF SessionInv, GoneForGood

\* The backend answers a request, with its effect on sessions and accounts.
LEMMA ServeInv == ASSUME NEW k \in Kinds PROVE SessionInv /\ Serve(k) => SessionInv'
<1> SUFFICES ASSUME SessionInv, Serve(k) PROVE SessionInv'
  OBVIOUS
<1>1. /\ net[k] = "sent" /\ net' = [net EXCEPT ![k] = Answer(k)] /\ server' = Effect(k)
      /\ UNCHANGED <<page, leaving, hydrated, store, boot, form, ghost>>
  BY DEF Serve
<1>2. Answer(k) \in Answers /\ Effect(k) \in Servers
  BY ServerTyped DEF SessionInv, Typed
<1>3. /\ net' \in Nets /\ \A j \in Kinds : Flight(j)' <=> Flight(j)
      /\ Owners' /\ Flags' /\ GoneForGood'
  BY <1>1, <1>2, AnswerKeepsFlags
<1>4. Typed'
  BY <1>1, <1>2, <1>3 DEF SessionInv, Typed
<1>5. Flight(k)
  BY <1>1 DEF Flight
<1>6. net'[k] = Answer(k) /\ \A j \in Kinds \ {k} : net'[j] = net[j]
  BY <1>1 DEF SessionInv, Typed, Nets
<1>7. /\ server'.admin = server.admin \/ k = "signup"
      /\ server'.must = server.must \/ k \in {"signup", "change", "consume"}
      /\ server'.session => server.session \/ k \in {"signin", "signup"}
  BY <1>1 DEF SessionInv, Typed, Servers, Effect, Kinds
<1>8. Roles'
  <2>1. k = "signup" => store.profile = "none" /\ net["profile"] = "idle"
    BY <1>5 DEF SessionInv, Owners, Roles, Protected
  <2>2. net'["profile"] = "admin" => server'.admin
    BY <1>6, <1>7, <2>1 DEF SessionInv, Roles, Answer, Kinds
  <2>3. k = "profile" => net["profile"] # "idle"
    BY <1>1
  <2> QED
    BY <1>1, <1>3, <1>6, <1>7, <2>1, <2>2, <2>3 DEF SessionInv, Roles, Kinds
<1>9. Gate'
  <2>1. k = "change" => net["profile"] = "idle"
    BY <1>5 DEF SessionInv, Gate
  <2>2. net'["profile"] # "idle" => net["profile"] # "idle"
    BY <1>1, <1>6 DEF Kinds
  <2>3. net'["profile"] # "idle" => ~store'.must /\ ~Flight("change")'
    BY <1>1, <1>3, <2>2 DEF SessionInv, Gate, Kinds
  <2>4. ASSUME page' \in Protected, ghost'.clean, server'.session
        PROVE  /\ net'["profile"] \in {"idle", "sent", "must_change", "admin", "user"}
               /\ net'["profile"] \in {"must_change", "admin", "user"}
                     => (net'["profile"] = "must_change" <=> server'.must)
               /\ (store'.user /\ net'["profile"] = "idle")
                     => store'.roleLoaded /\ (net'["change"] # "ok" => (store'.must <=> server'.must))
    <3>1. k \notin {"signin", "signup", "consume"}
      BY <1>1, <1>5, <2>4 DEF SessionInv, Owners, Protected
    <3>2. server.session /\ page \in Protected /\ ghost.clean
      BY <1>1, <1>7, <2>4, <3>1
    <3>3. CASE k = "profile"
      <4>1. net'["profile"] = IF server.must THEN "must_change"
                              ELSE IF server.admin THEN "admin" ELSE "user"
        BY <1>6, <3>2, <3>3 DEF Answer
      <4>2. server'.must = server.must
        BY <1>7, <3>3
      <4> QED BY <4>1, <4>2 DEF SessionInv, Typed, Servers
    <3>4. CASE k = "change"
      <4>1. net'["change"] = "ok" /\ net'["profile"] = "idle"
        BY <1>6, <2>1, <3>2, <3>4 DEF Answer, Kinds
      <4>2. store.user => store.roleLoaded
        BY <2>1, <3>2, <3>4 DEF SessionInv, Gate
      <4>3. store' = store
        BY <1>1
      <4> QED BY <4>1, <4>2, <4>3
    <3>5. CASE k \notin {"profile", "change"}
      <4>1. server'.must = server.must /\ net'["profile"] = net["profile"] /\ net'["change"] = net["change"]
        BY <1>6, <1>7, <3>1, <3>5 DEF Kinds
      <4> QED BY <1>1, <3>2, <4>1 DEF SessionInv, Gate
    <3> QED BY <3>3, <3>4, <3>5
  <2> QED BY <2>3, <2>4 DEF Gate
<1> QED BY <1>3, <1>4, <1>8, <1>9 DEF SessionInv

\* A request is refused or gets no answer; what the page knows is then in doubt.
LEMMA FaultInv == ASSUME NEW k \in Kinds PROVE SessionInv /\ Fault(k) => SessionInv'
<1> SUFFICES ASSUME SessionInv, Fault(k) PROVE SessionInv'
  OBVIOUS
<1>1. PICK o \in {"refused", "network"} : net' = [net EXCEPT ![k] = o]
  BY DEF Fault
<1>2. /\ net[k] = "sent" /\ server' \in {server, Effect(k)}
      /\ ghost' = [ghost EXCEPT !.hops = 0, !.clean = FALSE]
      /\ UNCHANGED <<page, leaving, hydrated, store, boot, form>>
  BY DEF Fault
<1>3. o \in Answers /\ server' \in Servers
  BY <1>1, <1>2, ServerTyped DEF SessionInv, Typed, Answers, Outcomes
<1>4. ghost' \in Ghosts /\ ghost'.out = ghost.out /\ ~ghost'.clean
  BY <1>2 DEF SessionInv, Typed, Ghosts
<1>5. /\ net' \in Nets /\ \A j \in Kinds : Flight(j)' <=> Flight(j)
      /\ Owners' /\ Flags' /\ GoneForGood'
  BY <1>1, <1>2, <1>3, <1>4, AnswerKeepsFlags
<1>6. Typed'
  BY <1>2, <1>3, <1>4, <1>5 DEF SessionInv, Typed
<1>7. net'[k] = o /\ \A j \in Kinds \ {k} : net'[j] = net[j]
  BY <1>1 DEF SessionInv, Typed, Nets
<1>8. Roles'
  <2>1. server'.admin = server.admin \/ k = "signup"
    BY <1>2 DEF SessionInv, Typed, Servers, Effect, Kinds
  <2>2. k = "signup" => store.profile = "none" /\ net["profile"] = "idle"
    BY <1>2 DEF SessionInv, Owners, Roles, Protected, Flight
  <2> QED
    BY <1>1, <1>2, <1>5, <1>7, <2>1, <2>2 DEF SessionInv, Roles, Kinds
<1>9. Gate'
  BY <1>2, <1>4, <1>5, <1>7 DEF SessionInv, Gate, Kinds
<1> QED BY <1>5, <1>6, <1>8, <1>9 DEF SessionInv

---------------------------------------------------------------------------
(* The answers                                                             *)

\* What the handlers share: every request but the ones they name is kept.
LEMMA DoneNet ==
    ASSUME SessionInv, NEW k \in Kinds
    PROVE  /\ Done(k) \in Nets /\ Done(k)[k] = "idle"
           /\ \A j \in Kinds \ {k} : Done(k)[j] = net[j]
BY DEF SessionInv, Typed, Done, Nets

\* getSession ends: a user or none, and the profile is asked for.
LEMMA GetSessionInv == SessionInv /\ GetSession => SessionInv'
<1> SUFFICES ASSUME SessionInv, GetSession PROVE SessionInv'
  OBVIOUS
<1> DEFINE user == fetchMe(net["me"])
           s == IF user THEN AskProfile([store EXCEPT !.user = TRUE]) ELSE clearUser(store)
           t == [s EXCEPT !.loading = FALSE]
           n == [Done("me") EXCEPT !["profile"] = IF user THEN "sent" ELSE @]
<1>1. /\ Answered("me") /\ Settle(t, boot, n, leaving) /\ form' = Mounted(form, t, boot)
      /\ UNCHANGED <<server, page, hydrated, ghost>>
  BY DEF GetSession
<1>2. Flight("me") /\ ~Flight("signup") /\ ~Flight("signout") /\ store.loading
  BY <1>1 DEF SessionInv, Flags, Answered, Flight, Answers, Outcomes
<1>3. /\ \A k \in {"signin", "recover", "resend", "consume", "change"} : ~Flight(k)
      /\ net["profile"] = "idle" /\ ~ghost.out
  BY <1>2 DEF SessionInv, Owners, Roles, GoneForGood, GateOpen, ProtectedShows
<1>4. /\ t \in Stores /\ ~t.loading /\ ~t.must
      /\ t.user <=> user
      /\ ~user => t.profile = "none"
      /\ t.profile = "admin" => store.profile = "admin"
  BY DEF SessionInv, Typed, Stores, AskProfile, clearUser, EmptyStore, fetchMe
<1>5. /\ n \in Nets /\ n["me"] = "idle" /\ n["profile"] = IF user THEN "sent" ELSE "idle"
      /\ \A k \in Kinds \ {"me", "profile"} : n[k] = net[k]
  <2>1. /\ Done("me") \in Nets /\ Done("me")["me"] = "idle"
        /\ \A j \in Kinds \ {"me"} : Done("me")[j] = net[j]
    BY DoneNet DEF Kinds
  <2> QED BY <1>3, <2>1 DEF Nets, Kinds
<1> HIDE DEF user, s, t, n
<1>6. /\ store' = t /\ boot' = boot /\ net' \in Nets /\ leaving' \in Places
      /\ \A k \in Kinds \ {"bootstrap"} : net'[k] = n[k]
      /\ net'["bootstrap"] = n["bootstrap"] \/ (net'["bootstrap"] = "sent" /\ boot = "null")
  BY <1>1, <1>5, SettleKeeps DEF SessionInv, Typed
<1>7. form' \in Forms /\ ~form'.busy
  <2>1. ~form.busy
    BY <1>3 DEF SessionInv, Flags
  <2> QED BY <1>1, <2>1, MountedForms DEF SessionInv, Typed, FreshForm
<1>8. Typed'
  BY <1>1, <1>4, <1>6, <1>7 DEF SessionInv, Typed
<1>9. \A k \in Kinds \ {"me", "profile", "bootstrap"} : net'[k] = net[k]
  BY <1>5, <1>6
<1>10. net'["me"] = "idle" /\ net'["profile"] = IF user THEN "sent" ELSE "idle"
  BY <1>5, <1>6 DEF Kinds
<1>11. Flight("bootstrap")' => boot' = "null"
  BY <1>5, <1>6 DEF SessionInv, Owners, Flight, Kinds
<1>12. \A k \in Kinds \ {"profile", "bootstrap"} : ~Flight(k)'
  BY <1>2, <1>3, <1>9, <1>10 DEF Flight, Kinds
<1>13. Owners' /\ Flags'
  BY <1>4, <1>6, <1>7, <1>11, <1>12 DEF Owners, Flags, Kinds
<1>14. GoneForGood'
  BY <1>1, <1>3 DEF GoneForGood
<1>15. Roles'
  BY <1>1, <1>4, <1>6, <1>10, <1>12 DEF SessionInv, Roles, Kinds
<1>16. Gate'
  BY <1>4, <1>6, <1>10, <1>12 DEF Gate, Kinds
<1> QED BY <1>8, <1>13, <1>14, <1>15, <1>16 DEF SessionInv

\* fetchProfile ends, also for a changePassword that awaits it.
LEMMA FetchProfileInv == SessionInv /\ FetchProfile => SessionInv'
<1> SUFFICES ASSUME SessionInv, FetchProfile PROVE SessionInv'
  OBVIOUS
<1> DEFINE o == net["profile"]
           awaited == net["change"] = "awaiting"
           t == ProfileLoaded(store, o)
           n == [Done("profile") EXCEPT !["change"] = IF awaited THEN "idle" ELSE @]
           go == IF awaited THEN "dash" ELSE leaving
<1>1. /\ Answered("profile") /\ Settle(t, boot, n, go)
      /\ UNCHANGED <<server, page, hydrated, form, ghost>>
  BY DEF FetchProfile
<1>2. o # "idle" /\ o \in Answers
  BY <1>1 DEF Answered, Answers, Outcomes
<1>3. ~Flight("change") /\ ~Flight("me") /\ ~store.must
  BY <1>2 DEF SessionInv, Roles, Gate
<1>4. page \notin Protected => store.user
  BY <1>2 DEF SessionInv, Roles
<1>5. /\ t \in Stores /\ t.loading = store.loading /\ t.user = store.user
      /\ t.roleLoaded /\ (t.must <=> o = "must_change")
      /\ t.profile = "admin" => server.admin
  BY <1>3 DEF SessionInv, Typed, Stores, ProfileLoaded, Roles
<1>6. /\ n \in Nets /\ n["profile"] = "idle" /\ n["change"] \in {net["change"], "idle"}
      /\ \A k \in Kinds \ {"profile", "change"} : n[k] = net[k]
  <2>1. /\ Done("profile") \in Nets /\ Done("profile")["profile"] = "idle"
        /\ \A j \in Kinds \ {"profile"} : Done("profile")[j] = net[j]
    BY DoneNet DEF Kinds
  <2> QED BY <2>1 DEF Nets, Kinds
<1>7. go \in Places /\ (leaving # Stay => go # Stay)
  BY DEF SessionInv, Typed, Places, Pages, Protected, Stay
<1> HIDE DEF o, t, n, go
<1>8. /\ store' = t /\ boot' = boot /\ net' \in Nets /\ leaving' \in Places
      /\ leaving # Stay => leaving' # Stay
      /\ \A k \in Kinds \ {"bootstrap"} : net'[k] = n[k]
      /\ net'["bootstrap"] = n["bootstrap"] \/ (net'["bootstrap"] = "sent" /\ boot = "null")
  BY <1>1, <1>6, <1>7, SettleKeeps DEF SessionInv, Typed
<1>9. Typed'
  BY <1>1, <1>5, <1>8 DEF SessionInv, Typed
<1>10. /\ \A k \in Kinds \ {"profile", "change", "bootstrap"} : net'[k] = net[k]
       /\ net'["profile"] = "idle" /\ net'["change"] \in {net["change"], "idle"}
       /\ net'["bootstrap"] = net["bootstrap"] \/ boot' = "null"
  BY <1>6, <1>8 DEF Kinds
<1>11. /\ \A k \in Kinds \ {"profile", "change", "bootstrap"} : Flight(k)' <=> Flight(k)
       /\ ~Flight("change")' /\ (Flight("bootstrap")' => boot' = "null")
  BY <1>3, <1>8, <1>10 DEF SessionInv, Owners, Flight
<1>12. Owners' /\ Flags'
  BY <1>1, <1>3, <1>5, <1>8, <1>11 DEF SessionInv, Owners, Flags, Kinds
<1>13. GoneForGood'
  BY <1>1, <1>5, <1>8 DEF SessionInv, GoneForGood
<1>14. Roles'
  BY <1>1, <1>3, <1>4, <1>5, <1>8, <1>10, <1>11 DEF SessionInv, Roles, Kinds
<1>15. Gate'
  <2>1. (page \in Protected /\ ghost.clean /\ server.session) => (o = "must_change" <=> server.must)
    BY <1>2 DEF SessionInv, Gate, o, Answers, Outcomes
  <2> QED BY <1>1, <1>5, <1>8, <1>10, <2>1 DEF Gate
<1> QED BY <1>9, <1>12, <1>13, <1>14, <1>15 DEF SessionInv

\* The bootstrap state arrives while no form is on the screen, unless a
\* protected page shows its gate.
LEMMA BootstrapStatusInv == SessionInv /\ BootstrapStatus => SessionInv'
<1> SUFFICES ASSUME SessionInv, BootstrapStatus PROVE SessionInv'
  OBVIOUS
<1> DEFINE o == net["bootstrap"]
           b == IF needsSetup(o) THEN "setup" ELSE "ready"
           c == IF page = "root" THEN boot ELSE b
           go == IF page = "root"
                 THEN IF o \notin {"setup", "ready"} THEN "/error"
                      ELSE IF needsSetup(o) THEN "signup" ELSE "login"
                 ELSE leaving
<1>1. /\ Answered("bootstrap") /\ Settle(store, c, Done("bootstrap"), go)
      /\ form' = Mounted(form, store, b)
      /\ UNCHANGED <<server, page, hydrated, ghost>>
  BY DEF BootstrapStatus
<1>2. Flight("bootstrap") /\ boot = "null"
  BY <1>1 DEF SessionInv, Owners, Answered, Flight, Answers, Outcomes
<1>3. \A k \in {"signin", "recover", "resend", "consume"} : ~Flight(k)
  BY <1>2 DEF SessionInv, Owners
<1>4. c \in Boots /\ go \in Places /\ (leaving # Stay => go # Stay)
  BY DEF SessionInv, Typed, Boots, Places, Pages, Public, Unbuilt, Stay
<1>5. /\ Done("bootstrap") \in Nets /\ Done("bootstrap")["bootstrap"] = "idle"
      /\ \A j \in Kinds \ {"bootstrap"} : Done("bootstrap")[j] = net[j]
  BY DoneNet DEF Kinds
<1>6. form' \in Forms /\ form'.busy = form.busy
  <2>1. CASE Flight("change")
    <3>1. Shows(store, boot) /\ Shows(store, b)
      BY <2>1 DEF SessionInv, Owners, GateOpen, Shows
    <3> QED BY <1>1, <3>1 DEF Mounted, SessionInv, Typed
  <2>2. CASE ~Flight("change")
    <3>1. form.busy = FALSE
      BY <1>3, <2>2 DEF SessionInv, Typed, Forms, Flags
    <3>2. /\ form' \in Forms
          /\ form' = form \/ form' = FreshForm
      BY <1>1, MountedForms DEF SessionInv, Typed
    <3> QED BY <3>1, <3>2, FreshForms
  <2> QED BY <2>1, <2>2
<1> HIDE DEF o, b, c, go
<1>7. /\ store' = store /\ boot' = c /\ net' \in Nets /\ leaving' \in Places
      /\ leaving # Stay => leaving' # Stay
      /\ \A k \in Kinds \ {"bootstrap"} : net'[k] = net[k]
      /\ Flight("bootstrap")' => boot' = "null"
  <2>1. /\ store' = store /\ boot' = c /\ net' \in Nets /\ leaving' \in Places
        /\ leaving # Stay => leaving' # Stay
        /\ \A k \in Kinds \ {"bootstrap"} : net'[k] = Done("bootstrap")[k]
        /\ net'["bootstrap"] = "idle" \/ (net'["bootstrap"] = "sent" /\ c = "null")
    BY <1>1, <1>4, <1>5, SettleKeeps
  <2> QED BY <1>5, <2>1 DEF Flight
<1>8. Typed'
  BY <1>1, <1>4, <1>6, <1>7 DEF SessionInv, Typed
<1>9. \A k \in Kinds \ {"bootstrap"} : Flight(k)' <=> Flight(k)
  BY <1>7 DEF Flight
<1>10. Owners' /\ Flags'
  BY <1>1, <1>3, <1>6, <1>7, <1>9
  DEF SessionInv, Owners, Flags, GateOpen, ProtectedShows, Kinds
<1>11. GoneForGood' /\ Roles'
  BY <1>1, <1>7, <1>9 DEF SessionInv, GoneForGood, Roles, Kinds
<1>12. Gate'
  BY <1>1, <1>7, <1>9 DEF SessionInv, Gate, Kinds
<1> QED BY <1>8, <1>10, <1>11, <1>12 DEF SessionInv

\* The sign-in's and the sign-up's answers arrive on their own pages, where no
\* other request of their flag is out.
LEMMA SignedInInv == SessionInv /\ SignedIn => SessionInv'
<1> SUFFICES ASSUME SessionInv, SignedIn PROVE SessionInv'
  OBVIOUS
<1> DEFINE o == net["signin"]
           s == [store EXCEPT !.user = @ \/ ~Rejects(o)]
           go == IF Rejects(o) THEN leaving ELSE "dash"
<1>1. /\ Answered("signin") /\ Settle(s, boot, Done("signin"), go)
      /\ form' = [form EXCEPT !.busy = FALSE, !.err = Rejects(o)]
      /\ UNCHANGED <<server, page, hydrated, ghost>>
  BY DEF SignedIn
<1>2. Flight("signin") /\ page = "login" /\ ~store.loading /\ boot # "null"
  BY <1>1 DEF SessionInv, Owners, Answered, Flight, Answers, Outcomes
<1>3. /\ \A k \in Kinds \ {"signin", "profile"} : ~Flight(k)
      /\ ~ghost.out
  BY <1>2 DEF SessionInv, Owners, Flags, GoneForGood, Protected, Kinds
<1>4. /\ s \in Stores /\ s.profile = store.profile /\ s.must = store.must
      /\ ~s.loading /\ (s.user \/ ~store.user)
  BY <1>2 DEF SessionInv, Typed, Stores
<1>5. /\ Done("signin") \in Nets /\ Done("signin")["signin"] = "idle"
      /\ \A j \in Kinds \ {"signin"} : Done("signin")[j] = net[j]
  BY DoneNet DEF Kinds
<1>6. go \in Places
  BY DEF SessionInv, Typed, Places, Pages, Protected
<1>7. form' \in Forms /\ ~form'.busy
  BY <1>1 DEF SessionInv, Typed, Forms, Rejects, Throws, HasData
<1> HIDE DEF o, s, go
<1>8. /\ store' = s /\ boot' = boot /\ net' \in Nets /\ leaving' \in Places
      /\ \A k \in Kinds \ {"bootstrap", "signin"} : net'[k] = net[k]
      /\ net'["signin"] = "idle" /\ ~Flight("bootstrap")'
  <2>1. /\ store' = s /\ boot' = boot /\ net' \in Nets /\ leaving' \in Places
        /\ \A k \in Kinds \ {"bootstrap"} : net'[k] = Done("signin")[k]
        /\ net'["bootstrap"] = Done("signin")["bootstrap"]
    BY <1>1, <1>2, <1>5, <1>6, SettleKeeps DEF SessionInv, Typed
  <2> QED BY <1>3, <1>5, <2>1 DEF Flight, Kinds
<1>9. Typed'
  BY <1>1, <1>4, <1>7, <1>8 DEF SessionInv, Typed
<1>10. \A k \in Kinds \ {"profile"} : ~Flight(k)'
  BY <1>3, <1>8 DEF Flight, Kinds
<1>11. Owners' /\ Flags'
  BY <1>4, <1>7, <1>8, <1>10 DEF Owners, Flags, Kinds
<1>12. GoneForGood'
  BY <1>1, <1>3 DEF GoneForGood
<1>13. Roles'
  BY <1>1, <1>4, <1>8, <1>10 DEF SessionInv, Roles, Kinds
<1>14. Gate'
  BY <1>1, <1>2, <1>4, <1>8, <1>10 DEF SessionInv, Gate, Protected, Kinds
<1> QED BY <1>9, <1>11, <1>12, <1>13, <1>14 DEF SessionInv

\* The same for the sign-up.
LEMMA SignedUpInv == SessionInv /\ SignedUp => SessionInv'
<1> SUFFICES ASSUME SessionInv, SignedUp PROVE SessionInv'
  OBVIOUS
<1> DEFINE o == net["signup"]
           s == [store EXCEPT !.user = @ \/ ~Rejects(o), !.loading = FALSE]
           go == IF Rejects(o) THEN leaving ELSE "dash"
<1>1. /\ Answered("signup") /\ Settle(s, boot, Done("signup"), go)
      /\ form' = FreshForm
      /\ UNCHANGED <<server, page, hydrated, ghost>>
  BY DEF SignedUp
<1>2. Flight("signup") /\ page = "signup" /\ store.loading
  BY <1>1 DEF SessionInv, Owners, Flags, Answered, Flight, Answers, Outcomes
<1>3. /\ \A k \in Kinds \ {"signup", "profile", "bootstrap"} : ~Flight(k)
      /\ ~ghost.out
  BY <1>2 DEF SessionInv, Owners, Flags, GoneForGood, Protected, Kinds
<1>4. /\ s \in Stores /\ s.profile = store.profile /\ s.must = store.must
      /\ ~s.loading /\ (s.user \/ ~store.user)
  BY DEF SessionInv, Typed, Stores
<1>5. /\ Done("signup") \in Nets /\ Done("signup")["signup"] = "idle"
      /\ \A j \in Kinds \ {"signup"} : Done("signup")[j] = net[j]
  BY DoneNet DEF Kinds
<1>6. go \in Places
  BY DEF SessionInv, Typed, Places, Pages, Protected
<1>7. form' \in Forms /\ ~form'.busy
  BY <1>1 DEF Forms, FreshForm
<1> HIDE DEF o, s, go
<1>8. /\ store' = s /\ boot' = boot /\ net' \in Nets /\ leaving' \in Places
      /\ \A k \in Kinds \ {"bootstrap", "signup"} : net'[k] = net[k]
      /\ net'["signup"] = "idle" /\ (Flight("bootstrap")' => boot' = "null")
  <2>1. /\ store' = s /\ boot' = boot /\ net' \in Nets /\ leaving' \in Places
        /\ \A k \in Kinds \ {"bootstrap"} : net'[k] = Done("signup")[k]
        /\ net'["bootstrap"] = Done("signup")["bootstrap"] \/ boot = "null"
    BY <1>1, <1>5, <1>6, SettleKeeps DEF SessionInv, Typed
  <2> QED BY <1>5, <2>1 DEF SessionInv, Owners, Flight, Kinds
<1>9. Typed'
  BY <1>1, <1>4, <1>7, <1>8 DEF SessionInv, Typed
<1>10. \A k \in Kinds \ {"profile", "bootstrap"} : ~Flight(k)'
  BY <1>3, <1>8 DEF Flight, Kinds
<1>11. Owners' /\ Flags'
  BY <1>4, <1>7, <1>8, <1>10 DEF Owners, Flags, Kinds
<1>12. GoneForGood'
  BY <1>1, <1>3 DEF GoneForGood
<1>13. Roles'
  BY <1>1, <1>4, <1>8, <1>10 DEF SessionInv, Roles, Kinds
<1>14. Gate'
  BY <1>1, <1>2, <1>4, <1>8, <1>10 DEF SessionInv, Gate, Protected, Kinds
<1> QED BY <1>9, <1>11, <1>12, <1>13, <1>14 DEF SessionInv

\* signOut ends: the store is empty and the document is left.
LEMMA SignedOutInv == SessionInv /\ SignedOut => SessionInv'
<1> SUFFICES ASSUME SessionInv, SignedOut PROVE SessionInv'
  OBVIOUS
<1> DEFINE s == [clearUser(store) EXCEPT !.loading = FALSE]
<1>1. /\ Answered("signout") /\ Settle(s, boot, Done("signout"), "login")
      /\ form' = FreshForm /\ ghost' = [ghost EXCEPT !.out = TRUE]
      /\ UNCHANGED <<server, page, hydrated>>
  BY DEF SignedOut
<1>2. Flight("signout") /\ page \in Protected /\ store.loading
  BY <1>1 DEF SessionInv, Owners, Flags, Answered, Flight, Answers, Outcomes
<1>3. \A k \in Kinds \ {"signout", "profile", "bootstrap"} : ~Flight(k)
  BY <1>2 DEF SessionInv, Owners, Flags, GateOpen, ProtectedShows, Protected, Kinds
<1>4. s \in Stores /\ s.profile = "none" /\ ~s.loading /\ ~s.user /\ ~s.must
  BY DEF clearUser, EmptyStore, Stores
<1>5. /\ Done("signout") \in Nets /\ Done("signout")["signout"] = "idle"
      /\ \A j \in Kinds \ {"signout"} : Done("signout")[j] = net[j]
  BY DoneNet DEF Kinds
<1>6. "login" \in Places /\ "login" # Stay
  BY DEF Places, Pages, Public, Stay
<1>7. form' \in Forms /\ ~form'.busy /\ ghost' \in Ghosts /\ ghost'.clean = ghost.clean
  BY <1>1 DEF Forms, FreshForm, SessionInv, Typed, Ghosts
<1> HIDE DEF s
<1>8. /\ store' = s /\ boot' = boot /\ net' \in Nets /\ leaving' \in Places /\ leaving' # Stay
      /\ \A k \in Kinds \ {"bootstrap", "signout"} : net'[k] = net[k]
      /\ net'["signout"] = "idle" /\ (Flight("bootstrap")' => boot' = "null")
  <2>1. /\ store' = s /\ boot' = boot /\ net' \in Nets /\ leaving' \in Places /\ leaving' # Stay
        /\ \A k \in Kinds \ {"bootstrap"} : net'[k] = Done("signout")[k]
        /\ net'["bootstrap"] = Done("signout")["bootstrap"] \/ boot = "null"
    BY <1>1, <1>5, <1>6, SettleKeeps DEF SessionInv, Typed
  <2> QED BY <1>5, <2>1 DEF SessionInv, Owners, Flight, Kinds
<1>9. Typed'
  BY <1>1, <1>4, <1>7, <1>8 DEF SessionInv, Typed
<1>10. \A k \in Kinds \ {"profile", "bootstrap"} : ~Flight(k)'
  BY <1>3, <1>8 DEF Flight, Kinds
<1>11. Owners' /\ Flags'
  BY <1>4, <1>7, <1>8, <1>10 DEF Owners, Flags, Kinds
<1>12. GoneForGood'
  BY <1>1, <1>2, <1>4, <1>8 DEF GoneForGood
<1>13. Roles'
  BY <1>1, <1>2, <1>4, <1>8, <1>10 DEF SessionInv, Roles, Kinds
<1>14. Gate'
  BY <1>1, <1>4, <1>7, <1>8, <1>10 DEF SessionInv, Gate, Kinds
<1> QED BY <1>9, <1>11, <1>12, <1>13, <1>14 DEF SessionInv

\* changePassword ends, and goes on to fetchProfile unless it threw.
LEMMA ChangedInv == SessionInv /\ Changed => SessionInv'
<1> SUFFICES ASSUME SessionInv, Changed PROVE SessionInv'
  OBVIOUS
<1> DEFINE o == net["change"]
<1>1. Answered("change") /\ UNCHANGED <<server, page, hydrated, ghost>>
  BY DEF Changed
<1>2. Flight("change") /\ page \in Protected /\ ~store.loading /\ store.user
  BY <1>1 DEF SessionInv, Owners, Answered, Flight, Answers, Outcomes, GateOpen, ProtectedShows
<1>3. /\ \A k \in Kinds \ {"change", "bootstrap"} : ~Flight(k)
      /\ net["profile"] = "idle" /\ ~ghost.out
  <2>1. net["profile"] = "idle" /\ ~ghost.out
    BY <1>2 DEF SessionInv, Gate, GoneForGood
  <2> QED
    BY <1>2, <2>1 DEF SessionInv, Owners, Flags, Flight, Protected, Kinds
<1>4. leaving \in Places /\ boot \in Boots
  BY DEF SessionInv, Typed
<1>5. CASE Resolves(o)
  <2> DEFINE s == AskProfile(store)
             n == [net EXCEPT !["change"] = "awaiting", !["profile"] = "sent"]
  <2>1. Settle(s, boot, n, leaving) /\ form' = FreshForm
    BY <1>5 DEF Changed
  <2>2. /\ s \in Stores /\ s.user = store.user /\ ~s.loading /\ ~s.must
        /\ s.profile = store.profile
    BY <1>2 DEF SessionInv, Typed, Stores, AskProfile
  <2>3. /\ n \in Nets /\ n["change"] = "awaiting" /\ n["profile"] = "sent"
        /\ \A k \in Kinds \ {"change", "profile"} : n[k] = net[k]
    BY DEF SessionInv, Typed, Nets, Kinds
  <2>4. form' \in Forms /\ ~form'.busy
    BY <2>1 DEF Forms, FreshForm
  <2> HIDE DEF s, n
  <2>5. /\ store' = s /\ boot' = boot /\ net' \in Nets /\ leaving' \in Places
        /\ net'["change"] = "awaiting" /\ net'["profile"] = "sent"
        /\ \A k \in Kinds \ {"change", "profile", "bootstrap"} : net'[k] = net[k]
        /\ net'["bootstrap"] = net["bootstrap"] \/ boot = "null"
    <3>1. /\ store' = s /\ boot' = boot /\ net' \in Nets /\ leaving' \in Places
          /\ \A k \in Kinds \ {"bootstrap"} : net'[k] = n[k]
          /\ net'["bootstrap"] = n["bootstrap"] \/ boot = "null"
      BY <1>4, <2>1, <2>3, SettleKeeps
    <3> QED BY <2>3, <3>1 DEF Kinds
  <2>6. Typed'
    BY <1>1, <2>2, <2>4, <2>5 DEF SessionInv, Typed
  <2>7. /\ \A k \in Kinds \ {"profile", "bootstrap"} : ~Flight(k)'
        /\ Flight("bootstrap")' => boot' = "null"
    BY <1>3, <2>5 DEF SessionInv, Owners, Flight, Kinds
  <2>8. Owners' /\ Flags'
    BY <2>2, <2>4, <2>5, <2>7 DEF Owners, Flags, Kinds
  <2>9. GoneForGood' /\ Roles'
    BY <1>1, <1>2, <1>3, <2>2, <2>5, <2>7 DEF SessionInv, GoneForGood, Roles, Kinds
  <2>10. Gate'
    BY <2>2, <2>5, <2>7 DEF Gate, Kinds
  <2> QED BY <2>6, <2>8, <2>9, <2>10 DEF SessionInv
<1>6. CASE ~Resolves(o)
  <2>1. /\ Settle(store, boot, Done("change"), leaving)
        /\ form' = [form EXCEPT !.busy = FALSE, !.err = TRUE]
    BY <1>6 DEF Changed
  <2>2. /\ Done("change") \in Nets /\ Done("change")["change"] = "idle"
        /\ \A j \in Kinds \ {"change"} : Done("change")[j] = net[j]
    BY DoneNet DEF Kinds
  <2>3. form' \in Forms /\ ~form'.busy
    BY <2>1 DEF SessionInv, Typed, Forms
  <2>4. /\ store' = store /\ boot' = boot /\ net' \in Nets /\ leaving' \in Places
        /\ net'["change"] = "idle"
        /\ \A k \in Kinds \ {"change", "bootstrap"} : net'[k] = net[k]
        /\ net'["bootstrap"] = net["bootstrap"] \/ boot = "null"
    <3>1. /\ store' = store /\ boot' = boot /\ net' \in Nets /\ leaving' \in Places
          /\ \A k \in Kinds \ {"bootstrap"} : net'[k] = Done("change")[k]
          /\ net'["bootstrap"] = Done("change")["bootstrap"] \/ boot = "null"
      BY <1>4, <2>1, <2>2, SettleKeeps
    <3> QED BY <2>2, <3>1 DEF Kinds
  <2>5. Typed'
    BY <1>1, <2>3, <2>4 DEF SessionInv, Typed
  <2>6. /\ \A k \in Kinds \ {"bootstrap"} : ~Flight(k)'
        /\ Flight("bootstrap")' => boot' = "null"
    BY <1>3, <2>4 DEF SessionInv, Owners, Flight, Kinds
  <2>7. Owners' /\ Flags'
    BY <1>2, <2>3, <2>4, <2>6 DEF Owners, Flags, Kinds
  <2>8. GoneForGood' /\ Roles'
    BY <1>1, <1>2, <1>3, <2>4, <2>6 DEF SessionInv, GoneForGood, Roles, Kinds
  <2>9. o # "ok" /\ net'["profile"] = "idle"
    BY <1>3, <1>6, <2>4 DEF Resolves, Throws, Kinds
  <2>10. Gate'
    BY <1>1, <1>3, <2>4, <2>9 DEF SessionInv, Gate
  <2> QED BY <2>5, <2>7, <2>8, <2>10 DEF SessionInv
<1> QED BY <1>5, <1>6

\* The answers that only change the form.
LEMMA FormAnswerInv ==
    ASSUME SessionInv, NEW k \in {"recover", "resend", "consume"}, Answered(k), net' = Done(k),
           form' \in Forms, ~form'.busy,
           UNCHANGED <<server, page, leaving, hydrated, store, boot, ghost>>
    PROVE  SessionInv'
<1>1. Flight(k) /\ k \in Kinds
  BY DEF Answered, Flight, Answers, Outcomes, Kinds
<1>2. /\ net' \in Nets /\ net'[k] = "idle"
      /\ \A j \in Kinds \ {k} : net'[j] = net[j]
  BY <1>1, DoneNet
<1>3. \A j \in {"signin", "change", "recover", "resend", "consume"} \ {k} : ~Flight(j)
  BY <1>1 DEF SessionInv, Owners, Flags, Protected
<1>4. /\ \A j \in Kinds \ {k} : Flight(j)' <=> Flight(j)
      /\ ~Flight(k)'
  BY <1>2 DEF Flight
<1>5. Typed'
  BY <1>2 DEF SessionInv, Typed
<1>6. Owners' /\ Flags'
  BY <1>3, <1>4 DEF SessionInv, Owners, Flags, Kinds
<1>7. GoneForGood' /\ Roles'
  BY <1>2, <1>4 DEF SessionInv, GoneForGood, Roles, Kinds
<1>8. Gate'
  BY <1>2, <1>4 DEF SessionInv, Gate, Kinds
<1> QED BY <1>5, <1>6, <1>7, <1>8 DEF SessionInv

\* The answers of PasswordForgottenForm.
LEMMA RecoveredInv == ASSUME NEW k \in Kinds PROVE SessionInv /\ Recovered(k) => SessionInv'
<1> SUFFICES ASSUME SessionInv, Recovered(k) PROVE SessionInv'
  OBVIOUS
<1>1. form' \in Forms /\ ~form'.busy
  BY SessionConstants DEF SessionInv, Typed, Recovered, Forms
<1> QED BY <1>1, FormAnswerInv DEF Recovered

\* The answer of ResetPasswordForm.
LEMMA ConsumedInv == SessionInv /\ Consumed => SessionInv'
<1> SUFFICES ASSUME SessionInv, Consumed PROVE SessionInv'
  OBVIOUS
<1>1. form' \in Forms /\ ~form'.busy
  BY DEF SessionInv, Typed, Consumed, Forms, Resolves, Throws
<1> QED BY <1>1, FormAnswerInv DEF Consumed

---------------------------------------------------------------------------
(* The user                                                                *)

\* A gesture only restarts the count of redirects.
LEMMA GestureGhost ==
    ASSUME SessionInv, Gesture
    PROVE  ghost' \in Ghosts /\ ghost'.clean = ghost.clean /\ ghost'.out = ghost.out
BY DEF SessionInv, Typed, Gesture, Ghosts

\* A form is on the screen of its own page, where no request is out that would
\* take it away.
LEMMA SubmitInv ==
    ASSUME SessionInv, Gesture,
           NEW k \in {"signin", "recover", "resend", "consume", "change"}, Submit(k), ~form.busy,
           ~store.loading,
           \/ k = "signin" /\ page = "login" /\ boot # "null"
           \/ k \in {"recover", "resend"} /\ page = "forgot" /\ boot # "null"
           \/ k = "consume" /\ page = "reset" /\ boot # "null"
           \/ k = "change" /\ page \in Protected /\ GateOpen(store)
    PROVE  SessionInv'
<1>1. /\ form' = [form EXCEPT !.busy = TRUE, !.err = FALSE] /\ net' = [net EXCEPT ![k] = "sent"]
      /\ UNCHANGED <<server, page, leaving, hydrated, store, boot>>
  BY DEF Submit
<1>2. form' \in Forms /\ form'.busy
  BY <1>1 DEF SessionInv, Typed, Forms
<1>3. net' \in Nets /\ net'[k] = "sent" /\ \A j \in Kinds \ {k} : net'[j] = net[j]
  BY <1>1 DEF SessionInv, Typed, Nets, Kinds
<1>4. \A j \in {"signin", "change", "recover", "resend", "consume"} : ~Flight(j)
  BY DEF SessionInv, Flags
<1>5. Flight(k)' /\ \A j \in Kinds \ {k} : Flight(j)' <=> Flight(j)
  BY <1>3 DEF Flight
<1>6. Typed'
  BY <1>1, <1>2, <1>3, GestureGhost DEF SessionInv, Typed
<1>7. Owners'
  BY <1>1, <1>4, <1>5 DEF SessionInv, Owners, GateOpen, ProtectedShows, Kinds
<1>8. Flags'
  BY <1>1, <1>2, <1>4, <1>5 DEF SessionInv, Flags, Kinds
<1>9. GoneForGood'
  BY <1>1, GestureGhost DEF SessionInv, GoneForGood
<1>10. Roles'
  BY <1>1, <1>3, <1>5 DEF SessionInv, Roles, Kinds
<1>11. Gate'
  <2>1. k = "change" => net["profile"] = "idle" /\ store.must
    BY DEF SessionInv, Gate, GateOpen
  <2>2. net["change"] # "ok"
    BY <1>4 DEF Flight
  <2>3. ~Flight("change")' \/ k = "change"
    BY <1>4, <1>5 DEF Kinds
  <2> QED
    BY <1>1, <1>3, <2>1, <2>2, <2>3, GestureGhost DEF SessionInv, Gate, Kinds
<1> QED BY <1>6, <1>7, <1>8, <1>9, <1>10, <1>11 DEF SessionInv

\* The submits of the forms that keep their own flag.
LEMMA SubmitsInv ==
    SessionInv /\ (SubmitLogin \/ SubmitForgot \/ Resend \/ SubmitReset \/ SubmitChange) => SessionInv'
<1> SUFFICES ASSUME SessionInv,
                    SubmitLogin \/ SubmitForgot \/ Resend \/ SubmitReset \/ SubmitChange
             PROVE  SessionInv'
  OBVIOUS
<1>1. ASSUME NEW p \in {"login", "forgot", "reset"}, FormReady(p)
      PROVE  page = p /\ ~form.busy /\ ~store.loading /\ boot # "null"
  BY <1>1 DEF FormReady, Shows, PublicShows, Protected, Public
<1>2. CASE SubmitLogin
  BY <1>1, <1>2, SubmitInv DEF SubmitLogin, LoginForm
<1>3. CASE SubmitForgot
  BY <1>1, <1>3, SubmitInv DEF SubmitForgot, RequestState
<1>4. CASE Resend
  BY <1>1, <1>4, SubmitInv DEF Resend, SentState
<1>5. CASE SubmitReset
  BY <1>1, <1>5, SubmitInv DEF SubmitReset, ResetPasswordForm
<1>6. CASE SubmitChange
  <2>1. ~store.loading
    BY <1>6 DEF SubmitChange, GateOpen, ProtectedShows
  <2> QED BY <1>6, <2>1, SubmitInv DEF SubmitChange
<1> QED BY <1>2, <1>3, <1>4, <1>5, <1>6

\* The sign-up and the sign-out raise the flag that the guards look at.
LEMMA RaisesInv ==
    ASSUME SessionInv, Gesture, NEW k \in {"signup", "signout"}, ~store.loading,
           store' = [store EXCEPT !.loading = TRUE], net' = [net EXCEPT ![k] = "sent"],
           form' = form \/ form' = FreshForm,
           \/ k = "signup" /\ page = "signup" /\ ~store.user
           \/ k = "signout" /\ page \in Protected /\ ~GateOpen(store) /\ store.user,
           UNCHANGED <<server, page, leaving, hydrated, boot>>
    PROVE  SessionInv'
<1>1. /\ store' \in Stores /\ store'.loading /\ store'.user = store.user /\ store'.must = store.must
      /\ store'.profile = store.profile /\ store'.roleLoaded = store.roleLoaded
  BY DEF SessionInv, Typed, Stores
<1>2. net' \in Nets /\ net'[k] = "sent" /\ \A j \in Kinds \ {k} : net'[j] = net[j]
  BY DEF SessionInv, Typed, Nets, Kinds
<1>3. ~Flight("me") /\ ~Flight("signup") /\ ~Flight("signout")
  BY DEF SessionInv, Flags
<1>4. \A j \in {"signin", "change", "recover", "resend", "consume"} : ~Flight(j)
  BY DEF SessionInv, Owners, Protected
<1>5. form' \in Forms /\ ~form'.busy
  <2>1. ~form.busy
    BY <1>4 DEF SessionInv, Flags
  <2>2. form \in Forms
    BY DEF SessionInv, Typed
  <2> QED BY <2>1, <2>2, FreshForms
<1>6. Flight(k)' /\ \A j \in Kinds \ {k} : Flight(j)' <=> Flight(j)
  BY <1>2 DEF Flight
<1>7. Typed'
  BY <1>1, <1>2, <1>5, GestureGhost DEF SessionInv, Typed
<1>8. Owners'
  BY <1>1, <1>4, <1>6 DEF SessionInv, Owners, Kinds
<1>9. Flags'
  BY <1>1, <1>3, <1>4, <1>5, <1>6 DEF Flags, Kinds
<1>10. GoneForGood'
  BY GestureGhost DEF SessionInv, GoneForGood, Protected
<1>11. Roles'
  BY <1>1, <1>2, <1>6 DEF SessionInv, Roles, Kinds
<1>12. Gate'
  BY <1>1, <1>2, <1>6, GestureGhost DEF SessionInv, Gate, Kinds
<1> QED BY <1>7, <1>8, <1>9, <1>10, <1>11, <1>12 DEF SessionInv

\* SignupForm's submit.
LEMMA SubmitSignupInv == SessionInv /\ SubmitSignup => SessionInv'
<1> SUFFICES ASSUME SessionInv, SubmitSignup PROVE SessionInv'
  OBVIOUS
<1>1. page = "signup" /\ ~store.loading /\ ~store.user
  BY DEF SubmitSignup, SignupForm, FormReady, Shows, PublicShows, Protected, Public
<1> QED BY <1>1, RaisesInv DEF SubmitSignup

\* The menu's sign-out.
LEMMA SignOutInv == SessionInv /\ SignOut => SessionInv'
<1> SUFFICES ASSUME SessionInv, SignOut PROVE SessionInv'
  OBVIOUS
<1>1. ~store.loading /\ store.user
  BY DEF SignOut, AdminShows, ProtectedShows
<1> QED BY <1>1, RaisesInv DEF SignOut

\* What changes neither the store nor the requests.
LEMMA RestInv ==
    SessionInv /\ (\/ NoticeMounts \/ CooldownTick \/ ResetLeaves \/ RefusedByForm \/ EditEmail
                   \/ Navigate \/ Expire \/ UNCHANGED vars) => SessionInv'
<1> SUFFICES ASSUME SessionInv,
                    \/ NoticeMounts \/ CooldownTick \/ ResetLeaves \/ RefusedByForm \/ EditEmail
                    \/ Navigate \/ Expire \/ UNCHANGED vars
             PROVE  SessionInv'
  OBVIOUS
<1>1. form \in Forms /\ leaving \in Places /\ ghost \in Ghosts
  BY DEF SessionInv, Typed
<1>2. CASE NoticeMounts
  BY <1>1, <1>2, QuietInv DEF NoticeMounts
<1>3. CASE CooldownTick
  <2>1. form' \in Forms /\ form'.busy = form.busy
    BY <1>1, <1>3 DEF CooldownTick, Forms
  <2> QED BY <1>1, <1>3, <2>1, QuietInv DEF CooldownTick
<1>4. CASE ResetLeaves
  <2>1. form' \in Forms /\ form'.busy = form.busy /\ leaving' \in Places /\ leaving' # Stay
    BY <1>1, <1>4 DEF ResetLeaves, Forms, Places, Pages, Public, Stay
  <2> QED BY <1>1, <1>4, <2>1, QuietInv DEF ResetLeaves
<1>5. CASE RefusedByForm
  <2>1. form' \in Forms /\ form'.busy = form.busy
    BY <1>1, <1>5 DEF RefusedByForm, Forms
  <2>2. ghost' \in Ghosts /\ ghost'.clean = ghost.clean /\ ghost'.out = ghost.out
    BY <1>5, GestureGhost DEF RefusedByForm
  <2> QED BY <1>1, <1>5, <2>1, <2>2, QuietInv DEF RefusedByForm
<1>6. CASE EditEmail
  <2>1. form' \in Forms /\ form'.busy = form.busy
    BY <1>1, <1>6 DEF EditEmail, Forms
  <2>2. ghost' \in Ghosts /\ ghost'.clean = ghost.clean /\ ghost'.out = ghost.out
    BY <1>6, GestureGhost DEF EditEmail
  <2> QED BY <1>1, <1>6, <2>1, <2>2, QuietInv DEF EditEmail
<1>7. CASE Navigate
  <2>1. leaving' \in Places /\ leaving' # Stay
    BY <1>7 DEF Navigate, Places, Pages, Public, Protected, Unbuilt, Stay
  <2>2. ghost' \in Ghosts /\ ghost'.clean = ghost.clean /\ ghost'.out = ghost.out
    BY <1>7, GestureGhost DEF Navigate
  <2> QED BY <1>1, <1>7, <2>1, <2>2, QuietInv DEF Navigate
<1>8. CASE Expire
  <2>1. ghost' \in Ghosts /\ ghost'.clean = ghost.clean /\ ghost'.out = ghost.out
    BY <1>1, <1>8 DEF Expire, Ghosts
  <2> QED BY <1>1, <1>8, <2>1, QuietInv DEF Expire
<1>9. CASE UNCHANGED vars
  BY <1>1, <1>9, QuietInv DEF vars
<1> QED BY <1>2, <1>3, <1>4, <1>5, <1>6, <1>7, <1>8, <1>9

---------------------------------------------------------------------------
(* The theorems                                                            *)

\* Every step keeps the invariant.
LEMMA SessionNextInv == SessionInv /\ [Next]_vars => SessionInv'
<1> SUFFICES ASSUME SessionInv, [Next]_vars PROVE SessionInv'
  OBVIOUS
<1>1. CASE Deliver
  BY <1>1, GetSessionInv, FetchProfileInv, BootstrapStatusInv, SignedInInv, SignedUpInv,
     SignedOutInv, ChangedInv, ConsumedInv, RecoveredInv DEF Deliver
<1>2. CASE User
  BY <1>2, SubmitsInv, SubmitSignupInv, SignOutInv, RestInv DEF User
<1>3. CASE \E k \in Kinds : Serve(k) \/ Fault(k)
  BY <1>3, ServeInv, FaultInv
<1>4. CASE Hydrate \/ Unload
  BY <1>4, HydrateInv, UnloadInv
<1>5. CASE NoticeMounts \/ CooldownTick \/ ResetLeaves \/ Expire \/ UNCHANGED vars
  BY <1>5, RestInv
<1> QED BY <1>1, <1>2, <1>3, <1>4, <1>5 DEF Next

\* The invariant holds in every reachable state.
LEMMA SessionAlways == Spec => []SessionInv
BY SessionInitInv, SessionNextInv, PTL DEF Spec

\* A set of requests of which the flag says how many are out.
LEMMA OneOrNone ==
    ASSUME NEW S, NEW b, b <=> S # {}, \A x, y \in S : x = y
    PROVE  Cardinality(S) = IF b THEN 1 ELSE 0
<1>1. CASE S = {}
  BY <1>1, FS_EmptySet
<1>2. CASE S # {}
  <2>1. PICK x \in S : TRUE
    BY <1>2
  <2>2. S = {x}
    BY <2>1
  <2> QED BY <1>2, <2>2, FS_Singleton
<1> QED BY <1>1, <1>2

\* For any number of gestures, failures and expiries: $isAuthLoading is up
\* exactly while one of getSession, signUp and signOut waits for its answer, and
\* a form's flag exactly while one of its requests does.
THEOREM FlagsStayOwned == Spec => []FlagsAreOwned
<1>1. SessionInv => FlagsAreOwned
  <2> SUFFICES ASSUME SessionInv PROVE FlagsAreOwned
    OBVIOUS
  <2> DEFINE A == {k \in {"me", "signup", "signout"} : Flight(k)}
             B == {k \in {"signin", "change", "recover", "resend", "consume"} : Flight(k)}
  <2>1. (store.loading <=> A # {}) /\ (form.busy <=> B # {})
    BY DEF SessionInv, Flags
  <2>2. ~(Flight("signup") /\ Flight("signout"))
    BY DEF SessionInv, Owners, Protected
  <2>3. \A x, y \in A : x = y
    BY <2>2 DEF SessionInv, Flags
  <2>4. \A x, y \in B : x = y
    BY DEF SessionInv, Owners, Flags, Protected
  <2>5. Cardinality(A) = IF store.loading THEN 1 ELSE 0
    BY <2>1, <2>3, OneOrNone
  <2>6. Cardinality(B) = IF form.busy THEN 1 ELSE 0
    BY <2>1, <2>4, OneOrNone
  <2> QED BY <2>5, <2>6 DEF FlagsAreOwned
<1> QED BY <1>1, SessionAlways, PTL

\* After signOut, whatever still answers, no user is signed in again and no
\* protected page is shown before the document is left; $profile may be filled.
THEOREM SignOutIsFinal == Spec => []NothingAfterSignOut
<1>1. SessionInv => NothingAfterSignOut
  BY DEF SessionInv, GoneForGood, NothingAfterSignOut, Shown, Shows, ProtectedShows
<1> QED BY <1>1, SessionAlways, PTL

\* Where every answer was good and the session lasts, ChangePasswordGate is open
\* exactly when the backend asks for a new password; and OnlyAdminRoute shows
\* its children only to an administrator.
THEOREM GatesAgree == Spec => []GatesFollowServer
<1>1. SessionInv => GatesFollowServer
  <2> SUFFICES ASSUME SessionInv PROVE GatesFollowServer
    OBVIOUS
  <2>1. ASSUME Quiet, Shown, page \in Protected, ghost.clean, server.session
        PROVE  GateOpen(store) <=> server.must
    <3>1. net["profile"] = "idle" /\ net["change"] = "idle"
      BY <2>1 DEF Quiet, Kinds
    <3>2. ProtectedShows(store)
      BY <2>1 DEF Shown, Shows
    <3>3. store.roleLoaded /\ (store.must <=> server.must)
      BY <2>1, <3>1, <3>2 DEF SessionInv, Gate, ProtectedShows
    <3> QED BY <3>2, <3>3 DEF GateOpen
  <2>2. AdminShows(store) => server.admin
    BY DEF SessionInv, Roles, AdminShows, isSuperAdmin
  <2> QED BY <2>1, <2>2 DEF GatesFollowServer
<1> QED BY <1>1, SessionAlways, PTL

---------------------------------------------------------------------------
(* Redirects end.  The document that a redirect opens has no form in it    *)
(* that anybody has used: until a gesture, a failure or an expiry it only  *)
(* asks who is signed in, and is told the truth by a backend that no       *)
(* longer changes.  So every page is given a rank, the number of documents *)
(* that can still follow it, and a redirect always leads to a lower one.   *)

\* How many documents can follow one of page p, as the backend stands.
Rank(p) ==
    IF p = "root" THEN 2
    ELSE IF server.session
         THEN IF p \in Public THEN 1
              ELSE IF p = "admin" /\ (server.must \/ ~server.admin) THEN 3 ELSE 0
    ELSE IF server.setup THEN IF p = "signup" THEN 0 ELSE 1
    ELSE IF p \in Public \ {"signup"} THEN 0 ELSE 1

\* The profile that an honest answer leaves in the store.
Role == IF server.must THEN "none" ELSE IF server.admin THEN "admin" ELSE "user"

Descends == leaving # Stay => Rank(Routed(leaving)) < Rank(page)

\* Only the questions of a fresh document are out, and they get the truth.
Asks == {"me", "profile", "bootstrap"}
Honest ==
    /\ \A k \in Kinds \ Asks : net[k] = "idle"
    /\ \A k \in Asks : net[k] \in {"idle", "sent", Answer(k)}
    /\ boot \in {"null", Answer("bootstrap")}
    /\ net["profile"] # "idle" => server.session
    /\ ~form.success

\* The store agrees with the backend as soon as it is loaded.
Informed ==
    /\ page = "root" => ~store.user /\ ~hydrated /\ net["me"] = "idle"
    /\ store.user => server.session
    /\ page # "root" /\ ~store.loading /\ ~store.user => ~server.session
    /\ store.profile \in {"none", Role}
    /\ store.roleLoaded => store.profile = Role

\* No account exists before the set-up.
SetupFirst == server.setup => ~server.session

HopInv ==
    /\ SetupFirst
    /\ ghost.hops > 0 => ghost.hops + Rank(page) <= 4 /\ Descends /\ Honest /\ Informed

\* Whatever the backend does it has no session before the set-up.
LEMMA SetupStays ==
    ASSUME SessionInv, SetupFirst, [Next]_vars
    PROVE  SetupFirst'
<1>1. \A k \in Kinds : Effect(k).setup => ~Effect(k).session
  BY DEF SessionInv, Typed, Servers, SetupFirst, Effect
<1>2. \/ server' = server
      \/ \E k \in Kinds : server' = Effect(k)
      \/ server' = [server EXCEPT !.session = FALSE]
  BY DEF Next, vars, Hydrate, Unload, NoticeMounts, CooldownTick, ResetLeaves, Deliver, User, Expire,
         Serve, Fault, GetSession, FetchProfile, BootstrapStatus, SignedIn, SignedUp, SignedOut,
         Changed, Consumed, Recovered, RefusedByForm, SubmitLogin, SubmitSignup, SubmitForgot,
         Resend, EditEmail, SubmitReset, SubmitChange, SignOut, Navigate, Submit
<1> QED
  BY <1>1, <1>2 DEF SetupFirst, SessionInv, Typed, Servers

\* An informed guard of page p redirects only to a page of lower rank.
LEMMA TargetsDescend ==
    ASSUME Typed, SetupFirst, page # "root",
           NEW s \in Stores, NEW b \in {"null", Answer("bootstrap")},
           s.user => server.session,
           ~s.loading /\ ~s.user => ~server.session,
           s.roleLoaded => s.profile = Role
    PROVE  /\ Target(s, b) # Stay => Rank(Routed(Target(s, b))) < Rank(page)
           /\ AdminTarget(s) # Stay => Rank(Routed(AdminTarget(s))) < Rank(page)
<1>1. AdminTarget(s) # Stay => Rank(Routed(AdminTarget(s))) < Rank(page)
  <2> SUFFICES ASSUME AdminTarget(s) # Stay PROVE Rank(Routed(AdminTarget(s))) < Rank(page)
    OBVIOUS
  <2>1. /\ AdminTarget(s) = "/lan/lan/no-access" /\ page = "admin"
        /\ server.session /\ s.roleLoaded /\ s.profile # "admin"
    BY DEF AdminTarget, ProtectedShows, isSuperAdmin
  <2>2. Routed(AdminTarget(s)) = "root"
    BY <2>1 DEF Routed, Unbuilt
  <2>3. server.must \/ ~server.admin
    BY <2>1 DEF Role, Typed, Servers
  <2>4. Rank("root") = 2 /\ Rank(page) = 3
    BY <2>1, <2>3 DEF Rank, Public
  <2> QED
    BY <2>2, <2>4
<1>2. CASE page \in Public
  <2> SUFFICES ASSUME Target(s, b) # Stay PROVE Rank(Routed(Target(s, b))) < Rank(page)
    BY <1>1
  <2>1. Target(s, b) = PublicTarget(s, b) /\ ~s.loading
    BY <1>2 DEF Target, PublicTarget
  <2>2. CASE s.user
    <3>1. Target(s, b) = "dash"
      BY <2>1, <2>2 DEF PublicTarget
    <3>2. Rank("dash") = 0 /\ Rank(page) = 1
      BY <1>2, <2>2 DEF Rank, Public
    <3> QED
      BY <3>1, <3>2 DEF Routed, Unbuilt
  <2>3. CASE ~s.user /\ server.setup
    <3>1. Target(s, b) = "signup" /\ page # "signup"
      BY <2>1, <2>3 DEF PublicTarget, Answer
    <3>2. Rank("signup") = 0 /\ Rank(page) = 1
      BY <2>1, <2>3, <3>1 DEF Rank
    <3> QED
      BY <3>1, <3>2 DEF Routed, Unbuilt
  <2>4. CASE ~s.user /\ ~server.setup
    <3>1. Target(s, b) = "login" /\ page = "signup"
      BY <2>1, <2>4 DEF PublicTarget, Answer
    <3>2. Rank("login") = 0 /\ Rank(page) = 1
      BY <2>1, <2>4, <3>1 DEF Rank, Public
    <3> QED
      BY <3>1, <3>2 DEF Routed, Unbuilt
  <2> QED
    BY <2>2, <2>3, <2>4
<1>3. CASE page \in Protected
  <2> SUFFICES ASSUME ProtectedTarget(s, b) # Stay
               PROVE  Rank(Routed(ProtectedTarget(s, b))) < Rank(page)
    BY <1>1, <1>3 DEF Target, Public, Protected
  <2>1. ~s.loading /\ ~s.user /\ ~server.session
    BY DEF ProtectedTarget
  <2>2. CASE server.setup
    <3>1. ProtectedTarget(s, b) = "signup"
      BY <2>1, <2>2 DEF ProtectedTarget, Answer
    <3>2. Rank("signup") = 0 /\ Rank(page) = 1
      BY <1>3, <2>1, <2>2 DEF Rank, Protected
    <3> QED
      BY <3>1, <3>2 DEF Routed, Unbuilt
  <2>3. CASE ~server.setup
    <3>1. ProtectedTarget(s, b) = "login"
      BY <2>1, <2>3 DEF ProtectedTarget, Answer
    <3>2. Rank("login") = 0 /\ Rank(page) = 1
      BY <1>3, <2>1, <2>3 DEF Rank, Public, Protected
    <3> QED
      BY <3>1, <3>2 DEF Routed, Unbuilt
  <2> QED
    BY <2>2, <2>3
<1> QED
  BY <1>2, <1>3 DEF Typed, Pages

\* What the effects after a handler do to a document that is honest so far.
LEMMA SettleDescends ==
    ASSUME Typed, SetupFirst, page # "root",
           NEW s \in Stores, NEW b \in {"null", Answer("bootstrap")}, NEW n \in Nets,
           s.user => server.session,
           ~s.loading /\ ~s.user => ~server.session,
           s.roleLoaded => s.profile = Role,
           Descends, Settle(s, b, n, leaving)
    PROVE  leaving' # Stay => Rank(Routed(leaving')) < Rank(page)
<1> DEFINE runs == hydrated /\ <<s.loading, s.user, b>> # <<store.loading, store.user, boot>>
           goal == IF runs THEN Target(s, b) ELSE IF hydrated THEN AdminTarget(s) ELSE Stay
<1>1. leaving' = IF goal # Stay THEN goal ELSE leaving
  BY DEF Settle
<1>2. goal \in {Target(s, b), AdminTarget(s), Stay}
  OBVIOUS
<1> HIDE DEF goal
<1> QED
  BY <1>1, <1>2, TargetsDescend DEF Descends

\* A document that replaces another: the first after a gesture, a failure or
\* an expiry may be any, each later one is of lower rank.
LEMMA UnloadHops == SessionInv /\ HopInv /\ Unload => HopInv'
<1> SUFFICES ASSUME SessionInv, HopInv, Unload PROVE HopInv'
  OBVIOUS
<1>1. page' \in Pages /\ page' = Routed(leaving) /\ leaving # Stay
  BY DEF SessionInv, Typed, Unload, Open, Routed, Places, Stay, Unbuilt, Pages
<1>2. /\ Starts(page', store', net') /\ boot' = "null" /\ form' = FreshForm /\ hydrated' = FALSE
      /\ leaving' = IF page' = "root" THEN "dash" ELSE Stay
      /\ server' = server /\ ghost'.hops = Min({ghost.hops + 1, HopCap})
  BY DEF Unload, Open, Starts
<1>3. Rank(page') \in 0 .. 3 /\ Rank(page) \in 0 .. 3
  BY DEF Rank
<1>4. ghost.hops \in Nat /\ ghost'.hops \in Nat /\ ghost'.hops <= ghost.hops + 1
  <2>1. ghost.hops \in Nat
    BY DEF SessionInv, Typed, Ghosts
  <2>2. \E x \in {ghost.hops + 1, HopCap} : \A y \in {ghost.hops + 1, HopCap} : x <= y
    BY <2>1, SessionConstants
  <2>3. /\ Min({ghost.hops + 1, HopCap}) \in {ghost.hops + 1, HopCap}
        /\ \A y \in {ghost.hops + 1, HopCap} : Min({ghost.hops + 1, HopCap}) <= y
    BY <2>2 DEF Min
  <2> QED
    BY <1>2, <2>1, <2>3, SessionConstants
<1>5. ghost'.hops + Rank(page') <= 4
  <2>1. CASE ghost.hops = 0
    BY <1>3, <1>4, <2>1
  <2>2. CASE ghost.hops > 0
    <3>1. ghost.hops + Rank(page) <= 4 /\ Rank(page') < Rank(page)
      BY <1>1, <2>2 DEF HopInv, Descends
    <3> QED
      BY <1>3, <1>4, <3>1
  <2> QED
    BY <1>4, <2>1, <2>2
<1>6. Rank(page)' = Rank(page') /\ Rank(Routed(leaving))' = Rank(Routed(leaving'))
  BY <1>2 DEF Rank, Routed
<1>7. Descends'
  <2> SUFFICES ASSUME page' = "root" PROVE Rank(Routed(leaving))' < Rank(page)'
    BY <1>2 DEF Descends
  <2>1. Rank("dash") \in {0, 1} /\ Rank("root") = 2 /\ Routed("dash") = "dash"
    BY DEF Rank, Public, Routed, Unbuilt
  <2> QED
    BY <1>2, <1>6, <2>1
<1>8. Honest'
  <2>1. \A k \in Kinds : net'[k] \in {"idle", "sent"} /\ (k \notin Asks => net'[k] = "idle")
    BY <1>1, <1>2, StartsWell DEF Asks
  <2>2. net'["profile"] = "idle"
    BY <1>1, <1>2, StartsWell DEF Kinds
  <2> QED
    BY <1>2, <2>1, <2>2 DEF Honest, Asks, Kinds, FreshForm
<1>9. Informed'
  <2>1. /\ store'.user = FALSE /\ store'.loading = (page' # "root")
        /\ store'.profile = "none" /\ store'.roleLoaded = FALSE
    BY <1>2 DEF Starts, EmptyStore
  <2>2. page' = "root" => net'["me"] = "idle"
    BY <1>1, <1>2, StartsWell DEF Kinds
  <2> QED
    BY <1>2, <2>1, <2>2 DEF Informed
<1> QED
  BY <1>2, <1>5, <1>6, <1>7, <1>8, <1>9 DEF HopInv, SetupFirst

\* The backend answers a fresh document's question truthfully and unchanged.
LEMMA ServeHops ==
    ASSUME NEW k \in Kinds, SessionInv, HopInv, ghost.hops > 0, Serve(k)
    PROVE  HopInv'
<1>1. k \in Asks
  BY DEF HopInv, Honest, Serve
<1>2. server' = server
  BY <1>1 DEF Serve, Effect, Asks
<1>3. \A j \in Kinds : Answer(j)' = Answer(j)
  BY <1>2 DEF Answer
<1>4. \A j \in Kinds : net'[j] = IF j = k THEN Answer(k) ELSE net[j]
  BY DEF Serve, SessionInv, Typed, Nets
<1>5. UNCHANGED <<page, leaving, hydrated, store, boot, form, ghost>> /\ net[k] = "sent"
  BY DEF Serve
<1>6. Honest'
  BY <1>1, <1>2, <1>3, <1>4, <1>5 DEF HopInv, Honest, Asks, Kinds
<1>7. Informed'
  BY <1>2, <1>4, <1>5 DEF HopInv, Informed, Role, Kinds
<1>8. Descends' /\ (Rank(page) = Rank(page)')
  BY <1>2, <1>5 DEF HopInv, Descends, Rank
<1> QED
  BY <1>2, <1>5, <1>6, <1>7, <1>8 DEF HopInv, SetupFirst

\* Hydration runs the guard's effects for the first time.
LEMMA HydrateHops ==
    ASSUME SessionInv, HopInv, ghost.hops > 0, Hydrate
    PROVE  HopInv'
<1>1. UNCHANGED <<server, page, store, boot, form, ghost>> /\ page # "root"
  BY DEF Hydrate
<1>2. /\ \A j \in Kinds \ {"bootstrap"} : net'[j] = net[j]
      /\ net'["bootstrap"] \in {net["bootstrap"], "sent"}
  BY DEF Hydrate, SessionInv, Typed, Nets, Kinds
<1>3. \A j \in Kinds : Answer(j)' = Answer(j)
  BY <1>1 DEF Answer
<1>4. Honest'
  BY <1>1, <1>2, <1>3 DEF HopInv, Honest, Asks, Kinds
<1>5. Informed'
  BY <1>1, <1>2 DEF HopInv, Informed, Role, Kinds
<1>6. leaving' # Stay => Rank(Routed(leaving')) < Rank(page)
  <2>1. Target(store, boot) # Stay => Rank(Routed(Target(store, boot))) < Rank(page)
    BY <1>1, TargetsDescend DEF SessionInv, Typed, HopInv, Honest, Informed
  <2>2. (leaving' = Target(store, boot) /\ Target(store, boot) # Stay) \/ leaving' = leaving
    BY DEF Hydrate
  <2> QED
    BY <2>1, <2>2 DEF HopInv, Descends
<1>7. Descends' /\ (Rank(page) = Rank(page)')
  BY <1>1, <1>6 DEF Descends, Rank
<1> QED
  BY <1>1, <1>4, <1>5, <1>7 DEF HopInv, SetupFirst

\* What is left to show for a handler that settles on a page with a guard.
LEMMA HandlerHops ==
    ASSUME SessionInv, HopInv, ghost.hops > 0, page # "root",
           NEW s \in Stores, NEW b \in {"null", Answer("bootstrap")}, NEW n \in Nets,
           s.user => server.session, ~s.loading /\ ~s.user => ~server.session,
           s.profile \in {"none", Role}, s.roleLoaded => s.profile = Role,
           \A k \in Kinds \ Asks : n[k] = "idle",
           \A k \in Asks : n[k] \in {"idle", "sent", net[k]},
           n["profile"] # "idle" => server.session,
           Settle(s, b, n, leaving), UNCHANGED <<server, page, ghost>>, ~form'.success
    PROVE  HopInv'
<1>1. b \in Boots
  BY DEF Answer, Boots
<1>2. /\ store' = s /\ boot' = b
      /\ \A k \in Kinds \ {"bootstrap"} : net'[k] = n[k]
      /\ net'["bootstrap"] \in {n["bootstrap"], "sent"}
  BY <1>1, SettleKeeps DEF SessionInv, Typed
<1>3. \A k \in Kinds : Answer(k)' = Answer(k)
  BY DEF Answer
<1>4. Honest'
  BY <1>2, <1>3 DEF HopInv, Honest, Asks, Kinds
<1>5. Informed'
  BY <1>2 DEF HopInv, Informed, Role
<1>6. Descends' /\ (Rank(page) = Rank(page)')
  <2>1. leaving' # Stay => Rank(Routed(leaving')) < Rank(page)
    BY SettleDescends DEF SessionInv, HopInv
  <2> QED
    BY <2>1 DEF Descends, Rank
<1> QED
  BY <1>4, <1>5, <1>6 DEF HopInv, SetupFirst

\* getSession: the answer about the session is the truth.
LEMMA GetSessionHops ==
    ASSUME SessionInv, HopInv, ghost.hops > 0, GetSession
    PROVE  HopInv'
<1> DEFINE user == fetchMe(net["me"])
           s == IF user THEN AskProfile([store EXCEPT !.user = TRUE]) ELSE clearUser(store)
           t == [s EXCEPT !.loading = FALSE]
           n == [Done("me") EXCEPT !["profile"] = IF user THEN "sent" ELSE @]
<1>1. Settle(t, boot, n, leaving) /\ UNCHANGED <<server, page, ghost>> /\ net["me"] \in Answers
  BY DEF GetSession, Answered
<1>2. page # "root" /\ net["me"] = Answer("me")
  BY <1>1 DEF HopInv, Honest, Informed, Asks, Answers, Outcomes
<1>3. user <=> server.session
  BY <1>2 DEF fetchMe, Answer, Rejects, Throws, HasData, SessionInv, Typed, Servers
<1>4. /\ t \in Stores /\ t.loading = FALSE
      /\ t.user <=> user
      /\ t.profile \in {"none", store.profile}
      /\ t.roleLoaded => store.roleLoaded /\ t.profile = store.profile
  <2>0. store \in Stores
    BY DEF SessionInv, Typed
  <2>1. CASE user
    <3>1. s = AskProfile([store EXCEPT !.user = TRUE])
      BY <2>1
    <3> HIDE DEF user
    <3> QED
      BY <2>0, <2>1, <3>1 DEF AskProfile, Stores
  <2>2. CASE ~user
    <3>1. s = clearUser(store)
      BY <2>2
    <3> HIDE DEF user
    <3> QED
      BY <2>0, <2>2, <3>1 DEF clearUser, EmptyStore, Stores
  <2> QED
    BY <2>1, <2>2
<1>5. /\ n \in Nets
      /\ \A k \in Kinds \ Asks : n[k] = "idle"
      /\ \A k \in Asks : n[k] \in {"idle", "sent", net[k]}
      /\ n["profile"] # "idle" => server.session
  <2>1. net \in Nets /\ n = [[net EXCEPT !["me"] = "idle"] EXCEPT !["profile"] = IF user THEN "sent" ELSE @]
    BY DEF SessionInv, Typed, Done
  <2>2. user \in BOOLEAN
    BY DEF fetchMe
  <2> HIDE DEF user, n
  <2> QED
    BY <1>3, <2>1, <2>2 DEF HopInv, Honest, Nets, Kinds, Asks
<1>6. ~form'.success
  <2>1. form' = Mounted(form, t, boot)
    BY DEF GetSession
  <2> QED
    BY <2>1 DEF Mounted, FreshForm, HopInv, Honest
<1> HIDE DEF t, n
<1> QED
  BY <1>1, <1>2, <1>3, <1>4, <1>5, <1>6, HandlerHops DEF HopInv, Honest, Informed

\* fetchProfile: the role is the backend's.
LEMMA FetchProfileHops ==
    ASSUME SessionInv, HopInv, ghost.hops > 0, FetchProfile
    PROVE  HopInv'
<1> DEFINE o == net["profile"]
           t == ProfileLoaded(store, o)
           n == [Done("profile") EXCEPT !["change"] = IF net["change"] = "awaiting" THEN "idle" ELSE @]
<1>1. net["profile"] = Answer("profile") /\ server.session /\ net["change"] = "idle"
  BY DEF FetchProfile, Answered, HopInv, Honest, Asks, Kinds, Answers, Outcomes
<1>2. Settle(t, boot, n, leaving) /\ UNCHANGED <<server, page, form, ghost>>
  BY <1>1 DEF FetchProfile
<1>3. page # "root"
  <2>1. net["profile"] # "idle"
    BY DEF FetchProfile, Answered, Answers, Outcomes
  <2> QED
    BY <2>1 DEF SessionInv, Roles, HopInv, Informed, Protected
<1>4. /\ t \in Stores /\ t.user = store.user /\ t.loading = store.loading
      /\ t.profile = Role
  <2>1. o = IF server.must THEN "must_change" ELSE IF server.admin THEN "admin" ELSE "user"
    BY <1>1 DEF Answer
  <2>2. store \in Stores
    BY DEF SessionInv, Typed
  <2>3. store.profile \in {"none", Role}
    BY DEF HopInv, Informed
  <2> HIDE DEF o
  <2> QED
    BY <2>1, <2>2, <2>3 DEF ProfileLoaded, Stores, Role
<1>5. /\ n \in Nets
      /\ \A k \in Kinds \ Asks : n[k] = "idle"
      /\ \A k \in Asks : n[k] \in {"idle", "sent", net[k]}
  BY <1>1 DEF Done, SessionInv, Typed, HopInv, Honest, Nets, Kinds, Asks
<1> HIDE DEF t, n
<1> QED
  BY <1>1, <1>2, <1>3, <1>4, <1>5, HandlerHops DEF HopInv, Honest, Informed

\* The bootstrap state: a guard learns it, the entry page leaves with it.
LEMMA BootstrapHops ==
    ASSUME SessionInv, HopInv, ghost.hops > 0, BootstrapStatus
    PROVE  HopInv'
<1> DEFINE b == IF needsSetup(net["bootstrap"]) THEN "setup" ELSE "ready"
<1>1. net["bootstrap"] = Answer("bootstrap") /\ UNCHANGED <<server, page, hydrated, ghost>>
  BY DEF BootstrapStatus, Answered, HopInv, Honest, Asks, Answers, Outcomes
<1>2. b = Answer("bootstrap")
  BY <1>1 DEF needsSetup, Answer
<1>3. ~form'.success
  <2>1. form' = Mounted(form, store, b)
    BY DEF BootstrapStatus
  <2> QED
    BY <2>1 DEF Mounted, FreshForm, HopInv, Honest
<1>4. Done("bootstrap") \in Nets
  BY DEF Done, SessionInv, Typed, Nets, Kinds
<1>5. \A k \in Kinds : Done("bootstrap")[k] = IF k = "bootstrap" THEN "idle" ELSE net[k]
  BY DEF Done, SessionInv, Typed, Nets, Kinds
<1>6. CASE page # "root"
  <2>1. Settle(store, b, Done("bootstrap"), leaving)
    BY <1>6 DEF BootstrapStatus
  <2>2. /\ \A k \in Kinds \ Asks : Done("bootstrap")[k] = "idle"
        /\ \A k \in Asks : Done("bootstrap")[k] \in {"idle", "sent", net[k]}
        /\ Done("bootstrap")["profile"] # "idle" => server.session
    BY <1>5 DEF HopInv, Honest, Kinds, Asks
  <2> HIDE DEF b
  <2> QED
    BY <1>1, <1>2, <1>3, <1>4, <1>6, <2>1, <2>2, HandlerHops
    DEF HopInv, Honest, Informed, SessionInv, Typed
<1>7. CASE page = "root"
  <2> DEFINE go == IF server.setup THEN "signup" ELSE "login"
  <2>1. Settle(store, boot, Done("bootstrap"), go)
    BY <1>1, <1>7 DEF BootstrapStatus, needsSetup, Answer
  <2>2. ~hydrated
    BY <1>7 DEF HopInv, Informed
  <2>3. store' = store /\ boot' = boot /\ net' = Done("bootstrap") /\ leaving' = go
    BY <2>1, <2>2 DEF Settle
  <2>4. \A k \in Kinds : Answer(k)' = Answer(k)
    BY <1>1 DEF Answer
  <2>5. Honest'
    BY <1>1, <1>3, <1>5, <2>3, <2>4 DEF HopInv, Honest, Kinds, Asks
  <2>6. Informed'
    BY <1>1, <1>5, <1>7, <2>3 DEF HopInv, Informed, Role, Kinds
  <2>7. Descends' /\ (Rank(page) = Rank(page)')
    <3>1. Rank(page) = 2 /\ Rank(go) \in {0, 1} /\ Routed(go) = go
      BY <1>7 DEF Rank, Public, Routed, Unbuilt
    <3>2. Rank(Routed(leaving))' = Rank(go) /\ Rank(page) = Rank(page)'
      <4>1. Routed(leaving)' = go
        BY <2>3, <3>1 DEF Routed
      <4> HIDE DEF go
      <4> QED
        BY <1>1, <4>1 DEF Rank
    <3> QED
      BY <1>1, <3>1, <3>2 DEF Descends
  <2> QED
    BY <1>1, <2>5, <2>6, <2>7 DEF HopInv, SetupFirst
<1> QED
  BY <1>6, <1>7

\* The remaining steps of a fresh document show its notice or nothing at all.
LEMMA StillHops ==
    ASSUME SessionInv, HopInv, ghost.hops > 0,
           NoticeMounts \/ CooldownTick \/ UNCHANGED vars
    PROVE  HopInv'
<1>1. UNCHANGED <<server, page, leaving, hydrated, store, boot, net, ghost>>
  BY DEF NoticeMounts, CooldownTick, vars
<1>2. form'.success = form.success
  BY DEF NoticeMounts, CooldownTick, vars, SessionInv, Typed, Forms
<1>3. \A k \in Kinds : Answer(k)' = Answer(k)
  BY <1>1 DEF Answer
<1>4. Honest'
  BY <1>1, <1>2, <1>3 DEF HopInv, Honest, Asks, Kinds
<1>5. Informed' /\ Descends' /\ (Rank(page) = Rank(page)')
  BY <1>1 DEF HopInv, Informed, Role, Descends, Rank
<1> QED
  BY <1>1, <1>4, <1>5 DEF HopInv, SetupFirst

\* Every step keeps the invariant.
LEMMA HopStep ==
    ASSUME SessionInv, HopInv, [Next]_vars
    PROVE  HopInv'
<1>0. ghost \in Ghosts /\ SetupFirst'
  BY SetupStays DEF SessionInv, Typed, HopInv
<1>1. ASSUME ghost'.hops = 0 PROVE HopInv'
  BY <1>0, <1>1 DEF HopInv
<1>2. CASE Unload
  BY <1>2, UnloadHops
<1>3. CASE Expire \/ (\E k \in Kinds : Fault(k)) \/ User
  <2>1. ghost' = [ghost EXCEPT !.hops = 0] \/ ghost' = [ghost EXCEPT !.hops = 0, !.clean = FALSE]
    BY <1>3 DEF Expire, Fault, User, RefusedByForm, SubmitLogin, SubmitSignup, SubmitForgot, Resend,
                EditEmail, SubmitReset, SubmitChange, SignOut, Navigate, Gesture
  <2> QED
    BY <1>0, <1>1, <2>1 DEF Ghosts
<1>4. CASE ghost.hops = 0 /\ ghost'.hops = ghost.hops
  BY <1>1, <1>4
<1>5. CASE ghost.hops > 0
  <2>1. CASE Hydrate BY <1>5, <2>1, HydrateHops
  <2>2. CASE \E k \in Kinds : Serve(k) BY <1>5, <2>2, ServeHops
  <2>3. CASE GetSession BY <1>5, <2>3, GetSessionHops
  <2>4. CASE FetchProfile BY <1>5, <2>4, FetchProfileHops
  <2>5. CASE BootstrapStatus BY <1>5, <2>5, BootstrapHops
  <2>6. CASE NoticeMounts \/ CooldownTick \/ UNCHANGED vars BY <1>5, <2>6, StillHops
  <2>7. ~(SignedIn \/ SignedUp \/ SignedOut \/ Changed \/ Consumed \/ \E k \in Kinds : Recovered(k))
    BY <1>5 DEF HopInv, Honest, Asks, Kinds, SignedIn, SignedUp, SignedOut, Changed, Consumed,
                Recovered, Answered, Answers, Outcomes
  <2>8. ~ResetLeaves
    BY <1>5 DEF HopInv, Honest, ResetLeaves
  <2> QED
    BY <1>2, <1>3, <2>1, <2>2, <2>3, <2>4, <2>5, <2>6, <2>7, <2>8 DEF Next, Deliver
<1>6. Unload \/ Expire \/ (\E k \in Kinds : Fault(k)) \/ User \/ ghost'.hops = ghost.hops
  <2>1. CASE Hydrate \/ NoticeMounts \/ CooldownTick \/ ResetLeaves \/ UNCHANGED vars
    BY <2>1 DEF Hydrate, NoticeMounts, CooldownTick, ResetLeaves, vars
  <2>2. CASE \E k \in Kinds : Serve(k)
    BY <2>2 DEF Serve
  <2>3. CASE Deliver
    BY <1>0, <2>3 DEF Deliver, GetSession, FetchProfile, BootstrapStatus, SignedIn, SignedUp, SignedOut,
                Changed, Consumed, Recovered, Ghosts
  <2> QED
    BY <2>1, <2>2, <2>3 DEF Next
<1> QED
  BY <1>0, <1>2, <1>3, <1>4, <1>5, <1>6 DEF Ghosts

\* From the last gesture, failure or expiry at most four documents are opened:
\* no pair of guards sends the visitor back and forth, whatever the accounts
\* and the session are (ProtectedRoute, PublicOnlyRoute, OnlyAdminRoute,
\* FirstRunGate).
THEOREM RedirectsComeToAnEnd == Spec => []RedirectsEnd
<1>1. Init => HopInv
  BY DEF Init, HopInv, SetupFirst
<1>2. SessionInv /\ HopInv => RedirectsEnd
  <2> SUFFICES ASSUME SessionInv, HopInv PROVE RedirectsEnd
    OBVIOUS
  <2>1. ghost.hops \in Nat /\ Rank(page) \in 0 .. 3
    BY DEF SessionInv, Typed, Ghosts, Rank
  <2>2. CASE ghost.hops > 0
    BY <2>1, <2>2 DEF HopInv, RedirectsEnd
  <2>3. CASE ghost.hops = 0
    BY <2>3 DEF RedirectsEnd
  <2> QED
    BY <2>1, <2>2, <2>3
<1> QED
  BY <1>1, <1>2, SessionInitInv, SessionNextInv, HopStep, PTL DEF Spec

(***************************************************************************)
(* PasswordReset: the backend                                              *)
(***************************************************************************)

-----------------------------------------------------------------------------
(* The inductive invariant.  A row appears with its request's insert and   *)
(* never becomes unused again; who won a link holds it used.               *)

\* Before its insert a request has no row; a mailed token has one.
RowsAreIssued ==
    \A r \in Requests :
        /\ rpc[r] \in {"ip", "lookup", "count", "invalidate", "insert"} => row[r] = "none"
        /\ rpc[r] \in {"count", "invalidate", "insert", "send"} => who[r] \in Users
        /\ rpc[r] = "send" => row[r] # "none"
        /\ r \in mailed => row[r] # "none"

\* A consume under way has a mailed link, and it has won exactly when it is
\* past MarkUsed.
LinksAreMailed ==
    \A c \in Consumers :
        /\ cpc[c] \in {"mark", "rotate", "clear", "ok", "invalid"} => ctok[c] \in mailed
        /\ cpc[c] \in {"get", "mark", "invalid"} => c \notin won
        /\ cpc[c] \in {"rotate", "clear", "ok"} => c \in won

\* The link of a winner was mailed and is used.
WinnersHoldUsed == \A c \in won : ctok[c] \in mailed /\ row[ctok[c]] = "used"

ResetInv ==
    /\ ResetTypeOK /\ RowsAreIssued /\ LinksAreMailed /\ WinnersHoldUsed
    /\ SingleUse /\ OnlyWinnersRotate

\* An empty table and handlers that have not begun satisfy the invariant.
LEMMA ResetInitInv == ResetInit => ResetInv
<1> SUFFICES ASSUME ResetInit PROVE ResetInv OBVIOUS
<1>1. ResetTypeOK
  <2>1. mustChange \in [Users -> BOOLEAN] BY DEF ResetInit
  <2> QED BY <2>1 DEF ResetInit, ResetTypeOK, RequestPc, ConsumePc
<1>2. RowsAreIssued /\ LinksAreMailed /\ WinnersHoldUsed
  BY DEF ResetInit, RowsAreIssued, LinksAreMailed, WinnersHoldUsed
<1>3. SingleUse /\ OnlyWinnersRotate BY DEF ResetInit, SingleUse, OnlyWinnersRotate
<1> QED BY <1>1, <1>2, <1>3 DEF ResetInv

\* A request that only moves on, or is dropped or fails, touches no token.
LEMMA RequestMovesInv ==
    ASSUME ResetInv, NEW r \in Requests, NEW to \in RequestPc, Goes(r, to),
           to \in {"count", "invalidate", "insert", "send"} => who[r] \in Users,
           to \in {"lookup", "count", "invalidate", "insert"} => row[r] = "none",
           to \notin {"ip", "send"},
           overlapped' \in BOOLEAN,
           UNCHANGED <<inputs, table, mailed, cpc, password, mustChange, now, won>>
    PROVE  ResetInv'
<1> USE DEF ResetInv
<1>1. ResetTypeOK' BY DEF ResetTypeOK, Goes, inputs, table
<1>2. RowsAreIssued' BY DEF ResetTypeOK, RowsAreIssued, Goes, inputs, table
<1>3. LinksAreMailed' BY DEF LinksAreMailed, inputs, table
<1>4. WinnersHoldUsed' BY DEF WinnersHoldUsed, inputs, table
<1>5. SingleUse' BY DEF SingleUse, inputs
<1>6. OnlyWinnersRotate' BY DEF OnlyWinnersRotate, inputs
<1> QED BY <1>1, <1>2, <1>3, <1>4, <1>5, <1>6

\* Invalidating the outstanding tokens only turns unused rows into used ones.
LEMMA InvalidateInv ==
    ASSUME ResetInv, NEW r \in Requests, NEW to \in {"insert", "error"},
           rpc[r] = "invalidate", Goes(r, to),
           row' = [t \in Requests |-> IF t \in Outstanding(who[r]) THEN "used" ELSE row[t]],
           UNCHANGED <<inputs, created, mailed, cpc, password, mustChange, now, won, overlapped>>
    PROVE  ResetInv'
<1> USE DEF ResetInv
<1>1. \A t \in Requests : row'[t] = row[t] \/ (row[t] = "unused" /\ row'[t] = "used")
  BY DEF Outstanding, Live
<1>2. /\ row' \in [Requests -> {"none", "unused", "used"}]
      /\ \A t \in Requests : row'[t] # "none" => row[t] # "none"
      /\ \A t \in Requests : row[t] = "none" <=> row'[t] = "none"
      /\ \A t \in Requests : row[t] = "used" => row'[t] = "used"
  BY <1>1 DEF ResetTypeOK
<1>3. ResetTypeOK' BY <1>2 DEF Goes, inputs, RequestPc, ResetTypeOK
<1>4. RowsAreIssued'
  BY <1>2 DEF Goes, inputs, RowsAreIssued, ResetTypeOK
<1>5. LinksAreMailed' BY DEF inputs, LinksAreMailed
<1>6. WinnersHoldUsed'
  BY <1>2 DEF inputs, WinnersHoldUsed, ResetTypeOK
<1>7. SingleUse' /\ OnlyWinnersRotate'
  BY DEF inputs, SingleUse, OnlyWinnersRotate
<1> QED BY <1>3, <1>4, <1>5, <1>6, <1>7

\* An insert gives its request a row that no consume can hold yet.
LEMMA InsertInv ==
    ASSUME ResetInv, NEW r \in Requests, NEW to \in {"send", "error"},
           rpc[r] = "insert", Goes(r, to),
           row' = [row EXCEPT ![r] = "unused"], created' = [created EXCEPT ![r] = now],
           UNCHANGED <<inputs, mailed, cpc, password, mustChange, now, won, overlapped>>
    PROVE  ResetInv'
<1> USE DEF ResetInv
<1>1. row[r] = "none" /\ who[r] \in Users /\ r \notin mailed
  BY DEF RowsAreIssued
<1>2. ResetTypeOK' BY <1>1 DEF Goes, inputs, RequestPc, ResetTypeOK
<1>3. RowsAreIssued' BY <1>1 DEF Goes, inputs, RowsAreIssued, ResetTypeOK
<1>4. LinksAreMailed' BY DEF inputs, LinksAreMailed
<1>5. WinnersHoldUsed' BY <1>1 DEF inputs, WinnersHoldUsed, ResetTypeOK
<1>6. SingleUse' /\ OnlyWinnersRotate' BY DEF inputs, SingleUse, OnlyWinnersRotate
<1> QED BY <1>2, <1>3, <1>4, <1>5, <1>6

\* Only a consume that has won its link sets the password.
LEMMA RotateInv ==
    ASSUME ResetInv, NEW c \in Consumers, NEW to \in {"clear", "error"},
           cpc[c] = "rotate", Moves(c, to),
           password' = [password EXCEPT ![who[ctok[c]]] = c],
           UNCHANGED <<inputs, table, mailed, rpc, mustChange, now, won, overlapped>>
    PROVE  ResetInv'
<1> USE DEF ResetInv
<1>1. c \in won /\ ctok[c] \in mailed /\ ctok[c] \in Requests /\ who[ctok[c]] \in Users
  BY DEF LinksAreMailed, RowsAreIssued, ResetTypeOK
<1>2. cpc'[c] = to /\ \A d \in Consumers \ {c} : cpc'[d] = cpc[d]
  BY DEF Moves, ResetTypeOK
<1>3. ResetTypeOK' BY <1>1 DEF Moves, inputs, table, ConsumePc, ResetTypeOK
<1>4. RowsAreIssued' BY DEF inputs, table, RowsAreIssued
<1>5. LinksAreMailed' BY <1>1, <1>2 DEF inputs, LinksAreMailed
<1>6. WinnersHoldUsed' /\ SingleUse'
  BY DEF inputs, table, WinnersHoldUsed, SingleUse
<1>7. OnlyWinnersRotate'
  <2>1. password' = [password EXCEPT ![who[ctok[c]]] = c] OBVIOUS
  <2>2. won' = won /\ mailed' = mailed /\ ctok' = ctok /\ who' = who
    BY DEF inputs
  <2> SUFFICES ASSUME NEW u \in Users, password'[u] # Old
               PROVE  /\ password'[u] \in won /\ ctok[password'[u]] \in mailed
                      /\ who[ctok[password'[u]]] = u /\ cpc'[password'[u]] # "invalid"
    BY <2>2 DEF OnlyWinnersRotate
  <2>3. CASE u = who[ctok[c]] BY <1>1, <1>2, <2>1, <2>3 DEF ResetTypeOK
  <2>4. CASE u # who[ctok[c]]
    BY <1>1, <1>2, <2>1, <2>4 DEF OnlyWinnersRotate, ResetTypeOK
  <2> QED BY <2>3, <2>4
<1> QED BY <1>3, <1>4, <1>5, <1>6, <1>7

\* Clearing the flag touches neither tokens nor passwords.
LEMMA ClearInv ==
    ASSUME ResetInv, NEW c \in Consumers, NEW to \in {"ok", "error"},
           cpc[c] = "clear", Moves(c, to),
           mustChange' = [mustChange EXCEPT ![who[ctok[c]]] = FALSE],
           UNCHANGED <<inputs, table, mailed, rpc, password, now, won, overlapped>>
    PROVE  ResetInv'
<1> USE DEF ResetInv
<1>1. c \in won /\ ctok[c] \in mailed
  BY DEF LinksAreMailed
<1>2. cpc'[c] = to /\ \A d \in Consumers \ {c} : cpc'[d] = cpc[d]
  BY DEF Moves, ResetTypeOK
<1>3. ResetTypeOK'
  <2>1. mustChange' \in [Users -> BOOLEAN]
    BY DEF ResetTypeOK
  <2> QED BY <2>1 DEF Moves, inputs, table, ConsumePc, ResetTypeOK
<1>4. RowsAreIssued' BY DEF inputs, table, RowsAreIssued
<1>5. LinksAreMailed' BY <1>1, <1>2 DEF inputs, LinksAreMailed
<1>6. WinnersHoldUsed' /\ SingleUse'
  BY DEF inputs, table, WinnersHoldUsed, SingleUse
<1>7. OnlyWinnersRotate'
  BY <1>2 DEF inputs, OnlyWinnersRotate, ResetTypeOK
<1> QED BY <1>3, <1>4, <1>5, <1>6, <1>7

\* Every step of a request, of a consume and of time keeps the invariant.
LEMMA ResetNextInv == ResetInv /\ [ResetNext]_pvars => ResetInv'
<1> SUFFICES ASSUME ResetInv, [ResetNext]_pvars PROVE ResetInv'
  OBVIOUS
<1> USE DEF ResetInv
<1>1. CASE UNCHANGED pvars
  BY <1>1 DEF pvars, ResetTypeOK, RowsAreIssued, LinksAreMailed, WinnersHoldUsed,
              SingleUse, OnlyWinnersRotate
<1>2. CASE Elapse
  BY <1>2 DEF Elapse, inputs, table, ResetTypeOK, RowsAreIssued, LinksAreMailed,
              WinnersHoldUsed, SingleUse, OnlyWinnersRotate
<1>3. ASSUME NEW r \in Requests, CheckIp(r) PROVE ResetInv'
  BY <1>3, RequestMovesInv DEF CheckIp, RequestPc, ResetTypeOK, RowsAreIssued
<1>4. ASSUME NEW r \in Requests, LookupUser(r) PROVE ResetInv'
  BY <1>4, RequestMovesInv DEF LookupUser, RequestPc, ResetTypeOK, RowsAreIssued
<1>5. ASSUME NEW r \in Requests, CheckUser(r) PROVE ResetInv'
  <2>1. overlapped' \in BOOLEAN BY <1>5 DEF CheckUser, ResetTypeOK
  <2> QED BY <1>5, <2>1, RequestMovesInv DEF CheckUser, RequestPc, ResetTypeOK, RowsAreIssued
<1>6. ASSUME NEW r \in Requests, RequestFails(r) PROVE ResetInv'
  <2>1. CASE UNCHANGED table
    BY <1>6, <2>1, RequestMovesInv DEF RequestFails, RequestPc, ResetTypeOK, RowsAreIssued
  <2>2. CASE /\ rpc[r] = "invalidate" /\ UNCHANGED created
             /\ row' = [t \in Requests |-> IF t \in Outstanding(who[r]) THEN "used" ELSE row[t]]
    BY <1>6, <2>2, InvalidateInv DEF RequestFails
  <2>3. CASE /\ rpc[r] = "insert" /\ row' = [row EXCEPT ![r] = "unused"]
             /\ created' = [created EXCEPT ![r] = now]
    BY <1>6, <2>3, InsertInv DEF RequestFails
  <2> QED BY <1>6, <2>1, <2>2, <2>3 DEF RequestFails
<1>7. ASSUME NEW r \in Requests, InvalidateOutstanding(r) PROVE ResetInv'
  BY <1>7, InvalidateInv DEF InvalidateOutstanding
<1>8. ASSUME NEW r \in Requests, Insert(r) PROVE ResetInv'
  BY <1>8, InsertInv DEF Insert
<1>9. ASSUME NEW r \in Requests, SendMail(r) PROVE ResetInv'
  <2>1. mailed \subseteq mailed' /\ mailed' \subseteq mailed \cup {r} BY <1>9 DEF SendMail
  <2>2. \E to \in {"sent", "error"} : Goes(r, to) BY <1>9 DEF SendMail
  <2>3. ResetTypeOK' BY <1>9, <2>1, <2>2 DEF SendMail, Goes, inputs, table, RequestPc, ResetTypeOK
  <2>4. RowsAreIssued'
    BY <1>9, <2>1, <2>2 DEF SendMail, Goes, inputs, table, RowsAreIssued, ResetTypeOK
  <2>5. LinksAreMailed' /\ WinnersHoldUsed'
    BY <1>9, <2>1 DEF SendMail, inputs, table, LinksAreMailed, WinnersHoldUsed
  <2>6. SingleUse' /\ OnlyWinnersRotate'
    BY <1>9, <2>1 DEF SendMail, inputs, SingleUse, OnlyWinnersRotate
  <2> QED BY <2>3, <2>4, <2>5, <2>6
<1>10. ASSUME NEW c \in Consumers, GetByHash(c) PROVE ResetInv'
  <2>1. PICK t \in mailed : /\ ctok' = [ctok EXCEPT ![c] = t]
                            /\ Moves(c, IF Live(t) THEN "mark" ELSE "invalid")
    BY <1>10 DEF GetByHash
  <2>2. c \notin won /\ cpc[c] = "get" BY <1>10 DEF GetByHash, LinksAreMailed
  <2>3. cpc'[c] \in {"mark", "invalid"} /\ \A d \in Consumers \ {c} : cpc'[d] = cpc[d]
    BY <2>1 DEF Moves, ResetTypeOK
  <2>4. ctok'[c] = t /\ \A d \in Consumers \ {c} : ctok'[d] = ctok[d] BY <2>1 DEF ResetTypeOK
  <2>5. ResetTypeOK' BY <1>10, <2>1 DEF GetByHash, Moves, table, ConsumePc, ResetTypeOK
  <2>6. RowsAreIssued' BY <1>10 DEF GetByHash, table, RowsAreIssued
  <2>7. LinksAreMailed' BY <1>10, <2>2, <2>3, <2>4 DEF GetByHash, LinksAreMailed
  <2>8. WinnersHoldUsed' /\ SingleUse'
    BY <1>10, <2>2, <2>4 DEF GetByHash, table, WinnersHoldUsed, SingleUse, ResetTypeOK
  <2>9. OnlyWinnersRotate'
    BY <1>10, <2>2, <2>3, <2>4 DEF GetByHash, OnlyWinnersRotate, ResetTypeOK
  <2> QED BY <2>5, <2>6, <2>7, <2>8, <2>9
<1>11. ASSUME NEW c \in Consumers, MarkUsed(c) \/ ConsumeFails(c) PROVE ResetInv'
  <2>1. PICK to \in {"rotate", "invalid", "error"} : Moves(c, to)
    BY <1>11 DEF MarkUsed, ConsumeFails
  <2>2. cpc'[c] = to /\ \A d \in Consumers \ {c} : cpc'[d] = cpc[d]
    BY <2>1 DEF Moves, ResetTypeOK
  <2>3. CASE UNCHANGED <<row, won, password, mustChange>>
    <3>1. to # "rotate" /\ (to = "invalid" => c \notin won /\ ctok[c] \in mailed)
      <4>1. CASE MarkUsed(c)
        <5>1. c \notin won /\ ctok[c] \in mailed /\ cpc[c] = "mark"
          BY <4>1 DEF MarkUsed, LinksAreMailed
        <5>2. won' # won \cup {c} BY <2>3, <5>1
        <5> QED BY <2>2, <4>1, <5>1, <5>2 DEF MarkUsed, Moves, ResetTypeOK
      <4>2. CASE ConsumeFails(c)
        BY <2>2, <4>2 DEF ConsumeFails, Moves, ResetTypeOK
      <4> QED BY <1>11, <4>1, <4>2
    <3>2. ResetTypeOK' BY <1>11, <2>1, <2>3 DEF MarkUsed, ConsumeFails, Moves, inputs, ConsumePc, ResetTypeOK
    <3>3. RowsAreIssued' BY <1>11, <2>3 DEF MarkUsed, ConsumeFails, inputs, RowsAreIssued
    <3>4. LinksAreMailed'
      BY <1>11, <2>2, <2>3, <3>1 DEF MarkUsed, ConsumeFails, inputs, LinksAreMailed
    <3>5. WinnersHoldUsed' /\ SingleUse'
      BY <1>11, <2>3 DEF MarkUsed, ConsumeFails, inputs, WinnersHoldUsed, SingleUse
    <3>6. OnlyWinnersRotate'
      BY <1>11, <2>2, <2>3, <3>1 DEF MarkUsed, ConsumeFails, inputs, OnlyWinnersRotate, ResetTypeOK
    <3> QED BY <3>2, <3>3, <3>4, <3>5, <3>6
  <2>4. CASE /\ cpc[c] = "mark" /\ row[ctok[c]] = "unused"
             /\ row' = [row EXCEPT ![ctok[c]] = "used"] /\ won' = won \cup {c}
             /\ to \in {"rotate", "error"} /\ UNCHANGED <<password, mustChange>>
    <3>1. ctok[c] \in mailed /\ ctok[c] \in Requests /\ c \notin won
      BY <2>4 DEF LinksAreMailed, ResetTypeOK
    <3>2. ResetTypeOK'
      BY <1>11, <2>1, <2>4, <3>1 DEF MarkUsed, ConsumeFails, Moves, inputs, ConsumePc, ResetTypeOK
    <3>3. RowsAreIssued'
      BY <1>11, <2>4, <3>1 DEF MarkUsed, ConsumeFails, inputs, RowsAreIssued, ResetTypeOK
    <3>4. LinksAreMailed'
      BY <1>11, <2>2, <2>4, <3>1 DEF MarkUsed, ConsumeFails, inputs, LinksAreMailed
    <3>5. WinnersHoldUsed'
      BY <1>11, <2>4, <3>1 DEF MarkUsed, ConsumeFails, inputs, WinnersHoldUsed, ResetTypeOK
    <3>6. SingleUse'
      BY <1>11, <2>4, <3>1 DEF MarkUsed, ConsumeFails, inputs, SingleUse, WinnersHoldUsed, ResetTypeOK
    <3>7. OnlyWinnersRotate'
      BY <1>11, <2>2, <2>4, <3>1 DEF MarkUsed, ConsumeFails, inputs, OnlyWinnersRotate, ResetTypeOK
    <3> QED BY <3>2, <3>3, <3>4, <3>5, <3>6, <3>7
  <2>5. CASE /\ ConsumeFails(c) /\ cpc[c] = "rotate" /\ UNCHANGED <<row, won, mustChange>>
             /\ password' = [password EXCEPT ![who[ctok[c]]] = c]
    BY <2>5, RotateInv DEF ConsumeFails, table
  <2>6. CASE /\ ConsumeFails(c) /\ cpc[c] = "clear" /\ UNCHANGED <<row, won, password>>
             /\ mustChange' = [mustChange EXCEPT ![who[ctok[c]]] = FALSE]
    BY <2>6, ClearInv DEF ConsumeFails, table
  <2>7. CASE MarkUsed(c)
    BY <2>1, <2>2, <2>3, <2>4, <2>7 DEF MarkUsed, Moves, ResetTypeOK
  <2>8. CASE ConsumeFails(c)
    <3>1. to = "error" BY <2>2, <2>8 DEF ConsumeFails, Moves, ResetTypeOK
    <3> QED BY <2>3, <2>4, <2>5, <2>6, <2>8, <3>1 DEF ConsumeFails
  <2> QED BY <1>11, <2>7, <2>8
<1>12. ASSUME NEW c \in Consumers, ResetPassword(c) PROVE ResetInv'
  BY <1>12, RotateInv DEF ResetPassword
<1>13. ASSUME NEW c \in Consumers, ClearMustChange(c) PROVE ResetInv'
  BY <1>13, ClearInv DEF ClearMustChange
<1> QED
  BY <1>1, <1>2, <1>3, <1>4, <1>5, <1>6, <1>7, <1>8, <1>9, <1>10, <1>11, <1>12, <1>13
     DEF ResetNext

\* The token table, the handlers and the accounts stay in their types.
THEOREM ResetTypeCorrect == ResetSpec => []ResetTypeOK
<1>1. ResetInv => ResetTypeOK BY DEF ResetInv
<1> QED BY <1>1, ResetInitInv, ResetNextInv, PTL DEF ResetSpec

\* Of any number of consumes of one link, racing each other and newer requests,
\* at most one gets past MarkUsed (Service.Consume, MarkPasswordResetTokenUsed).
THEOREM LinksAreSingleUse == ResetSpec => []SingleUse
<1>1. ResetInv => SingleUse BY DEF ResetInv
<1> QED BY <1>1, ResetInitInv, ResetNextInv, PTL DEF ResetSpec

\* A password is only ever set by the consume that won a link mailed to the
\* same account (Service.Consume).
THEOREM WinnersRotate == ResetSpec => []OnlyWinnersRotate
<1>1. ResetInv => OnlyWinnersRotate BY DEF ResetInv
<1> QED BY <1>1, ResetInitInv, ResetNextInv, PTL DEF ResetSpec

-----------------------------------------------------------------------------
(* What 200 means: the steps of Consume in their order.                    *)

\* A consume past the rotation has set the password of its account, which is
\* never the old one again; one that is answered 200 has cleared the flag.
Rotated ==
    \A c \in Consumers :
        /\ cpc[c] \in {"clear", "ok"} => password[who[ctok[c]]] # Old
        /\ cpc[c] = "ok" => mustChange[who[ctok[c]]] = FALSE

\* A winner's account exists.
LEMMA WinnersAccount ==
    ASSUME ResetInv, NEW c \in Consumers, cpc[c] \in {"rotate", "clear", "ok"}
    PROVE  ctok[c] \in Requests /\ who[ctok[c]] \in Users
BY DEF ResetInv, ResetTypeOK, LinksAreMailed, RowsAreIssued

\* Steps that keep the accounts and bring no consume past the rotation.
LEMMA RotatedAside ==
    ASSUME Rotated, UNCHANGED <<who, password, mustChange>>,
           \A c \in Consumers : cpc'[c] \in {"clear", "ok"} => cpc'[c] = cpc[c] /\ ctok'[c] = ctok[c]
    PROVE  Rotated'
BY DEF Rotated

\* Every step keeps Rotated.
LEMMA RotatedStep ==
    ASSUME ResetInv, Rotated, [ResetNext]_pvars
    PROVE  Rotated'
<1> USE DEF ResetInv
<1>1. ASSUME NEW r \in Requests,
             \/ CheckIp(r) \/ LookupUser(r) \/ CheckUser(r)
             \/ InvalidateOutstanding(r) \/ Insert(r) \/ SendMail(r) \/ RequestFails(r)
      PROVE  Rotated'
  BY <1>1, RotatedAside DEF CheckIp, LookupUser, CheckUser, InvalidateOutstanding, Insert, SendMail,
                            RequestFails, inputs
<1>2. ASSUME NEW c \in Consumers, GetByHash(c) \/ MarkUsed(c)
      PROVE  Rotated'
  BY <1>2, RotatedAside DEF GetByHash, MarkUsed, Moves, inputs, ResetTypeOK
<1>3. ASSUME NEW c \in Consumers, cpc[c] = "rotate", UNCHANGED <<inputs, mustChange>>,
             password' = [password EXCEPT ![who[ctok[c]]] = c], Moves(c, "clear") \/ Moves(c, "error")
      PROVE  Rotated'
  <2>1. who[ctok[c]] \in Users
    BY <1>3, WinnersAccount
  <2>2. \A u \in Users : password'[u] # Old \/ password'[u] = password[u]
    BY <1>3, ConsumersAssumption DEF ResetTypeOK
  <2>3. password'[who[ctok[c]]] # Old
    BY <1>3, <2>1, ConsumersAssumption DEF ResetTypeOK
  <2>4. ASSUME NEW d \in Consumers, cpc'[d] \in {"clear", "ok"}
        PROVE  /\ password'[who'[ctok'[d]]] # Old
               /\ cpc'[d] = "ok" => mustChange'[who'[ctok'[d]]] = FALSE
    <3>1. CASE d = c
      BY <1>3, <2>3, <3>1 DEF Moves, inputs, ResetTypeOK
    <3>2. CASE d # c
      <4>1. cpc[d] = cpc'[d]
        BY <1>3, <3>2 DEF Moves, ResetTypeOK
      <4>2. who[ctok[d]] \in Users
        BY <2>4, <4>1, WinnersAccount
      <4> QED
        BY <1>3, <2>2, <2>4, <4>1, <4>2 DEF Rotated, inputs
    <3> QED
      BY <3>1, <3>2
  <2> QED
    BY <2>4 DEF Rotated
<1>4. ASSUME NEW c \in Consumers, cpc[c] = "clear", UNCHANGED <<inputs, password>>,
             mustChange' = [mustChange EXCEPT ![who[ctok[c]]] = FALSE], Moves(c, "ok") \/ Moves(c, "error")
      PROVE  Rotated'
  <2>1. who[ctok[c]] \in Users
    BY <1>4, WinnersAccount
  <2>2. ASSUME NEW d \in Consumers, cpc'[d] \in {"clear", "ok"}
        PROVE  /\ password'[who'[ctok'[d]]] # Old
               /\ cpc'[d] = "ok" => mustChange'[who'[ctok'[d]]] = FALSE
    <3>1. CASE d = c
      BY <1>4, <2>1, <3>1 DEF Rotated, Moves, inputs, ResetTypeOK
    <3>2. CASE d # c
      <4>1. cpc[d] = cpc'[d]
        BY <1>4, <3>2 DEF Moves, ResetTypeOK
      <4>2. who[ctok[d]] \in Users
        BY <2>2, <4>1, WinnersAccount
      <4>3. mustChange[who[ctok[d]]] = FALSE => mustChange'[who[ctok[d]]] = FALSE
        BY <1>4, <2>1, <4>2 DEF ResetTypeOK
      <4> QED
        BY <1>4, <2>2, <4>1, <4>3 DEF Rotated, inputs
    <3> QED
      BY <3>1, <3>2
  <2> QED
    BY <2>2 DEF Rotated
<1>5. ASSUME NEW c \in Consumers, ResetPassword(c) \/ ClearMustChange(c)
      PROVE  Rotated'
  BY <1>3, <1>4, <1>5 DEF ResetPassword, ClearMustChange
<1>6. ASSUME NEW c \in Consumers, ConsumeFails(c)
      PROVE  Rotated'
  <2>1. CASE UNCHANGED <<password, mustChange>>
    BY <1>6, <2>1, RotatedAside DEF ConsumeFails, Moves, inputs, ResetTypeOK
  <2>2. CASE cpc[c] = "rotate" /\ password' = [password EXCEPT ![who[ctok[c]]] = c] /\ UNCHANGED mustChange
    BY <1>3, <1>6, <2>2 DEF ConsumeFails
  <2>3. CASE cpc[c] = "clear" /\ mustChange' = [mustChange EXCEPT ![who[ctok[c]]] = FALSE] /\ UNCHANGED password
    BY <1>4, <1>6, <2>3 DEF ConsumeFails
  <2> QED
    BY <1>6, <2>1, <2>2, <2>3 DEF ConsumeFails
<1>7. CASE Elapse \/ UNCHANGED pvars
  BY <1>7, RotatedAside DEF Elapse, pvars, inputs
<1> QED
  BY <1>1, <1>2, <1>5, <1>6, <1>7 DEF ResetNext

\* A consume answered 200 has rotated the password and cleared the flag that
\* would ask for another change, whatever ran beside it (Service.Consume).
THEOREM OkIsUsable == ResetSpec => []OkMeansUsable
<1>1. ResetInit => Rotated
  BY DEF ResetInit, Rotated
<1>2. Rotated => OkMeansUsable
  BY DEF Rotated, OkMeansUsable
<1> QED
  BY <1>1, <1>2, ResetInitInv, ResetNextInv, RotatedStep, PTL DEF ResetSpec

-----------------------------------------------------------------------------
(* Newer links supersede older ones, as long as requests do not overlap.   *)

CreatedInPast == \A t \in Requests : created[t] <= now

\* Of the requests of one account at most one is between count and insert.
OneBusy == ~overlapped => \A r, s \in Requests : (who[r] = who[s] /\ Busy(r) /\ Busy(s)) => r = s

\* When a request is about to insert, its account has no link that works.
InsertsAlone ==
    ~overlapped => \A r, t \in Requests : (rpc[r] = "insert" /\ who[t] = who[r]) => ~Live(t)

FreshInv == CreatedInPast /\ OneBusy /\ InsertsAlone /\ FreshestOnly

\* Time that passes and rows that are marked used revive no link.
LEMMA LiveShrinks ==
    ASSUME ResetTypeOK, NEW t \in Requests, created' = created, now' \in Nat, now' >= now,
           row'[t] = "unused" => row[t] = "unused"
    PROVE  Live(t)' => Live(t)
BY LimitsAssumption DEF Live, Age, ResetTypeOK

\* A step that inserts nothing and brings no request between count and insert.
LEMMA FreshAside ==
    ASSUME ResetTypeOK, FreshInv, UNCHANGED <<who, created>>, now' \in Nat, now' >= now,
           \A t \in Requests : /\ row'[t] = "unused" => row[t] = "unused"
                               /\ row'[t] # "none" => row[t] # "none"
                               /\ rpc'[t] \in {"invalidate", "insert"} => rpc'[t] = rpc[t],
           overlapped => overlapped'
    PROVE  FreshInv'
<1>1. \A t \in Requests : Live(t)' => Live(t)
  BY LiveShrinks
<1>2. CreatedInPast'
  BY DEF FreshInv, CreatedInPast, ResetTypeOK
<1>3. OneBusy'
  BY DEF FreshInv, OneBusy, Busy
<1>4. InsertsAlone'
  BY <1>1 DEF FreshInv, InsertsAlone
<1>5. FreshestOnly'
  BY <1>1 DEF FreshInv, FreshestOnly
<1> QED
  BY <1>2, <1>3, <1>4, <1>5 DEF FreshInv

\* The statement of InvalidateOutstanding, whatever becomes of the request.
LEMMA InvalidatedRows ==
    ASSUME ResetTypeOK, NEW r \in Requests, NEW t \in Requests,
           row' = [s \in Requests |-> IF s \in Outstanding(who[r]) THEN "used" ELSE row[s]]
    PROVE  /\ row'[t] = "unused" => row[t] = "unused" /\ t \notin Outstanding(who[r])
           /\ row'[t] # "none" => row[t] # "none"
BY DEF ResetTypeOK, Outstanding, Live

\* The INSERT: the new link is the youngest and the only one that works.
LEMMA InsertKeepsFresh ==
    ASSUME ResetTypeOK, FreshInv, NEW r \in Requests, rpc[r] = "insert",
           row' = [row EXCEPT ![r] = "unused"], created' = [created EXCEPT ![r] = now],
           Goes(r, "send") \/ Goes(r, "error"), UNCHANGED <<who, now, overlapped>>
    PROVE  FreshInv'
<1>1. CreatedInPast'
  BY DEF FreshInv, CreatedInPast, ResetTypeOK
<1>2. \A t \in Requests : t # r => /\ Live(t)' <=> Live(t)
                                 /\ row'[t] = row[t] /\ created'[t] = created[t] /\ rpc'[t] = rpc[t]
  BY DEF Live, Age, ResetTypeOK, Goes
<1>3. rpc'[r] \notin {"invalidate", "insert"}
  BY DEF Goes, ResetTypeOK
<1>4. OneBusy'
  BY <1>2, <1>3 DEF FreshInv, OneBusy, Busy
<1>5. ~overlapped => \A s \in Requests : (s # r /\ who[s] = who[r]) => ~Busy(s)
  BY DEF FreshInv, OneBusy, Busy
<1>6. InsertsAlone'
  <2> SUFFICES ASSUME ~overlapped, NEW s \in Requests, NEW t \in Requests,
                      rpc'[s] = "insert", who[t] = who[s]
               PROVE  ~Live(t)'
    BY DEF InsertsAlone
  <2>1. s # r /\ rpc[s] = "insert"
    BY <1>2, <1>3
  <2>2. who[s] # who[r]
    BY <1>5, <2>1 DEF Busy
  <2>3. t # r
    BY <2>2
  <2> QED
    BY <1>2, <2>1, <2>3 DEF FreshInv, InsertsAlone
<1>7. FreshestOnly'
  <2> SUFFICES ASSUME ~overlapped, NEW t \in Requests, NEW s \in Requests,
                      Live(t)', row'[s] # "none", who[s] = who[t]
               PROVE  created'[s] <= created'[t]
    BY DEF FreshestOnly
  <2>1. CASE t = r
    BY <1>1, <2>1 DEF CreatedInPast, ResetTypeOK
  <2>2. CASE t # r /\ s = r
    BY <1>2, <2>2 DEF FreshInv, InsertsAlone
  <2>3. CASE t # r /\ s # r
    BY <1>2, <2>3 DEF FreshInv, FreshestOnly
  <2> QED
    BY <2>1, <2>2, <2>3
<1> QED
  BY <1>1, <1>4, <1>6, <1>7 DEF FreshInv

\* Every step keeps the invariant.
LEMMA FreshStep ==
    ASSUME ResetInv, FreshInv, [ResetNext]_pvars
    PROVE  FreshInv'
<1>0. ResetTypeOK /\ now \in Nat /\ now >= now
  BY DEF ResetInv, ResetTypeOK
<1>1. ASSUME NEW r \in Requests, CheckIp(r) \/ LookupUser(r) \/ SendMail(r)
      PROVE  FreshInv'
  <2>1. /\ UNCHANGED <<who, created, row, now, overlapped>>
        /\ \E to \in {"dropped", "lookup", "count", "sent", "error"} : Goes(r, to)
    BY <1>1 DEF CheckIp, LookupUser, SendMail, inputs, table
  <2>2. \A t \in Requests : rpc'[t] \in {"invalidate", "insert"} => rpc'[t] = rpc[t]
    BY <1>0, <2>1 DEF Goes, ResetTypeOK
  <2> QED
    BY <1>0, <2>1, <2>2, FreshAside
<1>2. ASSUME NEW r \in Requests, CheckUser(r)
      PROVE  FreshInv'
  <2>1. CASE Goes(r, "dropped") /\ UNCHANGED overlapped
    <3>1. \A t \in Requests : rpc'[t] \in {"invalidate", "insert"} => rpc'[t] = rpc[t]
      BY <1>0, <2>1 DEF Goes, ResetTypeOK
    <3> QED
      BY <1>0, <1>2, <2>1, <3>1, FreshAside DEF CheckUser, inputs, table
  <2>2. CASE Goes(r, "invalidate") /\ overlapped' = (overlapped \/ Overlap(r))
    <3>1. UNCHANGED <<who, created, row, now>>
      BY <1>2 DEF CheckUser, inputs, table
    <3>2. \A t \in Requests : rpc'[t] = IF t = r THEN "invalidate" ELSE rpc[t]
      BY <1>0, <2>2 DEF Goes, ResetTypeOK
    <3>3. ~overlapped' => ~overlapped /\ \A s \in Requests \ {r} : who[s] = who[r] => ~Busy(s)
      BY <2>2, Zenon DEF Overlap
    <3>4. \A t \in Requests : Live(t)' <=> Live(t)
      BY <3>1 DEF Live, Age
    <3>5. OneBusy'
      BY <3>1, <3>2, <3>3 DEF FreshInv, OneBusy, Busy
    <3>6. InsertsAlone'
      BY <3>1, <3>2, <3>3, <3>4 DEF FreshInv, InsertsAlone
    <3>7. CreatedInPast' /\ FreshestOnly'
      BY <3>1, <3>3, <3>4 DEF FreshInv, CreatedInPast, FreshestOnly
    <3> QED
      BY <3>5, <3>6, <3>7 DEF FreshInv
  <2> QED
    BY <1>2, <2>1, <2>2 DEF CheckUser
<1>3. ASSUME NEW r \in Requests, InvalidateOutstanding(r)
      PROVE  FreshInv'
  <2>1. /\ UNCHANGED <<who, created, now, overlapped>> /\ rpc[r] = "invalidate"
        /\ row' = [s \in Requests |-> IF s \in Outstanding(who[r]) THEN "used" ELSE row[s]]
    BY <1>3 DEF InvalidateOutstanding, inputs
  <2>2. \A t \in Requests : rpc'[t] = IF t = r THEN "insert" ELSE rpc[t]
    BY <1>0, <1>3 DEF InvalidateOutstanding, Goes, ResetTypeOK
  <2>3. \A t \in Requests : /\ row'[t] = "unused" => row[t] = "unused" /\ t \notin Outstanding(who[r])
                            /\ row'[t] # "none" => row[t] # "none"
    BY <1>0, <2>1, InvalidatedRows
  <2>4. \A t \in Requests : Live(t)' => Live(t)
    BY <1>0, <2>1, <2>3, LiveShrinks
  <2>5. \A t \in Requests : who[t] = who[r] => ~Live(t)'
    BY <2>3, <2>4 DEF Outstanding, Live
  <2>6. OneBusy'
    BY <2>1, <2>2 DEF FreshInv, OneBusy, Busy
  <2>7. InsertsAlone'
    BY <2>1, <2>2, <2>4, <2>5 DEF FreshInv, InsertsAlone
  <2>8. CreatedInPast' /\ FreshestOnly'
    BY <2>1, <2>3, <2>4 DEF FreshInv, CreatedInPast, FreshestOnly
  <2> QED
    BY <2>6, <2>7, <2>8 DEF FreshInv
<1>4. ASSUME NEW r \in Requests, Insert(r)
      PROVE  FreshInv'
  BY <1>0, <1>4, InsertKeepsFresh DEF Insert, inputs
<1>5. ASSUME NEW r \in Requests, RequestFails(r)
      PROVE  FreshInv'
  <2>1. Goes(r, "error") /\ UNCHANGED <<who, now, overlapped>>
    BY <1>5 DEF RequestFails, inputs
  <2>2. \A t \in Requests : rpc'[t] \in {"invalidate", "insert"} => rpc'[t] = rpc[t]
    BY <1>0, <2>1 DEF Goes, ResetTypeOK
  <2>3. CASE UNCHANGED table
    BY <1>0, <2>1, <2>2, <2>3, FreshAside DEF table
  <2>4. CASE /\ row' = [t \in Requests |-> IF t \in Outstanding(who[r]) THEN "used" ELSE row[t]]
             /\ UNCHANGED created
    <3>1. \A t \in Requests : /\ row'[t] = "unused" => row[t] = "unused"
                              /\ row'[t] # "none" => row[t] # "none"
      BY <1>0, <2>4, InvalidatedRows
    <3> QED
      BY <1>0, <2>1, <2>2, <2>4, <3>1, FreshAside
  <2>5. CASE /\ rpc[r] = "insert" /\ row' = [row EXCEPT ![r] = "unused"]
             /\ created' = [created EXCEPT ![r] = now]
    BY <1>0, <2>1, <2>5, InsertKeepsFresh
  <2> QED
    BY <1>5, <2>3, <2>4, <2>5 DEF RequestFails
<1>6. ASSUME NEW c \in Consumers,
             GetByHash(c) \/ MarkUsed(c) \/ ResetPassword(c) \/ ClearMustChange(c) \/ ConsumeFails(c)
      PROVE  FreshInv'
  <2>1. UNCHANGED <<who, created, now, overlapped, rpc>>
    BY <1>6 DEF GetByHash, MarkUsed, ResetPassword, ClearMustChange, ConsumeFails, inputs, table
  <2>2. \/ row' = row
        \/ row' = [row EXCEPT ![ctok[c]] = "used"] /\ row[ctok[c]] = "unused"
    BY <1>6 DEF GetByHash, MarkUsed, ResetPassword, ClearMustChange, ConsumeFails, table
  <2>3. \A t \in Requests : /\ row'[t] = "unused" => row[t] = "unused"
                            /\ row'[t] # "none" => row[t] # "none"
    BY <1>0, <2>2 DEF ResetTypeOK
  <2> QED
    BY <1>0, <2>1, <2>3, FreshAside
<1>7. CASE Elapse \/ UNCHANGED pvars
  <2>1. /\ UNCHANGED <<who, created, row, rpc, overlapped>>
        /\ now' \in Nat /\ now' >= now
    BY <1>0, <1>7 DEF Elapse, pvars, inputs, table
  <2> QED
    BY <1>0, <2>1, FreshAside
<1> QED
  BY <1>1, <1>2, <1>3, <1>4, <1>5, <1>6, <1>7 DEF ResetNext

\* As long as the requests of an account do not overlap, the link that works is
\* the youngest one, for any number of requests and whatever statement fails
\* (Service.Request, InvalidateOutstandingPasswordResetTokens).
THEOREM FreshestLinksWork == ResetSpec => []FreshestOnly
<1>1. ResetInit => FreshInv
  BY DEF ResetInit, FreshInv, CreatedInPast, OneBusy, InsertsAlone, FreshestOnly, Busy, Live
<1>2. FreshInv => FreshestOnly
  BY DEF FreshInv
<1> QED
  BY <1>1, <1>2, ResetInitInv, ResetNextInv, FreshStep, PTL DEF ResetSpec

-----------------------------------------------------------------------------
(* The limit per account, as long as its requests do not overlap.  The     *)
(* count of CheckUser is still true when the request inserts: nobody else  *)
(* inserts for that account in between.                                    *)

\* The rows RateLimited counts.
Counted(u) == {t \in Requests : row[t] # "none" /\ who[t] = u /\ now < created[t] + Window}

\* A request past its count still has room for the row it will insert.
RoomToInsert ==
    ~overlapped => \A r \in Requests : Busy(r) => Cardinality(Counted(who[r])) < MaxPerEmail

QuotaInv == RateLimited /\ RoomToInsert

\* The rows counted are finitely many, and so is their number.
LEMMA CountedFinite ==
    ASSUME NEW u
    PROVE  IsFiniteSet(Counted(u)) /\ Cardinality(Counted(u)) \in Nat
<1>1. Counted(u) \subseteq Requests
  BY DEF Counted
<1>2. IsFiniteSet(Counted(u))
  BY <1>1, RequestsAssumption, FS_Subset
<1> QED
  BY <1>2, FS_CardinalityType

\* What CheckUser counts is what RateLimited counts.
LEMMA RecentIsCounted ==
    ASSUME ResetTypeOK, NEW u
    PROVE  RecentForUser(u) = Counted(u)
BY LimitsAssumption DEF RecentForUser, Rows, Age, Counted, ResetTypeOK

\* RateLimited in terms of Counted, now and after a step.
LEMMA RateIsCounted ==
    /\ RateLimited <=> (~overlapped => \A u \in Users : Cardinality(Counted(u)) <= MaxPerEmail)
    /\ RateLimited' <=> (~overlapped' => \A u \in Users : Cardinality(Counted(u)') <= MaxPerEmail)
BY DEF RateLimited, Counted

\* A step that inserts nothing and brings no request past its count.
LEMMA QuotaAside ==
    ASSUME ResetTypeOK, QuotaInv, UNCHANGED <<who, created>>, now' \in Nat, now' >= now,
           \A t \in Requests : /\ row'[t] # "none" => row[t] # "none"
                               /\ rpc'[t] \in {"invalidate", "insert"} => Busy(t),
           overlapped => overlapped'
    PROVE  QuotaInv'
<1>1. ASSUME NEW u
      PROVE  Cardinality(Counted(u)') <= Cardinality(Counted(u)) /\ Cardinality(Counted(u)') \in Nat
  <2>1. Counted(u)' \subseteq Counted(u)
    BY LimitsAssumption DEF Counted, ResetTypeOK
  <2>2. IsFiniteSet(Counted(u)) /\ IsFiniteSet(Counted(u)')
    BY <2>1, CountedFinite, FS_Subset
  <2> QED
    BY <2>1, <2>2, FS_Subset, FS_CardinalityType
<1>2. RateLimited'
  <2> SUFFICES ASSUME ~overlapped', NEW u \in Users
               PROVE  Cardinality(Counted(u)') <= MaxPerEmail
    BY RateIsCounted
  <2>1. Cardinality(Counted(u)) <= MaxPerEmail
    BY RateIsCounted DEF QuotaInv
  <2> QED
    BY <1>1, <2>1, CountedFinite, LimitsAssumption
<1>3. RoomToInsert'
  <2> SUFFICES ASSUME ~overlapped', NEW r \in Requests, Busy(r)'
               PROVE  Cardinality(Counted(who[r])') < MaxPerEmail
    BY DEF RoomToInsert, Counted
  <2>1. Cardinality(Counted(who[r])) < MaxPerEmail
    BY DEF QuotaInv, RoomToInsert, Busy
  <2> QED
    BY <1>1, <2>1, CountedFinite, LimitsAssumption
<1> QED
  BY <1>2, <1>3 DEF QuotaInv

\* The INSERT uses up the room that its request has had since the count.
LEMMA InsertKeepsQuota ==
    ASSUME ResetTypeOK, FreshInv, QuotaInv, NEW r \in Requests, rpc[r] = "insert",
           row' = [row EXCEPT ![r] = "unused"], created' = [created EXCEPT ![r] = now],
           Goes(r, "send") \/ Goes(r, "error"), UNCHANGED <<who, now, overlapped>>
    PROVE  QuotaInv'
<1>1. \A t \in Requests : t # r => row'[t] = row[t] /\ created'[t] = created[t] /\ rpc'[t] = rpc[t]
  BY DEF ResetTypeOK, Goes
<1>2. rpc'[r] \notin {"invalidate", "insert"}
  BY DEF Goes, ResetTypeOK
<1>3. ASSUME NEW u, u # who[r] PROVE Counted(u)' = Counted(u)
  BY <1>1, <1>3 DEF Counted
<1>4. Counted(who[r])' \subseteq Counted(who[r]) \cup {r}
  BY <1>1 DEF Counted
<1>5. Cardinality(Counted(who[r])') <= Cardinality(Counted(who[r])) + 1
  <2>1. IsFiniteSet(Counted(who[r])) /\ Cardinality(Counted(who[r])) \in Nat
    BY CountedFinite
  <2>2. /\ IsFiniteSet(Counted(who[r]) \cup {r})
        /\ Cardinality(Counted(who[r]) \cup {r}) <= Cardinality(Counted(who[r])) + 1
    <3>1. /\ IsFiniteSet(Counted(who[r]) \cup {r})
          /\ Cardinality(Counted(who[r]) \cup {r})
                = IF r \in Counted(who[r]) THEN Cardinality(Counted(who[r]))
                  ELSE Cardinality(Counted(who[r])) + 1
      BY <2>1, FS_AddElement, Zenon
    <3> QED
      BY <2>1, <3>1
  <2>3. /\ IsFiniteSet(Counted(who[r])')
        /\ Cardinality(Counted(who[r])') <= Cardinality(Counted(who[r]) \cup {r})
    BY <1>4, <2>2, FS_Subset
  <2> QED
    BY <2>1, <2>2, <2>3, FS_CardinalityType
<1>6. RateLimited'
  <2> SUFFICES ASSUME ~overlapped, NEW u \in Users
               PROVE  Cardinality(Counted(u)') <= MaxPerEmail
    BY RateIsCounted
  <2>1. CASE u # who[r]
    BY <1>3, <2>1, RateIsCounted DEF QuotaInv
  <2>2. CASE u = who[r]
    <3>1. Cardinality(Counted(who[r])) < MaxPerEmail
      BY DEF QuotaInv, RoomToInsert, Busy
    <3>2. Cardinality(Counted(who[r])) \in Nat /\ Cardinality(Counted(who[r])') \in Nat
      <4>1. IsFiniteSet(Counted(who[r])')
        BY <1>4, CountedFinite, FS_AddElement, FS_Subset
      <4> QED
        BY <4>1, CountedFinite, FS_CardinalityType
    <3> QED
      BY <1>5, <2>2, <3>1, <3>2, LimitsAssumption
  <2> QED
    BY <2>1, <2>2
<1>7. RoomToInsert'
  <2> SUFFICES ASSUME ~overlapped, NEW s \in Requests, Busy(s)'
               PROVE  Cardinality(Counted(who[s])') < MaxPerEmail
    BY DEF RoomToInsert, Counted
  <2>1. s # r /\ Busy(s)
    BY <1>1, <1>2 DEF Busy
  <2>2. who[s] # who[r]
    BY <2>1 DEF FreshInv, OneBusy, Busy
  <2> QED
    BY <1>3, <2>1, <2>2 DEF QuotaInv, RoomToInsert
<1> QED
  BY <1>6, <1>7 DEF QuotaInv

\* Every step keeps the limit and the room.
LEMMA QuotaStep ==
    ASSUME ResetInv, FreshInv, QuotaInv, [ResetNext]_pvars
    PROVE  QuotaInv'
<1>0. ResetTypeOK /\ now \in Nat /\ now >= now
  BY DEF ResetInv, ResetTypeOK
<1>1. ASSUME NEW r \in Requests, CheckIp(r) \/ LookupUser(r) \/ SendMail(r)
      PROVE  QuotaInv'
  <2>1. /\ UNCHANGED <<who, created, row, now, overlapped>>
        /\ \E to \in {"dropped", "lookup", "count", "sent", "error"} : Goes(r, to)
    BY <1>1 DEF CheckIp, LookupUser, SendMail, inputs, table
  <2>2. \A t \in Requests : rpc'[t] \in {"invalidate", "insert"} => Busy(t)
    BY <1>0, <2>1 DEF Goes, ResetTypeOK, Busy
  <2> QED
    BY <1>0, <2>1, <2>2, QuotaAside
<1>2. ASSUME NEW r \in Requests, CheckUser(r)
      PROVE  QuotaInv'
  <2>0. UNCHANGED <<who, created, row, now>>
    BY <1>2 DEF CheckUser, inputs, table
  <2>1. CASE Goes(r, "dropped") /\ UNCHANGED overlapped
    <3>1. \A t \in Requests : rpc'[t] \in {"invalidate", "insert"} => Busy(t)
      BY <1>0, <2>1 DEF Goes, ResetTypeOK, Busy
    <3> QED
      BY <1>0, <2>0, <2>1, <3>1, QuotaAside
  <2>2. CASE /\ ~(Cardinality(RecentForUser(who[r])) >= MaxPerEmail)
             /\ Goes(r, "invalidate") /\ overlapped' = (overlapped \/ Overlap(r))
    <3>1. ~overlapped' => ~overlapped
      BY <2>2, Zenon
    <3>2. \A t \in Requests : Busy(t)' => Busy(t) \/ t = r
      BY <1>0, <2>2 DEF Goes, ResetTypeOK, Busy
    <3>3. ASSUME NEW u PROVE Counted(u)' = Counted(u)
      BY <2>0 DEF Counted
    <3>4. Cardinality(Counted(who[r])) < MaxPerEmail
      BY <1>0, <2>2, RecentIsCounted, CountedFinite, LimitsAssumption
    <3>5. RateLimited'
      BY <3>1, <3>3, RateIsCounted DEF QuotaInv
    <3>6. RoomToInsert'
      BY <2>0, <3>1, <3>2, <3>3, <3>4 DEF QuotaInv, RoomToInsert
    <3> QED
      BY <3>5, <3>6 DEF QuotaInv
  <2> QED
    BY <1>2, <2>1, <2>2 DEF CheckUser
<1>3. ASSUME NEW r \in Requests, InvalidateOutstanding(r)
      PROVE  QuotaInv'
  <2>1. /\ UNCHANGED <<who, created, now, overlapped>> /\ rpc[r] = "invalidate"
        /\ row' = [s \in Requests |-> IF s \in Outstanding(who[r]) THEN "used" ELSE row[s]]
    BY <1>3 DEF InvalidateOutstanding, inputs
  <2>2. \A t \in Requests : rpc'[t] \in {"invalidate", "insert"} => Busy(t)
    BY <1>0, <1>3 DEF InvalidateOutstanding, Goes, ResetTypeOK, Busy
  <2>3. \A t \in Requests : row'[t] # "none" => row[t] # "none"
    BY <1>0, <2>1, InvalidatedRows
  <2> QED
    BY <1>0, <2>1, <2>2, <2>3, QuotaAside
<1>4. ASSUME NEW r \in Requests, Insert(r)
      PROVE  QuotaInv'
  BY <1>0, <1>4, InsertKeepsQuota DEF Insert, inputs
<1>5. ASSUME NEW r \in Requests, RequestFails(r)
      PROVE  QuotaInv'
  <2>1. Goes(r, "error") /\ UNCHANGED <<who, now, overlapped>>
    BY <1>5 DEF RequestFails, inputs
  <2>2. \A t \in Requests : rpc'[t] \in {"invalidate", "insert"} => Busy(t)
    BY <1>0, <2>1 DEF Goes, ResetTypeOK, Busy
  <2>3. CASE UNCHANGED table
    BY <1>0, <2>1, <2>2, <2>3, QuotaAside DEF table
  <2>4. CASE /\ row' = [t \in Requests |-> IF t \in Outstanding(who[r]) THEN "used" ELSE row[t]]
             /\ UNCHANGED created
    <3>1. \A t \in Requests : row'[t] # "none" => row[t] # "none"
      BY <1>0, <2>4, InvalidatedRows
    <3> QED
      BY <1>0, <2>1, <2>2, <2>4, <3>1, QuotaAside
  <2>5. CASE /\ rpc[r] = "insert" /\ row' = [row EXCEPT ![r] = "unused"]
             /\ created' = [created EXCEPT ![r] = now]
    BY <1>0, <2>1, <2>5, InsertKeepsQuota
  <2> QED
    BY <1>5, <2>3, <2>4, <2>5 DEF RequestFails
<1>6. ASSUME NEW c \in Consumers,
             GetByHash(c) \/ MarkUsed(c) \/ ResetPassword(c) \/ ClearMustChange(c) \/ ConsumeFails(c)
      PROVE  QuotaInv'
  <2>1. UNCHANGED <<who, created, now, overlapped, rpc>>
    BY <1>6 DEF GetByHash, MarkUsed, ResetPassword, ClearMustChange, ConsumeFails, inputs, table
  <2>2. \/ row' = row
        \/ row' = [row EXCEPT ![ctok[c]] = "used"] /\ row[ctok[c]] = "unused"
    BY <1>6 DEF GetByHash, MarkUsed, ResetPassword, ClearMustChange, ConsumeFails, table
  <2>3. \A t \in Requests : row'[t] # "none" => row[t] # "none"
    BY <1>0, <2>2 DEF ResetTypeOK
  <2> QED
    BY <1>0, <2>1, <2>3, QuotaAside DEF Busy
<1>7. CASE Elapse \/ UNCHANGED pvars
  <2>1. /\ UNCHANGED <<who, created, row, rpc, overlapped>>
        /\ now' \in Nat /\ now' >= now
    BY <1>0, <1>7 DEF Elapse, pvars, inputs, table
  <2> QED
    BY <1>0, <2>1, QuotaAside DEF Busy
<1> QED
  BY <1>1, <1>2, <1>3, <1>4, <1>5, <1>6, <1>7 DEF ResetNext

\* As long as the requests of an account do not overlap, no window holds more
\* tokens of it than maxRequestsPerEmail, used or not, and whatever statement
\* fails (Service.Request, CountRecentPasswordResetTokensForUser).
THEOREM AccountsAreRateLimited == ResetSpec => []RateLimited
<1>1. ResetInit => FreshInv
  BY DEF ResetInit, FreshInv, CreatedInPast, OneBusy, InsertsAlone, FreshestOnly, Busy, Live
<1>2. ResetInit => QuotaInv
  <2> SUFFICES ASSUME ResetInit PROVE QuotaInv
    OBVIOUS
  <2>1. ASSUME NEW u PROVE Counted(u) = {}
    BY DEF Counted, ResetInit
  <2>2. ASSUME NEW u PROVE Cardinality(Counted(u)) = 0
    BY <2>1, FS_EmptySet
  <2> QED
    BY <2>2, RateIsCounted, LimitsAssumption DEF QuotaInv, RoomToInsert, Busy, ResetInit
<1>3. QuotaInv => RateLimited
  BY DEF QuotaInv
<1> QED
  BY <1>1, <1>2, <1>3, ResetInitInv, ResetNextInv, FreshStep, QuotaStep, PTL DEF ResetSpec

=============================================================================
