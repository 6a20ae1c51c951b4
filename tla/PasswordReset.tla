--------------------------- MODULE PasswordReset ---------------------------
(***************************************************************************)
(* Password recovery of the backend: Service.Request and Service.Consume   *)
(* (backend/internal/app/passwordreset/service.go) over the table          *)
(* password_reset_tokens.  Handlers run concurrently and their statements  *)
(* are single SQL statements, not one transaction, so each is a step.      *)
(*                                                                         *)
(* A request issues at most one token, so the request names the token;     *)
(* random bytes, hashing and the content of the mail are left out.         *)
(***************************************************************************)
EXTENDS Integers, FiniteSets

CONSTANTS
    Requests,      \* calls of Request over a behaviour
    Consumers,     \* calls of Consume over a behaviour
    Users,         \* accounts
    Unknown,       \* an email no account has
    Ips,           \* client addresses
    NoIp,          \* ClientIP = "", which disables the cap per address
    MaxPerEmail,   \* maxRequestsPerEmail
    MaxPerIp,      \* maxRequestsPerIP
    Ttl,           \* tokenTTL
    Window,        \* rateLimitWindow
    MaxTime        \* bound: time passes up to here

ASSUME NamesAssumption == Unknown \notin Users /\ NoIp \notin Ips
ASSUME RequestsAssumption == IsFiniteSet(Requests)
ASSUME LimitsAssumption ==
    /\ MaxPerEmail \in Nat \ {0} /\ MaxPerIp \in Nat \ {0}
    /\ Ttl \in Nat \ {0} /\ Window \in Nat \ {0} /\ MaxTime \in Nat

VARIABLES
    who,         \* the email of each request, as the account it names
    from,        \* the ClientIP of each request
    row,         \* the row of each token: "none", "unused" or "used"
    created,     \* its created_at
    mailed,      \* tokens whose mail was accepted by the provider
    rpc,         \* where each request is, or how it ended
    cpc,         \* where each consume is, or how it ended
    ctok,        \* the token of each consume
    password,    \* the consume that last set the password of each account
    mustChange,  \* users.must_change_password
    now,         \* time
    won,         \* ghost: consumes whose MarkUsed affected a row
    overlapped   \* ghost: two requests of one account have overlapped

pvars == <<who, from, row, created, mailed, rpc, cpc, ctok, password, mustChange,
           now, won, overlapped>>
table == <<row, created>>
inputs == <<who, from, ctok>>

RequestPc == {"ip", "lookup", "count", "invalidate", "insert", "send",
              "sent", "dropped", "error"}
ConsumePc == {"get", "mark", "rotate", "clear", "ok", "invalid", "error"}

Old == "old"       \* the password before any consume
NoLink == "none"   \* a consume that has not begun

ASSUME ConsumersAssumption == Old \notin Consumers

-----------------------------------------------------------------------------
(* The statements of password_reset_tokens.sql.                            *)

Age(t) == now - created[t]
Rows(S) == {t \in S : row[t] # "none"}

\* used_at IS NULL AND expires_at > NOW()
Live(t) == row[t] = "unused" /\ Age(t) < Ttl

\* Mutant of RecentForUser: tokens already used do not count.
RecentUnusedForUser(u) == {t \in Requests : row[t] = "unused" /\ who[t] = u /\ Age(t) < Window}

RecentForUser(u) == {t \in Rows(Requests) : who[t] = u /\ Age(t) < Window}
RecentForIp(i)   == {t \in Rows(Requests) : from[t] = i /\ Age(t) < Window}

\* Mutant of Outstanding: nothing is invalidated.
OutstandingNone(u) == {}

Outstanding(u) == {t \in Requests : who[t] = u /\ Live(t)}

-----------------------------------------------------------------------------
(* Service.Request.                                                        *)

\* Two requests of one account are between their count and their insert.
Busy(r) == rpc[r] \in {"invalidate", "insert"}
Overlap(r) == \E s \in Requests \ {r} : who[s] = who[r] /\ Busy(s)

Goes(r, to) == rpc' = [rpc EXCEPT ![r] = to]

CheckIp(r) ==
    /\ rpc[r] = "ip"
    /\ Goes(r, IF from[r] # NoIp /\ Cardinality(RecentForIp(from[r])) >= MaxPerIp
               THEN "dropped" ELSE "lookup")
    /\ UNCHANGED <<inputs, table, mailed, cpc, password, mustChange, now, won, overlapped>>

LookupUser(r) ==
    /\ rpc[r] = "lookup"
    /\ Goes(r, IF who[r] = Unknown THEN "dropped" ELSE "count")
    /\ UNCHANGED <<inputs, table, mailed, cpc, password, mustChange, now, won, overlapped>>

CheckUser(r) ==
    /\ rpc[r] = "count"
    /\ IF Cardinality(RecentForUser(who[r])) >= MaxPerEmail
         THEN Goes(r, "dropped") /\ UNCHANGED overlapped
         ELSE Goes(r, "invalidate") /\ overlapped' = (overlapped \/ Overlap(r))
    /\ UNCHANGED <<inputs, table, mailed, cpc, password, mustChange, now, won>>

InvalidateOutstanding(r) ==
    /\ rpc[r] = "invalidate"
    /\ row' = [t \in Requests |-> IF t \in Outstanding(who[r]) THEN "used" ELSE row[t]]
    /\ Goes(r, "insert")
    /\ UNCHANGED <<inputs, created, mailed, cpc, password, mustChange, now, won, overlapped>>

Insert(r) ==
    /\ rpc[r] = "insert"
    /\ row' = [row EXCEPT ![r] = "unused"]
    /\ created' = [created EXCEPT ![r] = now]
    /\ Goes(r, "send")
    /\ UNCHANGED <<inputs, mailed, cpc, password, mustChange, now, won, overlapped>>

\* A provider that fails after it sent the mail leaves a link that works.
SendMail(r) ==
    /\ rpc[r] = "send"
    /\ \/ Goes(r, "sent") /\ mailed' = mailed \cup {r}
       \/ Goes(r, "error") /\ mailed' \in {mailed, mailed \cup {r}}
    /\ UNCHANGED <<inputs, table, cpc, password, mustChange, now, won, overlapped>>

\* A statement before the mail fails, without effect or after it took effect.
RequestFails(r) ==
    /\ rpc[r] \in {"ip", "lookup", "count", "invalidate", "insert"}
    /\ Goes(r, "error")
    /\ \/ UNCHANGED table
       \/ /\ rpc[r] = "invalidate"
          /\ row' = [t \in Requests |-> IF t \in Outstanding(who[r]) THEN "used" ELSE row[t]]
          /\ UNCHANGED created
       \/ /\ rpc[r] = "insert"
          /\ row' = [row EXCEPT ![r] = "unused"]
          /\ created' = [created EXCEPT ![r] = now]
    /\ UNCHANGED <<inputs, mailed, cpc, password, mustChange, now, won, overlapped>>

-----------------------------------------------------------------------------
(* Service.Consume: lookup, mark used, rotate, clear the flag.             *)

Moves(c, to) == cpc' = [cpc EXCEPT ![c] = to]

\* Somebody follows the link of a mail: for the first time or again.
GetByHash(c) ==
    /\ cpc[c] = "get"
    /\ \E t \in mailed :
          /\ ctok' = [ctok EXCEPT ![c] = t]
          /\ Moves(c, IF Live(t) THEN "mark" ELSE "invalid")
    /\ UNCHANGED <<who, from, table, mailed, rpc, password, mustChange, now, won, overlapped>>

\* Mutant of MarkUsed: the UPDATE without its guard used_at IS NULL.
MarkUsedUnguarded(c) ==
    /\ cpc[c] = "mark"
    /\ row' = [row EXCEPT ![ctok[c]] = "used"]
    /\ won' = won \cup {c} /\ Moves(c, "rotate")
    /\ UNCHANGED <<inputs, created, mailed, rpc, password, mustChange, now, overlapped>>

\* Mutant of MarkUsed: the number of affected rows is not looked at.
MarkUsedIgnoresRows(c) ==
    /\ cpc[c] = "mark"
    /\ row' = [row EXCEPT ![ctok[c]] = "used"]
    /\ won' = IF row[ctok[c]] = "unused" THEN won \cup {c} ELSE won
    /\ Moves(c, "rotate")
    /\ UNCHANGED <<inputs, created, mailed, rpc, password, mustChange, now, overlapped>>

\* UPDATE ... WHERE used_at IS NULL; no row affected means the race is lost.
MarkUsed(c) ==
    /\ cpc[c] = "mark"
    /\ \/ /\ row[ctok[c]] = "unused"
          /\ row' = [row EXCEPT ![ctok[c]] = "used"]
          /\ won' = won \cup {c} /\ Moves(c, "rotate")
       \/ /\ row[ctok[c]] # "unused"
          /\ Moves(c, "invalid") /\ UNCHANGED <<row, won>>
    /\ UNCHANGED <<inputs, created, mailed, rpc, password, mustChange, now, overlapped>>

ResetPassword(c) ==
    /\ cpc[c] = "rotate"
    /\ password' = [password EXCEPT ![who[ctok[c]]] = c]
    /\ Moves(c, "clear")
    /\ UNCHANGED <<inputs, table, mailed, rpc, mustChange, now, won, overlapped>>

\* Mutant of ClearMustChange: the flag is not written.
ClearNothing(c) ==
    /\ cpc[c] = "clear"
    /\ Moves(c, "ok")
    /\ UNCHANGED <<inputs, table, mailed, rpc, password, mustChange, now, won, overlapped>>

ClearMustChange(c) ==
    /\ cpc[c] = "clear"
    /\ mustChange' = [mustChange EXCEPT ![who[ctok[c]]] = FALSE]
    /\ Moves(c, "ok")
    /\ UNCHANGED <<inputs, table, mailed, rpc, password, now, won, overlapped>>

\* A statement fails, without effect or after it took effect.
ConsumeFails(c) ==
    /\ cpc[c] \in {"get", "mark", "rotate", "clear"}
    /\ Moves(c, "error")
    /\ \/ UNCHANGED <<row, won, password, mustChange>>
       \/ /\ cpc[c] = "mark" /\ row[ctok[c]] = "unused"
          /\ row' = [row EXCEPT ![ctok[c]] = "used"] /\ won' = won \cup {c}
          /\ UNCHANGED <<password, mustChange>>
       \/ /\ cpc[c] = "rotate"
          /\ password' = [password EXCEPT ![who[ctok[c]]] = c]
          /\ UNCHANGED <<row, won, mustChange>>
       \/ /\ cpc[c] = "clear"
          /\ mustChange' = [mustChange EXCEPT ![who[ctok[c]]] = FALSE]
          /\ UNCHANGED <<row, won, password>>
    /\ UNCHANGED <<inputs, created, mailed, rpc, now, overlapped>>

-----------------------------------------------------------------------------
Elapse ==
    /\ now < MaxTime /\ now' = now + 1
    /\ UNCHANGED <<inputs, table, mailed, rpc, cpc, password, mustChange, won, overlapped>>

ResetInit ==
    /\ who \in [Requests -> Users \cup {Unknown}] /\ from \in [Requests -> Ips \cup {NoIp}]
    /\ ctok = [c \in Consumers |-> NoLink]
    /\ row = [t \in Requests |-> "none"] /\ created = [t \in Requests |-> 0]
    /\ mailed = {} /\ won = {} /\ overlapped = FALSE /\ now = 0
    /\ rpc = [r \in Requests |-> "ip"] /\ cpc = [c \in Consumers |-> "get"]
    /\ password = [u \in Users |-> Old] /\ mustChange = [u \in Users |-> TRUE]

ResetNext ==
    \/ \E r \in Requests :
          \/ CheckIp(r) \/ LookupUser(r) \/ CheckUser(r)
          \/ InvalidateOutstanding(r) \/ Insert(r) \/ SendMail(r) \/ RequestFails(r)
    \/ \E c \in Consumers :
          \/ GetByHash(c) \/ MarkUsed(c) \/ ResetPassword(c) \/ ClearMustChange(c)
          \/ ConsumeFails(c)
    \/ Elapse

ResetSpec == ResetInit /\ [][ResetNext]_pvars

-----------------------------------------------------------------------------
(* Properties.                                                             *)

\* Every variable stays in its type, and only an account has tokens.
ResetTypeOK ==
    /\ who \in [Requests -> Users \cup {Unknown}] /\ from \in [Requests -> Ips \cup {NoIp}]
    /\ ctok \in [Consumers -> Requests \cup {NoLink}]
    /\ row \in [Requests -> {"none", "unused", "used"}] /\ created \in [Requests -> Nat]
    /\ mailed \subseteq Requests /\ won \subseteq Consumers
    /\ rpc \in [Requests -> RequestPc] /\ cpc \in [Consumers -> ConsumePc]
    /\ password \in [Users -> Consumers \cup {Old}] /\ mustChange \in [Users -> BOOLEAN]
    /\ now \in Nat /\ overlapped \in BOOLEAN
    /\ \A r \in Requests : row[r] # "none" => who[r] \in Users

\* "genuinely single-use even under a race": of all consumes of one link, at
\* whatever point they race each other or a newer request, at most one gets past
\* MarkUsed and so at most one sets the password.
SingleUse == \A c, d \in won : ctok[c] = ctok[d] => c = d

\* A password is only ever set through a link that reached the mailbox of its
\* own account, and a consume that was answered 400 has changed nothing.
OnlyWinnersRotate ==
    \A u \in Users : password[u] # Old =>
        /\ password[u] \in won
        /\ ctok[password[u]] \in mailed
        /\ who[ctok[password[u]]] = u
        /\ cpc[password[u]] # "invalid"

\* A consume answered 200 leaves the account usable: the password was set and
\* the flag that would force another change is cleared.
OkMeansUsable ==
    \A c \in Consumers : cpc[c] = "ok" =>
        LET u == who[ctok[c]] IN password[u] # Old /\ ~mustChange[u]

\* As long as the requests of an account do not overlap, it never has more
\* tokens in a window than the limit, used or not.
RateLimited ==
    ~overlapped => \A u \in Users :
        Cardinality({t \in Requests : /\ row[t] # "none" /\ who[t] = u
                                      /\ now < created[t] + Window}) <= MaxPerEmail

\* As long as the requests of an account do not overlap, a token that works is
\* the youngest one of its account: a superseded link is dead before the next
\* mail is on its way.
FreshestOnly ==
    ~overlapped => \A t, s \in Requests :
        Live(t) /\ row[s] # "none" /\ who[s] = who[t] => created[s] <= created[t]

=============================================================================
