---------------------------- MODULE AccountLogin ----------------------------
(***************************************************************************)
(* Logging in and out: the account's lock against guessed passwords        *)
(* (AuthService.login, domain/account.py), the control plane's check of a  *)
(* token (deps.py), and the browser tabs of the web front end, which share *)
(* one pair of tokens in localStorage and touch it before and after every  *)
(* awaited request.                                                        *)
(*                                                                         *)
(* The control plane is one process and its routes never wait inside a use *)
(* case, so a request is handled in one step; each repository call is a    *)
(* transaction of its own, so a process that dies leaves a part of it.     *)
(* There is one account, and a request for another name changes nothing.   *)
(* Audit rows of refusals are left out, as nothing reads them.  The web    *)
(* front end never calls authApi.refresh; see AuthSession for the client   *)
(* that does.                                                              *)
(***************************************************************************)
EXTENDS Naturals, Sequences

CONSTANTS
    Tabs,         \* tabs of one browser
    MaxFailed,    \* MAX_FAILED_ATTEMPTS
    LockTime,     \* LOCK_DURATION
    AccessTime,   \* ACCESS_TOKEN_TTL
    LastTime,     \* bound: the clock
    MaxLogins,    \* bound: sessions ever opened
    MaxWrong      \* bound: wrong passwords since the last good one

ASSUME LoginAssumption ==
    /\ MaxFailed \in Nat \ {0}
    /\ LockTime \in Nat \ {0}
    /\ AccessTime \in Nat \ {0}
    /\ LastTime \in Nat
    /\ MaxLogins \in Nat
    /\ MaxWrong \in Nat

Logins == 1..MaxLogins
NoLogin == 0

VARIABLES
    now,       \* the clock of the control plane
    account,   \* the account row
    tenant,    \* the tenant's status
    table,     \* the session rows of the web client, by order of login
    audit,     \* the sessions whose AUTH_LOGIN row says SUCCESS
    stored,    \* localStorage: the session whose tokens it holds, or none
    tab,       \* where each tab is
    wrong,     \* history: times of the wrong passwords judged since the last
               \* good one
    loose      \* history: sessions given up without being revoked, because an
               \* answer was lost, their token had run out, or two tabs crossed

loginVars == <<now, account, tenant, table, audit, stored, tab, wrong, loose>>

Account == [status : {"ACTIVE", "LOCKED", "DISABLED"},
            failed : Nat,
            until  : Nat]     \* locked_until; 0 for none

SessionRow == [status : {"ABSENT", "ACTIVE", "REVOKED"}, at : 0..LastTime]

\* login: the form; welcome: its answer is in; dashboard; loading: /account/me
\* is awaited; leaving: /auth/logout is awaited; left: it is over.
Pages == {"login", "welcome", "dashboard", "loading", "leaving", "left"}

Tab == [page : Pages,
        sent : Logins \union {NoLogin}]   \* the session of the request's token

LoginTypeOK ==
    /\ now \in 0..LastTime
    /\ account \in Account
    /\ tenant \in {"ACTIVE", "SUSPENDED"}
    /\ table \in [Logins -> SessionRow]
    /\ audit \in SUBSET Logins
    /\ stored \in Logins \union {NoLogin}
    /\ tab \in [Tabs -> Tab]
    /\ wrong \in Seq(Nat)
    /\ loose \in SUBSET Logins

LoginInit ==
    /\ now = 0
    /\ account = [status |-> "ACTIVE", failed |-> 0, until |-> 0]
    /\ tenant = "ACTIVE"
    /\ table = [s \in Logins |-> [status |-> "ABSENT", at |-> 0]]
    /\ audit = {}
    /\ stored = NoLogin
    /\ tab = [t \in Tabs |-> [page |-> "login", sent |-> NoLogin]]
    /\ wrong = <<>>
    /\ loose = {}

-----------------------------------------------------------------------------
(***************************************************************************)
(* The account                                                             *)
(***************************************************************************)

\* is_locked: a lock that has run out counts as lifted, with no write.
IsLocked == account.status = "LOCKED" /\ now < account.until

CanLogin == account.status # "DISABLED" /\ ~IsLocked

\* Mutation: the count is compared for equality; it goes on past the limit.
FailureAtLimit(a) ==
    LET failed == a.failed + 1
    IN IF failed = MaxFailed
       THEN [status |-> "LOCKED", failed |-> failed, until |-> now + LockTime]
       ELSE [a EXCEPT !.failed = failed]

RegisterFailure(a) ==
    LET failed == a.failed + 1
    IN IF failed >= MaxFailed
       THEN [status |-> "LOCKED", failed |-> failed, until |-> now + LockTime]
       ELSE [a EXCEPT !.failed = failed]

RegisterSuccess(a) == [status |-> "ACTIVE", failed |-> 0, until |-> 0]

\* A wrong password, from any client, of an account that may log in.
WrongPassword ==
    /\ CanLogin /\ Len(wrong) < MaxWrong
    /\ account' = RegisterFailure(account)
    /\ wrong' = Append(wrong, now)
    /\ UNCHANGED <<now, tenant, table, audit, stored, tab, loose>>

\* The right password.  The tenant is asked after it, and before the success
\* is noted, so the login of a suspended tenant leaves the count as it is.
MayOpen(s) ==
    /\ CanLogin /\ tenant = "ACTIVE"
    /\ table[s].status = "ABSENT"
    /\ \A r \in Logins : r < s => table[r].status # "ABSENT"

Opened(s) ==
    /\ account' = RegisterSuccess(account)
    /\ wrong' = <<>>
    /\ table' = [table EXCEPT ![s] = [status |-> "ACTIVE", at |-> now]]

Record(s) == audit' = audit \union {s}

\* The answer reaches the tab, or is lost with the network or the process,
\* the latter perhaps before the audit row is written.
SignIn(t, answered, recorded) ==
    /\ tab[t].page = "login"
    /\ answered => recorded
    /\ \E s \in Logins :
         /\ MayOpen(s) /\ Opened(s)
         /\ IF recorded THEN Record(s) ELSE UNCHANGED audit
         /\ IF answered
            THEN /\ tab' = [tab EXCEPT ![t] = [page |-> "welcome", sent |-> s]]
                 /\ UNCHANGED loose
            ELSE /\ loose' = loose \union {s}
                 /\ UNCHANGED tab
    /\ UNCHANGED <<now, tenant, stored>>

\* The process ends between save_account and add_session.
LoginCutShort ==
    /\ CanLogin /\ tenant = "ACTIVE"
    /\ account' = RegisterSuccess(account)
    /\ wrong' = <<>>
    /\ UNCHANGED <<now, tenant, table, audit, stored, tab, loose>>

\* An operator's statement on the database; no route does it.
Disable ==
    /\ account.status # "DISABLED"
    /\ account' = [account EXCEPT !.status = "DISABLED"]
    /\ UNCHANGED <<now, tenant, table, audit, stored, tab, wrong, loose>>

Suspend ==
    /\ tenant' = IF tenant = "ACTIVE" THEN "SUSPENDED" ELSE "ACTIVE"
    /\ UNCHANGED <<now, account, table, audit, stored, tab, wrong, loose>>

\* Another client of the account presents a refresh token twice.
RevokeAll ==
    /\ \E s \in Logins : table[s].status = "ACTIVE"
    /\ table' = [s \in Logins |->
         IF table[s].status = "ACTIVE" THEN [table[s] EXCEPT !.status = "REVOKED"]
                                       ELSE table[s]]
    /\ UNCHANGED <<now, account, tenant, audit, stored, tab, wrong, loose>>

-----------------------------------------------------------------------------
(***************************************************************************)
(* The browser                                                             *)
(***************************************************************************)

\* require_valid_token asks for the token only, require_principal for the
\* session as well.
TokenRuns(s) == s # NoLogin /\ now < table[s].at + AccessTime
MayRead(s)   == TokenRuns(s) /\ table[s].status # "REVOKED"

Go(t, page, s) == tab' = [tab EXCEPT ![t] = [page |-> page, sent |-> s]]

\* What localStorage held is given up with it, unless it is `kept`.
Forget(kept) ==
    loose' = IF stored \in Logins \ {kept} THEN loose \union {stored} ELSE loose

\* setTokens, over whatever another tab has put there.
Welcome(t) ==
    /\ tab[t].page = "welcome"
    /\ stored' = tab[t].sent
    /\ Forget(tab[t].sent)
    /\ Go(t, "dashboard", NoLogin)
    /\ UNCHANGED <<now, account, tenant, table, audit, wrong>>

\* The address is opened by hand; the page asks for no token.
Visit(t) ==
    /\ \/ tab[t].page = "login" /\ Go(t, "dashboard", NoLogin)
       \/ tab[t].page = "dashboard" /\ Go(t, "login", NoLogin)
    /\ UNCHANGED <<now, account, tenant, table, audit, stored, wrong, loose>>

\* load: authApi.me with the token of this moment.
Load(t) ==
    /\ tab[t].page = "dashboard"
    /\ Go(t, "loading", stored)
    /\ UNCHANGED <<now, account, tenant, table, audit, stored, wrong, loose>>

Loaded(t) ==
    /\ tab[t].page = "loading"
    /\ Go(t, "dashboard", NoLogin)
    /\ UNCHANGED <<now, account, tenant, table, audit, stored, wrong, loose>>

\* A 401 clears the tokens, whichever they are by now.
LoadRefused(t) ==
    /\ tab[t].page = "loading" /\ ~MayRead(tab[t].sent)
    /\ stored' = NoLogin
    /\ Forget(NoLogin)
    /\ Go(t, "login", NoLogin)
    /\ UNCHANGED <<now, account, tenant, table, audit, wrong>>

\* Mutation: the tokens are cleared before the request that needs them.
LogoutClearsFirst(t) ==
    /\ tab[t].page = "dashboard"
    /\ stored' = NoLogin
    /\ Go(t, "leaving", NoLogin)
    /\ UNCHANGED <<now, account, tenant, table, audit, wrong, loose>>

\* onLogout: authApi.logout with the token of this moment.
Logout(t) ==
    /\ tab[t].page = "dashboard"
    /\ Go(t, "leaving", stored)
    /\ UNCHANGED <<now, account, tenant, table, audit, stored, wrong, loose>>

\* The control plane handles it; one logged out before is told success too.
LogoutHandled(t) ==
    LET s == tab[t].sent
    IN /\ tab[t].page = "leaving" /\ TokenRuns(s)
       /\ table' = [table EXCEPT ![s].status = "REVOKED"]
       /\ Go(t, "left", s)
       /\ UNCHANGED <<now, account, tenant, audit, stored, wrong, loose>>

\* 401, as the token has run out or there was none, or no answer at all.
LogoutRefused(t) ==
    LET s == tab[t].sent
    IN /\ tab[t].page = "leaving"
       /\ loose' = IF s = NoLogin THEN loose ELSE loose \union {s}
       /\ Go(t, "left", s)
       /\ UNCHANGED <<now, account, tenant, table, audit, stored, wrong>>

\* The finally block: the tokens go, and the user reads that he is logged out.
Leave(t) ==
    /\ tab[t].page = "left"
    /\ stored' = NoLogin
    /\ Forget(tab[t].sent)
    /\ Go(t, "login", NoLogin)
    /\ UNCHANGED <<now, account, tenant, table, audit, wrong>>

-----------------------------------------------------------------------------
(***************************************************************************)
(* Specification                                                           *)
(***************************************************************************)

Tick ==
    /\ now < LastTime
    /\ now' = now + 1
    /\ UNCHANGED <<account, tenant, table, audit, stored, tab, wrong, loose>>

TabStep(t) ==
    \/ \E answered, recorded \in BOOLEAN : SignIn(t, answered, recorded)
    \/ Welcome(t) \/ Visit(t) \/ Load(t) \/ Loaded(t) \/ LoadRefused(t)
    \/ Logout(t) \/ LogoutHandled(t) \/ LogoutRefused(t) \/ Leave(t)

LoginNext ==
    \/ Tick \/ WrongPassword \/ LoginCutShort
    \/ Disable \/ Suspend \/ RevokeAll
    \/ \E t \in Tabs : TabStep(t)

LoginSpec == LoginInit /\ [][LoginNext]_loginVars

-----------------------------------------------------------------------------
(***************************************************************************)
(* Properties                                                              *)
(***************************************************************************)

\* account.py: the lock slows guessing down for good.  Between two good
\* passwords, once MaxFailed wrong ones were judged, each further one comes a
\* lock's length after the one before, also when the lock had run out.
LockBoundsGuesses ==
    \A i \in 1..Len(wrong) :
        i > MaxFailed => wrong[i] >= wrong[i - 1] + LockTime

Held(s) == stored = s \/ \E t \in Tabs : tab[t].page # "login" /\ tab[t].sent = s

\* A session that nobody can use or end any more, though it is not revoked,
\* is one whose login or logout went unanswered, whose token had run out, or
\* whose tokens another tab's login, logout or 401 removed from under it: a
\* user who logs out in peace has logged out at the control plane too.
AbandonedIsExplained ==
    \A s \in Logins : table[s].status = "ACTIVE" /\ ~Held(s) => s \in loose

=============================================================================
