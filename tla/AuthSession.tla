---------------------------- MODULE AuthSession ----------------------------
(***************************************************************************)
(* The login session of the workbench: the control plane's session table   *)
(* (AuthService.refresh, login), the one HttpApiClient that the UI thread  *)
(* and the worker threads share without a lock, and the token file it      *)
(* reads before every request and rewrites after every refresh.            *)
(*                                                                         *)
(* A token pair is a number, given in the order of issue; its access token *)
(* and its refresh token share it.  The control plane's routes are         *)
(* coroutines that never wait inside a use case, and it runs as one        *)
(* process, so each request is handled in one step.  All sessions here are *)
(* of one account.                                                         *)
(***************************************************************************)
EXTENDS Naturals, FiniteSets

CONSTANTS
    Workers,     \* worker threads (AgentWorker, SyncWorker, StatusStreamWorker)
    UI,          \* the UI thread, which calls the API only while it starts
    MaxPairs,    \* bound: token pairs ever issued
    MaxOpens     \* bound: times the workbench is opened

ASSUME AuthAssumption ==
    /\ UI \notin Workers
    /\ MaxPairs \in Nat
    /\ MaxOpens \in Nat

Threads  == Workers \union {UI}
Pairs    == 1..MaxPairs
Sessions == Pairs    \* a session is named by the pair its login issued

VARIABLES
    session,   \* the session table
    issued,    \* token pairs issued so far
    owner,     \* the session of each pair (the access token's claim)
    expired,   \* pairs whose access token has run out
    file,      \* the token file: a pair, or 0 when absent or half written
    thread,    \* where each thread is inside HttpApiClient
    app,       \* the workbench: closed, checking the stored login, showing the
               \* login dialog, starting, or open (its workers run)
    opens,     \* times it was opened
    doubted,   \* history: pairs whose refresh overlapped another with the
               \* same token, or whose successor did not reach the file
    replayed,  \* history: pairs whose refresh was judged a replay
    told       \* history: the client was told so since it was last logged in

vars == <<session, issued, owner, expired, file, thread, app, opens, doubted,
          replayed, told>>

Row == [status   : {"ABSENT", "ACTIVE", "EXPIRED", "REVOKED"},
        current  : Pairs \union {0},    \* refresh_token_hash
        previous : Pairs \union {0}]    \* previous_refresh_token_hash

PCs == {"idle", "call", "reload", "refresh", "save", "saving", "resend"}

Thread == [pc      : PCs,
           used    : Pairs \union {0},   \* the pair loaded for this call
           new     : Pairs \union {0},   \* the pair the refresh returned
           retried : BOOLEAN]

Apps == {"closed", "checking", "dialog", "starting", "open"}

TypeOK ==
    /\ session \in [Sessions -> Row]
    /\ issued \in 0..MaxPairs
    /\ owner \in [Pairs -> Sessions \union {0}]
    /\ expired \in SUBSET Pairs
    /\ file \in Pairs \union {0}
    /\ thread \in [Threads -> Thread]
    /\ app \in Apps
    /\ opens \in 0..MaxOpens
    /\ doubted \in SUBSET Pairs
    /\ replayed \in SUBSET Pairs
    /\ told \in BOOLEAN

Idle == [pc |-> "idle", used |-> 0, new |-> 0, retried |-> FALSE]

Init ==
    /\ session = [s \in Sessions |->
                    [status |-> "ABSENT", current |-> 0, previous |-> 0]]
    /\ issued = 0
    /\ owner = [k \in Pairs |-> 0]
    /\ expired = {}
    /\ file = 0
    /\ thread = [t \in Threads |-> Idle]
    /\ app = "closed"
    /\ opens = 0
    /\ doubted = {}
    /\ replayed = {}
    /\ told = FALSE

-----------------------------------------------------------------------------
(***************************************************************************)
(* The control plane                                                       *)
(***************************************************************************)

\* require_principal: the token has not run out, its session is not revoked.
Authorized(k) ==
    k # 0 /\ k \notin expired /\ session[owner[k]].status # "REVOKED"

IsCurrent(k, s)  == session[s].current = k
IsPrevious(k, s) == session[s].previous = k

Issue(s, row) ==
    /\ issued < MaxPairs
    /\ issued' = issued + 1
    /\ owner' = [owner EXCEPT ![issued + 1] = s]
    /\ session' = [session EXCEPT ![s] = row]

\* Mutation: is_active is not asked before rotating.
RotateInactive(k) ==
    \E s \in Sessions :
        /\ IsCurrent(k, s)
        /\ Issue(s, [session[s] EXCEPT !.current = issued + 1, !.previous = k])

\* refresh with the current token: _rotate
Rotate(k) ==
    \E s \in Sessions :
        /\ IsCurrent(k, s) /\ session[s].status = "ACTIVE"
        /\ Issue(s, [session[s] EXCEPT !.current = issued + 1, !.previous = k])

\* refresh with the previous token: every session of the account is revoked.
Replay(k) ==
    /\ \A s \in Sessions : ~IsCurrent(k, s)
    /\ \E s \in Sessions : IsPrevious(k, s)
    /\ session' = [s \in Sessions |->
         IF session[s].status = "ABSENT" THEN session[s]
                                         ELSE [session[s] EXCEPT !.status = "REVOKED"]]
    /\ UNCHANGED <<issued, owner>>

\* refresh with any other token, or of a session that is not active
Deny(k) ==
    /\ \A s \in Sessions : IsCurrent(k, s) => session[s].status # "ACTIVE"
    /\ \/ \E s \in Sessions : IsCurrent(k, s)
       \/ \A s \in Sessions : ~IsPrevious(k, s)
    /\ UNCHANGED <<session, issued, owner>>

\* 15 minutes pass since a pair was issued.
Expire(k) ==
    /\ k \in 1..issued /\ k \notin expired
    /\ expired' = expired \union {k}
    /\ UNCHANGED <<session, issued, owner, file, thread, app, opens, doubted,
                   replayed, told>>

\* 30 days pass since a session's last refresh.
ExpireSession(s) ==
    /\ session[s].status = "ACTIVE"
    /\ session' = [session EXCEPT ![s].status = "EXPIRED"]
    /\ expired' = expired \union {k \in Pairs : owner[k] = s}
    /\ UNCHANGED <<issued, owner, file, thread, app, opens, doubted, replayed,
                   told>>

-----------------------------------------------------------------------------
(***************************************************************************)
(* HttpApiClient: one request of one thread                                *)
(***************************************************************************)

MayCall(t) == IF t = UI THEN app \in {"checking", "starting"} ELSE app = "open"

Step(t, next) == thread' = [thread EXCEPT ![t] = next]

\* A request returns; the answer to the first one decides about the dialog.
Return(t, ok) ==
    /\ Step(t, Idle)
    /\ app' = IF t # UI \/ app # "checking" THEN app
              ELSE IF ok THEN "starting" ELSE "dialog"

\* _request: load the tokens, send.
Request(t) ==
    /\ thread[t].pc = "idle" /\ MayCall(t)
    /\ Step(t, [Idle EXCEPT !.pc = "call", !.used = file])
    /\ UNCHANGED <<session, issued, owner, expired, file, app, opens, doubted,
                   replayed, told>>

\* The answer: 200, or a 401 that is not retried, or none at all.
Answer(t) ==
    /\ thread[t].pc = "call"
    /\ \/ Authorized(thread[t].used) /\ Return(t, TRUE)
       \/ ~Authorized(thread[t].used) /\ thread[t].retried /\ Return(t, FALSE)
       \/ Return(t, FALSE)
    /\ UNCHANGED <<session, issued, owner, expired, file, opens, doubted,
                   replayed, told>>

\* Mutation: the test of _retried is inverted.
UnauthorizedOnRetry(t) ==
    /\ thread[t].pc = "call"
    /\ ~Authorized(thread[t].used) /\ thread[t].retried
    /\ Step(t, [thread[t] EXCEPT !.pc = "reload"])
    /\ UNCHANGED <<session, issued, owner, expired, file, app, opens, doubted,
                   replayed, told>>

\* A first 401 leads to refresh_token.
Unauthorized(t) ==
    /\ thread[t].pc = "call"
    /\ ~Authorized(thread[t].used) /\ ~thread[t].retried
    /\ Step(t, [thread[t] EXCEPT !.pc = "reload"])
    /\ UNCHANGED <<session, issued, owner, expired, file, app, opens, doubted,
                   replayed, told>>

\* Threads that have loaded a pair to refresh it, up to its successor's save.
Refreshing(k) ==
    {u \in Threads : /\ thread[u].pc \in {"refresh", "save", "saving"}
                     /\ thread[u].used = k}

\* Mutation: the pair of the failed call is refreshed, the file not read again.
ReloadNothing(t) ==
    /\ thread[t].pc = "reload"
    /\ IF thread[t].used = 0
       THEN /\ Return(t, FALSE)
            /\ UNCHANGED doubted
       ELSE /\ Step(t, [thread[t] EXCEPT !.pc = "refresh"])
            /\ doubted' = IF Refreshing(thread[t].used) = {} THEN doubted
                          ELSE doubted \union {thread[t].used}
            /\ UNCHANGED app
    /\ UNCHANGED <<session, issued, owner, expired, file, opens, replayed, told>>

\* refresh_token loads the tokens again; without any it gives up.
Reload(t) ==
    /\ thread[t].pc = "reload"
    /\ IF file = 0
       THEN /\ Return(t, FALSE)
            /\ UNCHANGED doubted
       ELSE /\ Step(t, [thread[t] EXCEPT !.pc = "refresh", !.used = file])
            /\ doubted' = IF Refreshing(file) = {} THEN doubted
                          ELSE doubted \union {file}
            /\ UNCHANGED app
    /\ UNCHANGED <<session, issued, owner, expired, file, opens, replayed, told>>

\* The POST to /auth/refresh is handled; its answer may be lost.
Refresh(t, answered) ==
    LET k == thread[t].used
    IN /\ thread[t].pc = "refresh"
       /\ \/ /\ Rotate(k)
             /\ IF answered
                THEN /\ Step(t, [thread[t] EXCEPT !.pc = "save", !.new = issued + 1])
                     /\ UNCHANGED <<app, doubted>>
                ELSE /\ Return(t, FALSE)
                     /\ doubted' = doubted \union {k}
             /\ UNCHANGED <<replayed, told>>
          \/ /\ Replay(k)
             /\ Return(t, FALSE)
             /\ replayed' = replayed \union {k}
             /\ told' = (told \/ answered)
             /\ UNCHANGED doubted
          \/ /\ Deny(k)
             /\ Return(t, FALSE)
             /\ UNCHANGED <<doubted, replayed, told>>
       /\ UNCHANGED <<expired, file, opens>>

\* The request to /auth/refresh is lost before it is handled.
RefreshUnsent(t) ==
    /\ thread[t].pc = "refresh"
    /\ Return(t, FALSE)
    /\ UNCHANGED <<session, issued, owner, expired, file, opens, doubted,
                   replayed, told>>

\* TokenStore.save: write_text truncates the file, then writes it.  A load in
\* between finds no valid JSON and returns None.
SaveBegin(t) ==
    /\ thread[t].pc = "save"
    /\ file' = 0
    /\ Step(t, [thread[t] EXCEPT !.pc = "saving"])
    /\ UNCHANGED <<session, issued, owner, expired, app, opens, doubted,
                   replayed, told>>

\* Mutation: only the access token of the answer is stored.
SaveEndKeepsRefreshToken(t) ==
    /\ thread[t].pc = "saving"
    /\ file' = IF thread[t].used = 0 THEN thread[t].new ELSE thread[t].used
    /\ IF thread[t].used = 0
       THEN /\ Step(t, Idle)
            /\ app' = "starting"
            /\ told' = FALSE
       ELSE /\ Step(t, [Idle EXCEPT !.pc = "resend"])
            /\ UNCHANGED <<app, told>>
    /\ UNCHANGED <<session, issued, owner, expired, opens, doubted, replayed>>

\* A login returns to the dialog, a refresh to the request to be retried.
SaveEnd(t) ==
    /\ thread[t].pc = "saving"
    /\ file' = thread[t].new
    /\ IF thread[t].used = 0
       THEN /\ Step(t, Idle)
            /\ app' = "starting"
            /\ told' = FALSE
       ELSE /\ Step(t, [Idle EXCEPT !.pc = "resend"])
            /\ UNCHANGED <<app, told>>
    /\ UNCHANGED <<session, issued, owner, expired, opens, doubted, replayed>>

Resend(t) ==
    /\ thread[t].pc = "resend"
    /\ Step(t, [pc |-> "call", used |-> file, new |-> 0, retried |-> TRUE])
    /\ UNCHANGED <<session, issued, owner, expired, file, app, opens, doubted,
                   replayed, told>>

-----------------------------------------------------------------------------
(***************************************************************************)
(* The workbench                                                           *)
(***************************************************************************)

Open ==
    /\ app = "closed" /\ opens < MaxOpens
    /\ app' = "checking"
    /\ opens' = opens + 1
    /\ UNCHANGED <<session, issued, owner, expired, file, thread, doubted,
                   replayed, told>>

\* The login dialog: a session of its own for each login that the control
\* plane handles, whether or not the answer arrives.
Login(answered) ==
    /\ app = "dialog" /\ thread[UI].pc = "idle"
    /\ Issue(issued + 1, [status |-> "ACTIVE", current |-> issued + 1,
                          previous |-> 0])
    /\ IF answered
       THEN Step(UI, [Idle EXCEPT !.pc = "save", !.new = issued + 1])
       ELSE UNCHANGED thread
    /\ UNCHANGED <<expired, file, app, opens, doubted, replayed, told>>

StartWorkers ==
    /\ app = "starting" /\ thread[UI].pc = "idle"
    /\ app' = "open"
    /\ UNCHANGED <<session, issued, owner, expired, file, thread, opens,
                   doubted, replayed, told>>

\* The process ends, at leisure or not; a cancelled dialog counts as an end,
\* as nothing calls the API until the next start.
Quit ==
    /\ app # "closed"
    /\ app' = "closed"
    /\ thread' = [t \in Threads |-> Idle]
    /\ doubted' = doubted \union
         {thread[t].used : t \in {u \in Threads :
             thread[u].pc \in {"save", "saving"} /\ thread[u].used # 0}}
    /\ told' = FALSE
    /\ UNCHANGED <<session, issued, owner, expired, file, opens, replayed>>

-----------------------------------------------------------------------------
(***************************************************************************)
(* Specification                                                           *)
(***************************************************************************)

ClientStep(t) ==
    \/ Request(t) \/ Answer(t) \/ Unauthorized(t) \/ Reload(t)
    \/ \E answered \in BOOLEAN : Refresh(t, answered)
    \/ RefreshUnsent(t)
    \/ SaveBegin(t) \/ SaveEnd(t) \/ Resend(t)

Next ==
    \/ \E t \in Threads : ClientStep(t)
    \/ Open \/ StartWorkers \/ Quit
    \/ \E answered \in BOOLEAN : Login(answered)
    \/ \E k \in Pairs : Expire(k)
    \/ \E s \in Sessions : ExpireSession(s)

Spec == Init /\ [][Next]_vars

(***************************************************************************)
(* Fairness.  Every thread runs and every request ends (REQUEST_TIMEOUT).  *)
(* A worker polls again and again, and the network is not down for ever:   *)
(* a 401 that keeps coming back arrives some time, and so does the answer  *)
(* to a refresh that is sent again and again.                              *)
(***************************************************************************)
FairSpec ==
    /\ Spec
    /\ \A t \in Threads : WF_vars(ClientStep(t))
    /\ \A t \in Workers : SF_vars(Unauthorized(t)) /\ SF_vars(Refresh(t, TRUE))

-----------------------------------------------------------------------------
(***************************************************************************)
(* Properties                                                              *)
(***************************************************************************)

\* The control plane takes a refresh for a replay only if two threads had
\* loaded the same pair, or an earlier answer was lost or not saved: threads
\* that refresh one after the other never lose the user's login.
ReplayIsExplained == replayed \subseteq doubted

\* The stored pair is the one its session will accept next, unless its
\* successor is on the way to the file or went astray.
StoredPairIsCurrent ==
    file # 0 /\ session[owner[file]].status = "ACTIVE" =>
        \/ IsCurrent(file, owner[file])
        \/ file \in doubted
        \/ \E u \in Refreshing(file) : thread[u].pc # "refresh"

\* session.py: revocation is final; no refresh gives a revoked session a new
\* token, whatever was under way when it was revoked.
RevokedIsFinal ==
    [][\A s \in Sessions :
         session[s].status = "REVOKED" => session'[s] = session[s]]_vars

\* While the workbench stays open, a stored access token that has run out is
\* replaced, unless its session is over, a refresh overlapped another or lost
\* its answer, or the bound on pairs is reached.
ExpiredIsRenewed ==
    (app = "open" /\ file \in expired)
    ~> \/ file \notin expired \union {0}
       \/ app # "open"
       \/ doubted # {} \/ issued = MaxPairs
       \/ file # 0 /\ session[owner[file]].status # "ACTIVE"

\* API.md: a client that is told REFRESH_TOKEN_REUSED has to clear its tokens
\* and to log in again.
ReuseClearsTokens ==
    (told /\ app = "open") ~> (file = 0 \/ app # "open")

=============================================================================
