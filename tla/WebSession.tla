------------------------------ MODULE WebSession ------------------------------
(***************************************************************************)
(* One account in the tabs of one browser: the token pair in localStorage   *)
(* (web/src/api/client.ts), the interceptor that renews it when a request   *)
(* comes back 401, and the account's only row of refresh_tokens on the      *)
(* server (user_service.go).                                                *)
(*                                                                         *)
(* The n-th pair the server makes is the number n, its access and its       *)
(* refresh token together.  Access tokens are not stored on the server and  *)
(* lapse in the order they were made; refresh token n is good as long as    *)
(* the row holds it and has not expired.  A tab has one request under way   *)
(* at a time, so the single flight of axios-auth-refresh inside a tab needs *)
(* no state; and it starts no exchange before one that it has dropped has   *)
(* ended on the server (what such a pair do to each other, two tabs do).    *)
(***************************************************************************)
EXTENDS WebApi, FiniteSets

CONSTANTS
  Tabs,
  MaxPairs,   \* bound: token pairs made
  MaxAsks     \* bound: requests, logins and logouts of the tabs

ASSUME SessionBounds == MaxPairs \in Nat \ {0} /\ MaxAsks \in Nat

NoPair   == 0
Password == -1  \* the credentials of a login, where a refresh has a token

VARIABLES
  store,    \* localStorage: the pair in access_token and refresh_token
  row,      \* refresh_tokens: the pair, whether expires_at has passed, and
            \* whether a password change has since its credentials were read
  minted,   \* pairs made so far
  lapsed,   \* access tokens 1 .. lapsed have expired
  tab,      \* tab[t]: its request, the token sent, the pair it was answered
  exchange, \* exchange[t]: the server's transaction of RefreshToken or Login
  blame,    \* history: what has come between the store and the row
  spent,    \* history: the refresh tokens that have been exchanged
  asks      \* requests, logins and logouts still to come

sessionVars == <<store, row, minted, lapsed, tab, exchange, blame, spent, asks>>

Resting == [pc |-> "idle", request |-> userServiceGetMe, sent |-> NoPair,
            again |-> FALSE, got |-> NoPair]
NoExchange == [step |-> "none", request |-> userServiceGetMe, cut |-> FALSE]
NoRow == [pair |-> NoPair, cut |-> FALSE, expired |-> FALSE]

\* Signed in with the first pair.
SessionInit ==
  /\ store = 1
  /\ row = [pair |-> 1, cut |-> FALSE, expired |-> FALSE]
  /\ minted = 1
  /\ lapsed = 0
  /\ tab = [t \in Tabs |-> Resting]
  /\ exchange = [t \in Tabs |-> NoExchange]
  /\ blame = {}
  /\ spent = {}
  /\ asks = MaxAsks

-----------------------------------------------------------------------------
\* The client.

\* Other tabs that are between asking for a pair and storing it.
Racing(t) ==
  \E u \in Tabs \ {t} :
    \/ exchange[u].step # "none"
    \/ tab[u].pc \in {"refreshing", "failing", "renewed", "login", "welcome"}

\* api: the request goes out with the access token of the moment.
Send(t, request, pair, again) ==
  tab' = [tab EXCEPT ![t] =
    [pc |-> "asking", request |-> request, sent |-> pair, again |-> again,
     got |-> NoPair]]

\* A page asks who the viewer is, or handleChangePassword asks for a new
\* password.
Ask(t) ==
  /\ tab[t].pc = "idle" /\ asks > 0 /\ store # NoPair
  /\ \E request \in {useUserServiceGetMe.queryFn, userServiceChangePassword("new")} :
       Send(t, request, store, FALSE)
  /\ asks' = asks - 1
  /\ UNCHANGED <<store, row, minted, lapsed, exchange, blame, spent>>

\* Plausible bug: the failed request's own token is exchanged.
RefreshWithSent(t) ==
  /\ tab[t].pc = "asking" /\ tab[t].sent <= lapsed
  /\ IF tab[t].again
     THEN /\ tab' = [tab EXCEPT ![t] = Resting]
          /\ UNCHANGED <<exchange, blame>>
     ELSE /\ exchange[t].step = "none"
          /\ tab' = [tab EXCEPT ![t].pc = "refreshing"]
          /\ exchange' = [exchange EXCEPT ![t] =
               [NoExchange EXCEPT !.step = "received",
                                  !.request = userServiceRefreshToken(tab[t].sent)]]
          /\ blame' = IF Racing(t) THEN blame \union {"raced"} ELSE blame
  /\ UNCHANGED <<store, row, minted, lapsed, spent, asks>>

\* A missing or lapsed access token is answered 401.  The interceptor
\* exchanges the refresh token that is stored now, once per request: the
\* request it sends again is not intercepted.
Unauthorized(t) ==
  /\ tab[t].pc = "asking" /\ tab[t].sent <= lapsed
  /\ IF tab[t].again
     THEN /\ tab' = [tab EXCEPT ![t] = Resting]
          /\ UNCHANGED <<exchange, blame>>
     ELSE /\ exchange[t].step = "none"
          /\ tab' = [tab EXCEPT ![t].pc = "refreshing"]
          /\ exchange' = [exchange EXCEPT ![t] =
               [NoExchange EXCEPT !.step = "received",
                                  !.request = userServiceRefreshToken(store)]]
          /\ blame' = IF Racing(t) THEN blame \union {"raced"} ELSE blame
  /\ UNCHANGED <<store, row, minted, lapsed, spent, asks>>

\* The renewed pair is stored and the failed request sent again with it.
TokensStored(t) ==
  /\ tab[t].pc = "renewed"
  /\ store' = tab[t].got
  /\ Send(t, tab[t].request, tab[t].got, TRUE)
  /\ UNCHANGED <<row, minted, lapsed, exchange, blame, spent, asks>>

\* The catch block: whatever made the refresh fail, both tokens are removed.
RefreshFailed(t) ==
  /\ tab[t].pc = "failing"
  /\ store' = NoPair
  /\ tab' = [tab EXCEPT ![t] = Resting]
  /\ UNCHANGED <<row, minted, lapsed, exchange, blame, spent, asks>>

\* The connection breaks while a call is under way; the server goes on.  The
\* catch block takes it for a refused refresh; a page, or LoginForm, shows an
\* error and leaves the store as it was.
ConnectionLost(t) ==
  /\ IF tab[t].pc \in {"refreshing", "renewed"}
     THEN /\ tab' = [tab EXCEPT ![t].pc = "failing", ![t].got = NoPair]
          /\ blame' = blame \union {"failed"}
     ELSE /\ tab[t].pc \in {"asking", "login", "welcome"}
          /\ tab' = [tab EXCEPT ![t] = Resting]
          /\ blame' = IF tab[t].pc = "asking" THEN blame ELSE blame \union {"abandoned"}
  /\ UNCHANGED <<store, row, minted, lapsed, exchange, spent, asks>>

\* The tab is reloaded or closed, or LoginForm is left, which drops the
\* callback that would store the pair; the server goes on.
Dropped(t) ==
  /\ tab[t].pc # "idle"
  /\ tab' = [tab EXCEPT ![t] = Resting]
  /\ blame' = IF tab[t].pc = "asking" THEN blame ELSE blame \union {"abandoned"}
  /\ UNCHANGED <<store, row, minted, lapsed, exchange, spent, asks>>

\* LoginForm: the button is disabled while its call is pending.
LoginSubmitted(t) ==
  /\ tab[t].pc = "idle" /\ exchange[t].step = "none" /\ asks > 0
  /\ tab' = [tab EXCEPT ![t].pc = "login"]
  /\ exchange' = [exchange EXCEPT ![t] =
       [NoExchange EXCEPT !.step = "received", !.request = userServiceLogin(Password)]]
  /\ asks' = asks - 1
  /\ UNCHANGED <<store, row, minted, lapsed, blame, spent>>

LoggedIn(t) ==
  /\ tab[t].pc = "welcome"
  /\ store' = tab[t].got
  /\ tab' = [tab EXCEPT ![t] = Resting]
  /\ UNCHANGED <<row, minted, lapsed, exchange, blame, spent, asks>>

\* Log out removes the tokens and reloads the page, which drops the tab's
\* requests; the server is not told.
LogOut(t) ==
  /\ asks > 0 /\ store # NoPair
  /\ store' = NoPair
  /\ tab' = [tab EXCEPT ![t] = Resting]
  /\ blame' = blame \union {"left"}
       \union (IF exchange[t].step = "none" THEN {} ELSE {"abandoned"})
  /\ asks' = asks - 1
  /\ UNCHANGED <<row, minted, lapsed, exchange, spent>>

-----------------------------------------------------------------------------
\* The server.

\* Plausible bug: the sessions are kept.
ChangePasswordKeepsRow ==
  /\ row' = [row EXCEPT !.cut = row.pair # NoPair]
  /\ exchange' = [u \in Tabs |->
       [exchange[u] EXCEPT !.cut = @ \/ exchange[u].step = "read"]]
  /\ blame' = blame \union {"usurped"}

\* ChangePassword: the new hash and DeleteRefreshTokenByUid in one
\* transaction.
ChangePassword ==
  /\ row' = NoRow
  /\ exchange' = [u \in Tabs |->
       [exchange[u] EXCEPT !.cut = @ \/ exchange[u].step = "read"]]
  /\ blame' = blame \union {"usurped"}

\* The access token is good; no row is read for it.
Answered(t) ==
  /\ tab[t].pc = "asking" /\ tab[t].sent > lapsed
  /\ tab' = [tab EXCEPT ![t] = Resting]
  /\ IF tab[t].request = userServiceGetMe
     THEN UNCHANGED <<row, exchange, blame>>
     ELSE ChangePassword
  /\ UNCHANGED <<store, minted, lapsed, spent, asks>>

\* What the server finds for the credentials of an exchange.
Accepts(request) ==
  \/ request = userServiceLogin(Password)
  \/ request = userServiceRefreshToken(row.pair) /\ row.pair # NoPair /\ ~row.expired

\* GetRefreshToken, or GetUserByUsername and the comparison of the hash:
\* the row is read without a lock.
ReadCredentials(t) ==
  /\ exchange[t].step = "received"
  /\ IF Accepts(exchange[t].request)
     THEN /\ exchange' = [exchange EXCEPT ![t].step = "read"]
          /\ UNCHANGED tab
     ELSE /\ exchange' = [exchange EXCEPT ![t] = NoExchange]
          /\ tab' = [tab EXCEPT ![t].pc = IF @ = "refreshing" THEN "failing" ELSE @]
  /\ UNCHANGED <<store, row, minted, lapsed, blame, spent, asks>>

\* Plausible bug: ON CONFLICT DO NOTHING.
InsertRefreshToken(t) ==
  /\ exchange[t].step = "read" /\ minted < MaxPairs
  /\ minted' = minted + 1
  /\ row' = IF row = NoRow THEN [pair |-> minted + 1, cut |-> exchange[t].cut, expired |-> FALSE] ELSE row
  /\ exchange' = [exchange EXCEPT ![t] = NoExchange]
  /\ tab' = [tab EXCEPT ![t] =
       CASE @.pc = "refreshing" -> [@ EXCEPT !.pc = "renewed", !.got = minted + 1]
         [] @.pc = "login"      -> [@ EXCEPT !.pc = "welcome", !.got = minted + 1]
         [] OTHER -> @]
  /\ spent' = spent \union {exchange[t].request.data}
  /\ blame' = IF Racing(t) THEN blame \union {"raced"} ELSE blame
  /\ UNCHANGED <<store, lapsed, asks>>

\* UpsertRefreshToken and the commit: whatever pair the row holds is
\* replaced, and the answer leaves for the tab, if that still waits.
UpsertRefreshToken(t) ==
  /\ exchange[t].step = "read" /\ minted < MaxPairs
  /\ minted' = minted + 1
  /\ row' = [pair |-> minted + 1, cut |-> exchange[t].cut, expired |-> FALSE]
  /\ exchange' = [exchange EXCEPT ![t] = NoExchange]
  /\ tab' = [tab EXCEPT ![t] =
       CASE @.pc = "refreshing" -> [@ EXCEPT !.pc = "renewed", !.got = minted + 1]
         [] @.pc = "login"      -> [@ EXCEPT !.pc = "welcome", !.got = minted + 1]
         [] OTHER -> @]
  /\ spent' = spent \union {exchange[t].request.data}
  /\ blame' = IF Racing(t) THEN blame \union {"raced"} ELSE blame
  /\ UNCHANGED <<store, lapsed, asks>>

\* The upsert or the commit fails and the transaction is rolled back.
RollBack(t) ==
  /\ exchange[t].step = "read"
  /\ exchange' = [exchange EXCEPT ![t] = NoExchange]
  /\ tab' = [tab EXCEPT ![t] =
       CASE @.pc = "refreshing" -> [@ EXCEPT !.pc = "failing"]
         [] @.pc = "login"      -> Resting
         [] OTHER -> @]
  /\ blame' = blame \union {"failed"}
  /\ UNCHANGED <<store, row, minted, lapsed, spent, asks>>

\* The account logs in on another device: its row is the same one.
OtherDevice ==
  /\ minted < MaxPairs
  /\ minted' = minted + 1
  /\ row' = [pair |-> minted + 1, cut |-> FALSE, expired |-> FALSE]
  /\ blame' = blame \union {"usurped"}
  /\ UNCHANGED <<store, lapsed, tab, exchange, spent, asks>>

\* expires_at of the row passes.
RefreshExpires ==
  /\ row.pair # NoPair /\ ~row.expired
  /\ row' = [row EXCEPT !.expired = TRUE]
  /\ blame' = blame \union {"expired"}
  /\ UNCHANGED <<store, minted, lapsed, tab, exchange, spent, asks>>

\* The oldest living access token reaches its exp.
Lapse ==
  /\ lapsed < minted
  /\ lapsed' = lapsed + 1
  /\ UNCHANGED <<store, row, minted, tab, exchange, blame, spent, asks>>

-----------------------------------------------------------------------------
\* What happens without anybody's doing: the browser and the server go on.
SessionProgress ==
  \E t \in Tabs :
    \/ Answered(t) \/ Unauthorized(t) \/ TokensStored(t) \/ RefreshFailed(t)
    \/ LoggedIn(t) \/ ReadCredentials(t) \/ UpsertRefreshToken(t) \/ RollBack(t)

SessionNext ==
  \/ SessionProgress
  \/ \E t \in Tabs : Ask(t) \/ ConnectionLost(t) \/ Dropped(t) \/ LoginSubmitted(t) \/ LogOut(t)
  \/ OtherDevice
  \/ RefreshExpires
  \/ Lapse

-----------------------------------------------------------------------------
Pairs == 0 .. MaxPairs

\* Every variable holds a value of its type.
SessionTypeOK ==
  /\ {store, minted, lapsed} \subseteq Pairs
  /\ row.pair \in Pairs /\ {row.cut, row.expired} \subseteq BOOLEAN
  /\ \A t \in Tabs :
       /\ tab[t].pc \in {"idle", "asking", "refreshing", "renewed", "failing",
                         "login", "welcome"}
       /\ tab[t].got \in Pairs
       /\ exchange[t].step \in {"none", "received", "read"}

SessionAtRest == \A t \in Tabs : tab[t].pc = "idle" /\ exchange[t].step = "none"

\* When nothing is under way, the browser holds the pair of the account's row,
\* or none, unless two tabs renewed or logged in at once (the pair stored last
\* need not be the one saved last), an exchange was left to the server (the
\* user logged out, the tab was reloaded or closed, a login lost its answer or
\* its form), or the row was replaced from elsewhere.
StoreHoldsLivePair ==
  SessionAtRest /\ store \notin {NoPair, row.pair}
    => blame \intersect {"raced", "abandoned", "usurped"} # {}

\* Nobody is signed out for nothing: the tokens are gone only after a log
\* out, a refresh that failed on its way, the end of the refresh token's time,
\* or one of the disturbances above.
SignedOutForAReason == SessionAtRest /\ store = NoPair => blame # {}

\* A refresh token that has been exchanged is not accepted again: the row
\* that is read without a lock cannot be the old one once the upsert has
\* committed (user_service.go:313-336).
SpentTokensAreRefused ==
  \A t \in Tabs : exchange[t].step = "received" /\ exchange'[t].step = "read"
    => exchange[t].request.data \notin spent \ {Password}

\* After a change of the password, the row holds a pair made for older
\* credentials only where their transaction had read them before the change
\* and saved its pair after it.
OldSessionsEnd ==
  row'.cut /\ ~row.cut => \E t \in Tabs : exchange[t].step = "read" /\ exchange[t].cut

\* At rest, the tabs of a browser are signed in with the pair of the account's row,
\* or signed out, and for a reason either way.
SessionsAreAccounted == StoreHoldsLivePair /\ SignedOutForAReason

\* A token that was exchanged, or issued for an old password, is not revived.
TokensEnd == [][SpentTokensAreRefused /\ OldSessionsEnd]_sessionVars
=============================================================================
