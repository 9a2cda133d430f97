------------------------------ MODULE WebProofs ------------------------------
(***************************************************************************)
(* Proofs about WebClient, for any tabs and bounds.  WebClient looks at one *)
(* part at a time, with what the other parts do to it among its own steps.  *)
(* PartsImplemented passes what is proved of a part on to WebClient; that   *)
(* the steps of a part are complete is a matter of its module.              *)
(***************************************************************************)
EXTENDS WebClient, TLAPS

-----------------------------------------------------------------------------
(***************************************************************************)
(* From a part to the client.                                               *)
(***************************************************************************)
\* A step of one part leaves every other part still.
LEMMA OthersStill ==
  ASSUME NEW p \in Parts, Alone(p)
  PROVE  /\ p # "session" => UNCHANGED sessionVars
         /\ p # "feed" => UNCHANGED feedVars
         /\ p # "post" => UNCHANGED postVars
         /\ p # "thread" => UNCHANGED threadVars
         /\ p # "thumb" => UNCHANGED thumbVars
         /\ p # "preview" => UNCHANGED previewVars
         /\ p # "compose" => UNCHANGED composeVars
         /\ p # "account" => UNCHANGED accountVars
         /\ p # "inbox" => UNCHANGED inboxVars
         /\ p # "search" => UNCHANGED searchVars
         /\ p # "theme" => UNCHANGED themeVars
BY DEF Alone, Still, Parts

\* So each part takes its own steps.
LEMMA PartSteps ==
  ASSUME [ClientNext]_clientVars
  PROVE  /\ [SessionNext]_sessionVars
         /\ [FeedNext]_feedVars
         /\ [PostNext]_postVars
         /\ [ThreadNext]_threadVars
         /\ [ThumbNext]_thumbVars
         /\ [PreviewNext]_previewVars
         /\ [ComposeNext]_composeVars
         /\ [AccountNext]_accountVars
         /\ [InboxNext]_inboxVars
         /\ [SearchNext]_searchVars
         /\ [ThemeNext]_themeVars
<1>1. CASE Open
  BY <1>1 DEF Open
<1>2. CASE UNCHANGED clientVars
  BY <1>2 DEF clientVars
<1>3. ASSUME NEW p \in Parts, Alone(p),
             p = "session" => SessionNext,
             p = "feed" => FeedNext,
             p = "post" => PostNext,
             p = "thread" => ThreadNext,
             p = "thumb" => ThumbNext,
             p = "preview" => PreviewNext,
             p = "compose" => ComposeNext,
             p = "account" => AccountNext,
             p = "inbox" => InboxNext,
             p = "search" => SearchNext,
             p = "theme" => ThemeNext
      PROVE  /\ [SessionNext]_sessionVars
             /\ [FeedNext]_feedVars
             /\ [PostNext]_postVars
             /\ [ThreadNext]_threadVars
             /\ [ThumbNext]_thumbVars
             /\ [PreviewNext]_previewVars
             /\ [ComposeNext]_composeVars
             /\ [AccountNext]_accountVars
             /\ [InboxNext]_inboxVars
             /\ [SearchNext]_searchVars
             /\ [ThemeNext]_themeVars
  BY <1>3, OthersStill
<1> QED BY <1>1, <1>2, <1>3 DEF ClientNext, Parts

\* WebClient takes the steps of its parts, and no others.
LEMMA PartsImplemented ==
  ClientSpec =>
    /\ SessionInit /\ [][SessionNext]_sessionVars
    /\ FeedInit /\ [][FeedNext]_feedVars
    /\ PostInit /\ [][PostNext]_postVars
    /\ ThreadInit /\ [][ThreadNext]_threadVars
    /\ ThumbInit /\ [][ThumbNext]_thumbVars
    /\ PreviewInit /\ [][PreviewNext]_previewVars
    /\ ComposeInit /\ [][ComposeNext]_composeVars
    /\ AccountInit /\ [][AccountNext]_accountVars
    /\ InboxInit /\ [][InboxNext]_inboxVars
    /\ SearchInit /\ [][SearchNext]_searchVars
    /\ ThemeInit /\ [][ThemeNext]_themeVars
<1>1. ClientInit =>
        /\ SessionInit
        /\ FeedInit
        /\ PostInit
        /\ ThreadInit
        /\ ThumbInit
        /\ PreviewInit
        /\ ComposeInit
        /\ AccountInit
        /\ InboxInit
        /\ SearchInit
        /\ ThemeInit
  BY DEF ClientInit
<1> QED BY <1>1, PartSteps, PTL DEF ClientSpec

-----------------------------------------------------------------------------
(***************************************************************************)
(* The sessions of the tabs.                                                *)
(***************************************************************************)
SessionRequests == {userServiceGetMe, userServiceChangePassword("new")}
Credentials == {userServiceLogin(Password)} \union {userServiceRefreshToken(n) : n \in 0 .. minted}

TabStates == {"idle", "asking", "refreshing", "renewed", "failing", "login", "welcome"}

TabRecords ==
  [pc : TabStates, request : SessionRequests, sent : 0 .. minted, again : BOOLEAN,
   got : 0 .. minted]
NoExchanges == [step : {"none"}, request : {userServiceGetMe}, cut : {FALSE}]
Exchanges   == [step : {"received", "read"}, request : Credentials, cut : BOOLEAN]
ExchangeRecords == NoExchanges \union Exchanges

\* The records have their fields, and no token is one that was never made.
SessionTyped ==
  /\ minted \in 1 .. MaxPairs
  /\ store \in 0 .. minted
  /\ lapsed \in 0 .. minted
  /\ row \in [pair : 0 .. minted, cut : BOOLEAN, expired : BOOLEAN]
  /\ tab \in [Tabs -> TabRecords]
  /\ exchange \in [Tabs -> ExchangeRecords]
  /\ spent \subseteq {Password} \union 0 .. minted

\* The row never holds a token that has been exchanged.
RowIsUnspent == row.pair # NoPair => row.pair \notin spent

\* A tab that has got its pair has no exchange under way.
AnswerEndsExchange ==
  \A t \in Tabs : tab[t].pc \in {"renewed", "welcome"} => exchange[t].step = "none"

Disturbed == blame \intersect {"raced", "abandoned", "usurped"} # {}

\* The tab is about to change the row or the store, other than by a login that
\* has not got its pair yet.
Presents(t) ==
  \/ tab[t].pc \in {"refreshing", "failing", "renewed", "welcome"}
  \/ exchange[t].step # "none" /\ tab[t].pc # "login"

\* Without a disturbance, at most one tab is about to change the store; the
\* pair it brings is the one of the row; while the store is behind the row,
\* there is such a tab; and an exchange that its tab has given up goes on only
\* while the browser is signed out.
OnePresents == \A t, u \in Tabs : Presents(t) /\ Presents(u) => t = u
BringsTheRow == \A t \in Tabs : tab[t].pc \in {"renewed", "welcome"} => tab[t].got = row.pair
BehindIsBrought ==
  store \notin {NoPair, row.pair} =>
    \E t \in Tabs : tab[t].pc \in {"renewed", "welcome", "failing"}
GivenUpIsSignedOut ==
  \A t \in Tabs :
    exchange[t].step # "none" /\ tab[t].pc \notin {"refreshing", "login", "failing"}
      => store = NoPair
Undisturbed == OnePresents /\ BringsTheRow /\ BehindIsBrought /\ GivenUpIsSignedOut

\* Until anything at all has happened, the browser is signed in, and what it
\* sends to be exchanged is the token of the row, which has not expired.
Unblemished ==
  /\ store # NoPair /\ row.pair # NoPair /\ ~row.expired
  /\ \A t \in Tabs :
       /\ tab[t].pc # "failing"
       /\ exchange[t].step = "received" /\ tab[t].pc = "refreshing"
            => exchange[t].request = userServiceRefreshToken(row.pair)

SessionIInv ==
  /\ SessionTyped
  /\ RowIsUnspent
  /\ AnswerEndsExchange
  /\ ~Disturbed => Undisturbed
  /\ blame = {} => Unblemished


LEMMA SessionInitIInv == SessionInit => SessionIInv
<1> SUFFICES ASSUME SessionInit PROVE SessionIInv
  OBVIOUS
<1>1. SessionTyped
  BY SessionBounds DEF SessionInit, SessionTyped, Resting, NoExchange, NoPair, TabStates,
                       SessionRequests, Credentials, TabRecords, NoExchanges, Exchanges,
                       ExchangeRecords
<1>2. RowIsUnspent /\ AnswerEndsExchange
  BY DEF SessionInit, RowIsUnspent, AnswerEndsExchange, Resting
<1>3. Undisturbed
  BY DEF SessionInit, Undisturbed, OnePresents, Presents, BringsTheRow, BehindIsBrought,
         GivenUpIsSignedOut, Resting, NoExchange
<1>4. Unblemished
  BY DEF SessionInit, Unblemished, Resting, NoPair
<1> QED BY <1>1, <1>2, <1>3, <1>4 DEF SessionIInv

\* What the typing says of one tab.
LEMMA TabTyped ==
  ASSUME SessionTyped, NEW t \in Tabs
  PROVE  /\ tab[t].pc \in TabStates /\ tab[t].request \in SessionRequests
         /\ tab[t].sent \in 0 .. minted /\ tab[t].got \in 0 .. minted
         /\ exchange[t].step \in {"none", "received", "read"}
         /\ exchange[t].step # "none" => exchange[t].request \in Credentials
         /\ exchange[t].cut \in BOOLEAN
<1>1. tab[t] \in TabRecords /\ exchange[t] \in ExchangeRecords
  BY DEF SessionTyped
<1>2. CASE exchange[t] \in NoExchanges
  BY <1>1, <1>2 DEF TabRecords, NoExchanges
<1>3. CASE exchange[t] \in Exchanges
  BY <1>1, <1>3 DEF TabRecords, Exchanges
<1> QED BY <1>1, <1>2, <1>3 DEF ExchangeRecords

\* A change of the password marks an exchange, and leaves it one.
LEMMA MarkTyped ==
  ASSUME NEW x \in ExchangeRecords
  PROVE  LET y == [x EXCEPT !.cut = @ \/ x.step = "read"]
         IN  y \in ExchangeRecords /\ y.step = x.step
<1>1. CASE x \in NoExchanges
  BY <1>1 DEF NoExchanges, ExchangeRecords
<1>2. CASE x \in Exchanges
  BY <1>2 DEF Exchanges, ExchangeRecords
<1> QED BY <1>1, <1>2 DEF ExchangeRecords

\* An exchange that has been received is read.
LEMMA ReadTyped ==
  ASSUME NEW x \in ExchangeRecords, x.step # "none"
  PROVE  LET y == [x EXCEPT !.step = "read"]
         IN  y \in ExchangeRecords /\ y.step = "read" /\ y.request = x.request
<1>1. x \in Exchanges
  BY DEF ExchangeRecords, NoExchanges
<1> QED BY <1>1 DEF ExchangeRecords, Exchanges

LEMMA RestTyped == SessionTyped => Resting \in TabRecords /\ NoExchange \in ExchangeRecords
BY DEF SessionTyped, Resting, NoExchange, NoPair, TabStates, SessionRequests, Credentials,
       TabRecords, NoExchanges, Exchanges, ExchangeRecords

\* While no pair is made, the sets of records are the same.
LEMMA SameRecords ==
  minted' = minted => TabRecords' = TabRecords /\ ExchangeRecords' = ExchangeRecords
BY DEF TabRecords, NoExchanges, Exchanges, ExchangeRecords, Credentials

LEMMA TypedWhileSame ==
  ASSUME SessionTyped, UNCHANGED <<minted, lapsed, spent>>,
         store' \in 0 .. minted, row' \in [pair : 0 .. minted, cut : BOOLEAN, expired : BOOLEAN],
         tab' \in [Tabs -> TabRecords], exchange' \in [Tabs -> ExchangeRecords]
  PROVE  SessionTyped'
BY SameRecords DEF SessionTyped

LEMMA AskKeeps ==
  ASSUME SessionIInv, NEW t \in Tabs, Ask(t)
  PROVE  SessionIInv'
<1>1. SessionTyped'
  <2>1. tab' \in [Tabs -> TabRecords]
    BY DEF SessionIInv, SessionTyped, Ask, Send, SessionRequests, useUserServiceGetMe, Query,
           TabStates, TabRecords, NoPair
  <2> QED BY <2>1, TypedWhileSame DEF SessionIInv, SessionTyped, Ask
<1>2. RowIsUnspent' /\ AnswerEndsExchange'
  BY DEF SessionIInv, SessionTyped, Ask, Send, RowIsUnspent, AnswerEndsExchange
<1>3. ASSUME ~Disturbed' PROVE Undisturbed'
  <2>1. Undisturbed
    BY <1>3 DEF SessionIInv, Ask, Disturbed
  <2>2. exchange[t].step = "none"
    BY <2>1 DEF Ask, Undisturbed, GivenUpIsSignedOut
  <2> QED
    BY <2>1, <2>2 DEF SessionIInv, SessionTyped, Ask, Send, Undisturbed, OnePresents, Presents,
                      BringsTheRow, BehindIsBrought, GivenUpIsSignedOut
<1>4. ASSUME blame' = {} PROVE Unblemished'
  BY <1>4 DEF SessionIInv, SessionTyped, Ask, Send, Unblemished
<1> QED BY <1>1, <1>2, <1>3, <1>4 DEF SessionIInv

\* A refresh begins: without a race, the store is the row's pair.
LEMMA UnauthorizedKeeps ==
  ASSUME SessionIInv, NEW t \in Tabs, Unauthorized(t)
  PROVE  SessionIInv'
<1>1. SessionTyped'
  <2>1. tab' \in [Tabs -> TabRecords]
    BY RestTyped DEF SessionIInv, SessionTyped, Unauthorized, TabStates, TabRecords
  <2>2. exchange' \in [Tabs -> ExchangeRecords]
    <3>1. [NoExchange EXCEPT !.step = "received", !.request = userServiceRefreshToken(store)]
            \in ExchangeRecords
      BY DEF SessionIInv, SessionTyped, NoExchange, Credentials, Exchanges, ExchangeRecords
    <3> QED BY <3>1 DEF SessionIInv, SessionTyped, Unauthorized
  <2> QED BY <2>1, <2>2, TypedWhileSame DEF SessionIInv, SessionTyped, Unauthorized
<1>2. RowIsUnspent' /\ AnswerEndsExchange'
  <2>1. RowIsUnspent'
    BY DEF SessionIInv, Unauthorized, RowIsUnspent
  <2>2. ASSUME NEW u \in Tabs, tab'[u].pc \in {"renewed", "welcome"}
        PROVE  exchange'[u].step = "none"
    <3>1. u # t
      BY <2>2 DEF SessionIInv, SessionTyped, Unauthorized, Resting, TabRecords
    <3>2. tab'[u] = tab[u] /\ exchange'[u] = exchange[u]
      BY <3>1 DEF SessionIInv, SessionTyped, Unauthorized
    <3> QED BY <2>2, <3>2 DEF SessionIInv, AnswerEndsExchange
  <2> QED BY <2>1, <2>2 DEF AnswerEndsExchange
<1>3. ASSUME ~Disturbed' PROVE Undisturbed'
  <2>1. Undisturbed
    BY <1>3 DEF SessionIInv, Unauthorized, Disturbed
  <2>2. CASE tab[t].again
    <3>1. tab[t].pc = "asking" /\ tab' = [tab EXCEPT ![t] = Resting]
          /\ UNCHANGED <<store, row, exchange>>
      BY <2>2 DEF Unauthorized
    <3>2. OnePresents' /\ GivenUpIsSignedOut'
      BY <2>1, <3>1 DEF SessionIInv, SessionTyped, Resting, Undisturbed, OnePresents, Presents,
                        GivenUpIsSignedOut
    <3>3. BringsTheRow' /\ BehindIsBrought'
      BY <2>1, <3>1 DEF SessionIInv, SessionTyped, Resting, Undisturbed, BringsTheRow,
                        BehindIsBrought
    <3> QED BY <3>2, <3>3 DEF Undisturbed
  <2>3. CASE ~tab[t].again
    <3>1. ~Racing(t)
      BY <1>3, <2>3 DEF Unauthorized, Disturbed
    <3>2. ASSUME NEW u \in Tabs, u # t PROVE ~Presents(u)'
      BY <2>3, <3>1, <3>2 DEF SessionIInv, SessionTyped, Unauthorized, Presents, Racing
    <3>3. tab[t].pc = "asking" /\ UNCHANGED <<store, row>>
          /\ tab' = [tab EXCEPT ![t].pc = "refreshing"]
          /\ \A u \in Tabs \ {t} : exchange'[u] = exchange[u]
      BY <2>3 DEF SessionIInv, SessionTyped, Unauthorized
    <3>4. BringsTheRow' /\ BehindIsBrought'
      BY <2>1, <3>3 DEF SessionIInv, SessionTyped, Undisturbed, BringsTheRow, BehindIsBrought
    <3>5. GivenUpIsSignedOut'
      BY <2>1, <3>3 DEF SessionIInv, SessionTyped, Undisturbed, GivenUpIsSignedOut
    <3> QED BY <3>2, <3>4, <3>5 DEF Undisturbed, OnePresents
  <2> QED BY <2>2, <2>3
<1>4. ASSUME blame' = {} PROVE Unblemished'
  <2>1. Unblemished /\ Undisturbed
    BY <1>4 DEF SessionIInv, Unauthorized, Disturbed
  <2>2. CASE tab[t].again
    <3>1. tab' = [tab EXCEPT ![t] = Resting] /\ UNCHANGED <<store, row, exchange>>
      BY <2>2 DEF Unauthorized
    <3> QED BY <2>1, <3>1 DEF SessionIInv, SessionTyped, Resting, Unblemished
  <2>3. CASE ~tab[t].again
    <3>1. ~Racing(t)
      BY <1>4, <2>3 DEF Unauthorized
    <3>2. store = row.pair
      BY <2>1, <3>1 DEF Unblemished, Undisturbed, BehindIsBrought, Racing, Unauthorized
    <3>3. UNCHANGED <<store, row>> /\ tab' = [tab EXCEPT ![t].pc = "refreshing"]
          /\ exchange'[t].request = userServiceRefreshToken(store)
          /\ \A u \in Tabs \ {t} : exchange'[u] = exchange[u]
      BY <2>3 DEF SessionIInv, SessionTyped, Unauthorized, NoExchange
    <3> QED BY <2>1, <3>2, <3>3 DEF SessionIInv, SessionTyped, Unblemished
  <2> QED BY <2>2, <2>3
<1> QED BY <1>1, <1>2, <1>3, <1>4 DEF SessionIInv

\* TokensStored and LoggedIn: the pair that was got is stored.
LEMMA StoringKeeps ==
  ASSUME SessionIInv, NEW t \in Tabs, tab[t].pc \in {"renewed", "welcome"},
         store' = tab[t].got,
         NEW next, tab' = [tab EXCEPT ![t] = next],
         next.pc \in {"idle", "asking"}, SessionTyped',
         UNCHANGED <<row, exchange, blame, spent>>
  PROVE  SessionIInv'
<1>1. RowIsUnspent' /\ AnswerEndsExchange'
  BY DEF SessionIInv, SessionTyped, RowIsUnspent, AnswerEndsExchange
<1>2. ASSUME ~Disturbed' PROVE Undisturbed'
  <2>1. Undisturbed
    BY <1>2 DEF SessionIInv, Disturbed
  <2>2. exchange[t].step = "none" /\ store' = row.pair
    BY <2>1 DEF SessionIInv, AnswerEndsExchange, Undisturbed, BringsTheRow
  <2>3. ASSUME NEW u \in Tabs, u # t
        PROVE  exchange[u].step # "none" => tab[u].pc = "login"
    BY <2>1, <2>3 DEF Undisturbed, OnePresents, Presents
  <2>4. OnePresents' /\ BringsTheRow' /\ BehindIsBrought'
    BY <2>1, <2>2 DEF SessionIInv, SessionTyped, Undisturbed, OnePresents, Presents,
                      BringsTheRow, BehindIsBrought
  <2>5. GivenUpIsSignedOut'
    BY <2>2, <2>3 DEF SessionIInv, SessionTyped, GivenUpIsSignedOut
  <2> QED BY <2>4, <2>5 DEF Undisturbed
<1>3. ASSUME blame' = {} PROVE Unblemished'
  <2>1. Unblemished /\ Undisturbed
    BY <1>3 DEF SessionIInv, Disturbed
  <2>2. store' = row.pair
    BY <2>1 DEF Undisturbed, BringsTheRow
  <2> QED BY <2>1, <2>2 DEF SessionIInv, SessionTyped, Unblemished
<1> QED BY <1>1, <1>2, <1>3 DEF SessionIInv

LEMMA TokensStoredKeeps ==
  ASSUME SessionIInv, NEW t \in Tabs, TokensStored(t) \/ LoggedIn(t)
  PROVE  SessionIInv'
<1>1. SessionTyped'
  <2>1. tab[t].got \in 0 .. minted /\ tab[t].request \in SessionRequests
    BY TabTyped DEF SessionIInv
  <2>2. tab' \in [Tabs -> TabRecords]
    <3>1. [pc |-> "asking", request |-> tab[t].request, sent |-> tab[t].got, again |-> TRUE,
           got |-> NoPair] \in TabRecords
      BY <2>1 DEF SessionIInv, SessionTyped, NoPair, TabStates, TabRecords
    <3> QED
      BY <3>1, RestTyped DEF SessionIInv, SessionTyped, TokensStored, LoggedIn, Send
  <2> QED
    BY <2>1, <2>2, TypedWhileSame DEF SessionIInv, SessionTyped, TokensStored, LoggedIn
<1>2. CASE TokensStored(t)
  BY <1>1, <1>2, StoringKeeps DEF TokensStored, Send
<1>3. CASE LoggedIn(t)
  BY <1>1, <1>3, StoringKeeps DEF LoggedIn, Resting
<1> QED BY <1>2, <1>3

LEMMA RefreshFailedKeeps ==
  ASSUME SessionIInv, NEW t \in Tabs, RefreshFailed(t)
  PROVE  SessionIInv'
<1>1. SessionTyped'
  BY RestTyped, TypedWhileSame DEF SessionIInv, SessionTyped, RefreshFailed, NoPair
<1>2. RowIsUnspent' /\ AnswerEndsExchange'
  BY DEF SessionIInv, SessionTyped, RefreshFailed, RowIsUnspent, AnswerEndsExchange, Resting
<1>3. ASSUME ~Disturbed' PROVE Undisturbed'
  BY <1>3 DEF SessionIInv, SessionTyped, RefreshFailed, Resting, Disturbed, Undisturbed,
       OnePresents, Presents, BringsTheRow, BehindIsBrought, GivenUpIsSignedOut
<1>4. blame' # {}
  BY DEF SessionIInv, RefreshFailed, Unblemished
<1> QED BY <1>1, <1>2, <1>3, <1>4 DEF SessionIInv

\* A disturbance ends what is known of the store; the tokens stay unspent.
LEMMA DisturbedKeeps ==
  ASSUME SessionIInv, SessionTyped', RowIsUnspent', AnswerEndsExchange', Disturbed'
  PROVE  SessionIInv'
BY DEF SessionIInv, Disturbed

\* A request is forgotten; an exchange that is dropped is a disturbance.
LEMMA ForgottenKeeps ==
  ASSUME SessionIInv, NEW t \in Tabs, tab[t].pc # "idle",
         tab' = [tab EXCEPT ![t] = Resting],
         blame' = IF tab[t].pc = "asking" THEN blame ELSE blame \union {"abandoned"},
         UNCHANGED <<store, row, minted, lapsed, exchange, spent>>
  PROVE  SessionIInv'
<1>1. SessionTyped'
  BY RestTyped, TypedWhileSame DEF SessionIInv, SessionTyped
<1>2. RowIsUnspent' /\ AnswerEndsExchange'
  BY DEF SessionIInv, SessionTyped, RowIsUnspent, AnswerEndsExchange, Resting
<1>3. CASE tab[t].pc # "asking"
  BY <1>1, <1>2, <1>3, DisturbedKeeps DEF Disturbed
<1>4. CASE tab[t].pc = "asking"
  <2>1. ASSUME ~Disturbed' PROVE Undisturbed'
    <3>1. Undisturbed
      BY <1>4, <2>1 DEF SessionIInv, Disturbed
    <3>2. OnePresents' /\ GivenUpIsSignedOut'
      BY <1>4, <3>1 DEF SessionIInv, SessionTyped, Resting, Undisturbed, OnePresents, Presents,
                        GivenUpIsSignedOut
    <3>3. BringsTheRow' /\ BehindIsBrought'
      BY <1>4, <3>1 DEF SessionIInv, SessionTyped, Resting, Undisturbed, BringsTheRow,
                        BehindIsBrought
    <3> QED BY <3>2, <3>3 DEF Undisturbed
  <2>2. ASSUME blame' = {} PROVE Unblemished'
    BY <1>4, <2>2 DEF SessionIInv, SessionTyped, Resting, Unblemished
  <2> QED BY <1>1, <1>2, <2>1, <2>2 DEF SessionIInv
<1> QED BY <1>3, <1>4

LEMMA DroppedKeeps ==
  ASSUME SessionIInv, NEW t \in Tabs, Dropped(t)
  PROVE  SessionIInv'
BY ForgottenKeeps DEF Dropped

\* A refresh that lost its connection is going to sign the tab out.
LEMMA ConnectionLostKeeps ==
  ASSUME SessionIInv, NEW t \in Tabs, ConnectionLost(t)
  PROVE  SessionIInv'
<1>1. CASE tab[t].pc \notin {"refreshing", "renewed"}
  BY <1>1, ForgottenKeeps DEF ConnectionLost
<1>2. CASE tab[t].pc \in {"refreshing", "renewed"}
  <2>0. /\ tab' = [tab EXCEPT ![t].pc = "failing", ![t].got = NoPair]
        /\ blame' = blame \union {"failed"}
        /\ UNCHANGED <<store, row, minted, lapsed, exchange, spent>>
    BY <1>2 DEF ConnectionLost
  <2>1. SessionTyped'
    <3>1. [tab[t] EXCEPT !.pc = "failing", !.got = NoPair] \in TabRecords
      <4>1. tab[t] \in TabRecords
        BY DEF SessionIInv, SessionTyped
      <4>2. NoPair \in 0 .. minted
        BY DEF SessionIInv, SessionTyped, NoPair
      <4> QED BY <4>1, <4>2 DEF TabStates, TabRecords
    <3>2. tab' = [tab EXCEPT ![t] = [tab[t] EXCEPT !.pc = "failing", !.got = NoPair]]
      BY <2>0 DEF SessionIInv, SessionTyped
    <3>3. tab' \in [Tabs -> TabRecords]
      BY <3>1, <3>2 DEF SessionIInv, SessionTyped
    <3> QED BY <2>0, <3>3, TypedWhileSame DEF SessionIInv, SessionTyped
  <2>2. RowIsUnspent' /\ AnswerEndsExchange'
    BY <2>0 DEF SessionIInv, SessionTyped, RowIsUnspent, AnswerEndsExchange
  <2>3. ASSUME ~Disturbed' PROVE Undisturbed'
    <3>1. Undisturbed
      BY <2>0, <2>3 DEF SessionIInv, Disturbed
    <3>2. tab'[t].pc = "failing"
      BY <2>0 DEF SessionIInv, SessionTyped
    <3>3. BehindIsBrought'
      BY <3>2 DEF BehindIsBrought
    <3> QED
      BY <1>2, <2>0, <3>1, <3>3 DEF SessionIInv, SessionTyped, Undisturbed, OnePresents,
           Presents, BringsTheRow, GivenUpIsSignedOut
  <2>4. blame' # {}
    BY <2>0
  <2> QED BY <2>1, <2>2, <2>3, <2>4 DEF SessionIInv
<1> QED BY <1>1, <1>2

LEMMA LoginSubmittedKeeps ==
  ASSUME SessionIInv, NEW t \in Tabs, LoginSubmitted(t)
  PROVE  SessionIInv'
<1>1. SessionTyped'
  <2>1. tab' \in [Tabs -> TabRecords]
    BY DEF SessionIInv, SessionTyped, LoginSubmitted, TabStates, TabRecords
  <2>2. exchange' \in [Tabs -> ExchangeRecords]
    BY DEF SessionIInv, SessionTyped, LoginSubmitted, NoExchange, Credentials, Exchanges,
           ExchangeRecords
  <2> QED BY <2>1, <2>2, TypedWhileSame DEF SessionIInv, SessionTyped, LoginSubmitted
<1>2. RowIsUnspent' /\ AnswerEndsExchange'
  BY DEF SessionIInv, SessionTyped, LoginSubmitted, RowIsUnspent, AnswerEndsExchange
<1>3. ASSUME ~Disturbed' PROVE Undisturbed'
  BY <1>3 DEF SessionIInv, SessionTyped, LoginSubmitted, Disturbed, Undisturbed,
       OnePresents, Presents, BringsTheRow, BehindIsBrought, GivenUpIsSignedOut, NoExchange
<1>4. ASSUME blame' = {} PROVE Unblemished'
  BY <1>4 DEF SessionIInv, SessionTyped, LoginSubmitted, Unblemished
<1> QED BY <1>1, <1>2, <1>3, <1>4 DEF SessionIInv


LEMMA LogOutKeeps ==
  ASSUME SessionIInv, NEW t \in Tabs, LogOut(t)
  PROVE  SessionIInv'
<1>1. SessionTyped'
  BY RestTyped, TypedWhileSame DEF SessionIInv, SessionTyped, LogOut, NoPair
<1>2. RowIsUnspent' /\ AnswerEndsExchange'
  BY DEF SessionIInv, SessionTyped, LogOut, RowIsUnspent, AnswerEndsExchange, Resting
<1>3. ASSUME ~Disturbed' PROVE Undisturbed'
  <2>1. Undisturbed /\ exchange[t].step = "none"
    BY <1>3 DEF SessionIInv, LogOut, Disturbed
  <2>2. OnePresents' /\ BringsTheRow'
    BY <2>1 DEF SessionIInv, SessionTyped, LogOut, Resting, Undisturbed, OnePresents,
                Presents, BringsTheRow
  <2>3. BehindIsBrought' /\ GivenUpIsSignedOut'
    BY DEF LogOut, BehindIsBrought, GivenUpIsSignedOut
  <2> QED BY <2>2, <2>3 DEF Undisturbed
<1>4. blame' # {}
  BY DEF LogOut
<1> QED BY <1>1, <1>2, <1>3, <1>4 DEF SessionIInv

LEMMA ChangePasswordKeeps ==
  ASSUME SessionIInv, NEW t \in Tabs, tab' = [tab EXCEPT ![t] = Resting], ChangePassword,
         UNCHANGED <<store, minted, lapsed, spent>>
  PROVE  SessionIInv'
<1>1. \A u \in Tabs : exchange'[u].step = exchange[u].step
  BY MarkTyped DEF SessionIInv, SessionTyped, ChangePassword
<1>2. exchange' \in [Tabs -> ExchangeRecords]
  BY MarkTyped DEF SessionIInv, SessionTyped, ChangePassword
<1>3. SessionTyped'
  BY <1>2, RestTyped, TypedWhileSame DEF SessionIInv, SessionTyped, ChangePassword, NoRow, NoPair
<1>4. RowIsUnspent' /\ AnswerEndsExchange'
  BY <1>1 DEF SessionIInv, SessionTyped, ChangePassword, NoRow, RowIsUnspent,
              AnswerEndsExchange, Resting
<1> QED BY <1>3, <1>4, DisturbedKeeps DEF ChangePassword, Disturbed

LEMMA AnsweredKeeps ==
  ASSUME SessionIInv, NEW t \in Tabs, Answered(t)
  PROVE  SessionIInv'
<1>1. CASE tab[t].request = userServiceGetMe
  <2>1. tab[t].pc = "asking" /\ tab' = [tab EXCEPT ![t] = Resting]
        /\ UNCHANGED <<store, row, minted, lapsed, exchange, blame, spent>>
    BY <1>1 DEF Answered
  <2>2. SessionTyped'
    BY <2>1, RestTyped, TypedWhileSame DEF SessionIInv, SessionTyped
  <2>3. RowIsUnspent' /\ AnswerEndsExchange'
    BY <2>1 DEF SessionIInv, SessionTyped, RowIsUnspent, AnswerEndsExchange, Resting
  <2>4. ASSUME ~Disturbed' PROVE Undisturbed'
    <3>1. Undisturbed
      BY <2>1, <2>4 DEF SessionIInv, Disturbed
    <3>2. OnePresents' /\ GivenUpIsSignedOut'
      BY <2>1, <3>1 DEF SessionIInv, SessionTyped, Resting, Undisturbed, OnePresents, Presents,
                        GivenUpIsSignedOut
    <3>3. BringsTheRow' /\ BehindIsBrought'
      BY <2>1, <3>1 DEF SessionIInv, SessionTyped, Resting, Undisturbed, BringsTheRow,
                        BehindIsBrought
    <3> QED BY <3>2, <3>3 DEF Undisturbed
  <2>5. ASSUME blame' = {} PROVE Unblemished'
    BY <2>1, <2>5 DEF SessionIInv, SessionTyped, Resting, Unblemished
  <2> QED BY <2>2, <2>3, <2>4, <2>5 DEF SessionIInv
<1>2. CASE tab[t].request # userServiceGetMe
  BY <1>2, ChangePasswordKeeps DEF Answered
<1> QED BY <1>1, <1>2

\* The row is read: what has been accepted is as it was, and a refresh that is
\* refused was sent after something had happened.
LEMMA ReadCredentialsKeeps ==
  ASSUME SessionIInv, NEW t \in Tabs, ReadCredentials(t)
  PROVE  SessionIInv'
<1>1. CASE Accepts(exchange[t].request)
  <2>1. exchange[t].step = "received" /\ exchange' = [exchange EXCEPT ![t].step = "read"]
        /\ UNCHANGED <<tab, store, row, minted, lapsed, blame, spent>>
    BY <1>1 DEF ReadCredentials
  <2>2. exchange' \in [Tabs -> ExchangeRecords] /\ exchange'[t].step = "read"
    BY <2>1, ReadTyped DEF SessionIInv, SessionTyped
  <2>3. \A u \in Tabs : exchange'[u].step = "none" <=> exchange[u].step = "none"
    BY <2>1, <2>2 DEF SessionIInv, SessionTyped
  <2>4. SessionTyped'
    BY <2>1, <2>2, TypedWhileSame DEF SessionIInv, SessionTyped
  <2>5. RowIsUnspent' /\ AnswerEndsExchange'
    BY <2>1, <2>3 DEF SessionIInv, RowIsUnspent, AnswerEndsExchange
  <2>6. ASSUME ~Disturbed' PROVE Undisturbed'
    BY <2>1, <2>3, <2>6 DEF SessionIInv, Disturbed, Undisturbed, OnePresents, Presents,
         BringsTheRow, BehindIsBrought, GivenUpIsSignedOut
  <2>7. ASSUME blame' = {} PROVE Unblemished'
    BY <2>1, <2>2, <2>7 DEF SessionIInv, SessionTyped, Unblemished
  <2> QED BY <2>4, <2>5, <2>6, <2>7 DEF SessionIInv
<1>2. CASE ~Accepts(exchange[t].request) /\ tab[t].pc = "refreshing"
  <2>1. exchange[t].step = "received" /\ exchange' = [exchange EXCEPT ![t] = NoExchange]
        /\ tab' = [tab EXCEPT ![t].pc = "failing"]
        /\ UNCHANGED <<store, row, minted, lapsed, blame, spent>>
    BY <1>2 DEF ReadCredentials, SessionIInv, SessionTyped
  <2>2. tab' \in [Tabs -> TabRecords] /\ tab'[t].pc = "failing"
    BY <2>1 DEF SessionIInv, SessionTyped, TabRecords, TabStates
  <2>3. SessionTyped'
    BY <2>1, <2>2, RestTyped, TypedWhileSame DEF SessionIInv, SessionTyped
  <2>4. RowIsUnspent' /\ AnswerEndsExchange'
    BY <2>1, <2>2 DEF SessionIInv, SessionTyped, RowIsUnspent, AnswerEndsExchange
  <2>5. ASSUME ~Disturbed' PROVE Undisturbed'
    <3>1. Undisturbed
      BY <2>1, <2>5 DEF SessionIInv, Disturbed
    <3>2. BehindIsBrought'
      BY <2>2 DEF BehindIsBrought
    <3>3. OnePresents' /\ BringsTheRow' /\ GivenUpIsSignedOut'
      BY <1>2, <2>1, <2>2, <3>1 DEF SessionIInv, SessionTyped, Undisturbed, OnePresents,
           Presents, BringsTheRow, GivenUpIsSignedOut
    <3> QED BY <3>2, <3>3 DEF Undisturbed
  <2>6. blame' # {}
    BY <1>2, <2>1 DEF SessionIInv, Unblemished, Accepts
  <2> QED BY <2>3, <2>4, <2>5, <2>6 DEF SessionIInv
<1>3. CASE ~Accepts(exchange[t].request) /\ tab[t].pc # "refreshing"
  <2>1. exchange[t].step = "received" /\ exchange' = [exchange EXCEPT ![t] = NoExchange]
        /\ tab' = tab /\ UNCHANGED <<store, row, minted, lapsed, blame, spent>>
    BY <1>3 DEF ReadCredentials, SessionIInv, SessionTyped, TabRecords
  <2>2. SessionTyped'
    BY <2>1, RestTyped, TypedWhileSame DEF SessionIInv, SessionTyped
  <2>3. RowIsUnspent' /\ AnswerEndsExchange'
    BY <2>1 DEF SessionIInv, SessionTyped, RowIsUnspent, AnswerEndsExchange, NoExchange
  <2>4. ASSUME ~Disturbed' PROVE Undisturbed'
    BY <2>1, <2>4 DEF SessionIInv, SessionTyped, NoExchange, Disturbed, Undisturbed,
         OnePresents, Presents, BringsTheRow, BehindIsBrought, GivenUpIsSignedOut
  <2>5. ASSUME blame' = {} PROVE Unblemished'
    BY <2>1, <2>5 DEF SessionIInv, SessionTyped, NoExchange, Unblemished
  <2> QED BY <2>2, <2>3, <2>4, <2>5 DEF SessionIInv
<1> QED BY <1>1, <1>2, <1>3

\* A pair is made: what has been typed stays typed.
LEMMA PairMade ==
  ASSUME SessionTyped, minted < MaxPairs, minted' = minted + 1
  PROVE  /\ minted' \in 1 .. MaxPairs /\ 0 .. minted \subseteq 0 .. minted'
         /\ TabRecords \subseteq TabRecords' /\ ExchangeRecords \subseteq ExchangeRecords'
<1>1. minted' \in 1 .. MaxPairs /\ 0 .. minted \subseteq 0 .. minted'
  BY SessionBounds DEF SessionTyped
<1>2. Credentials \subseteq Credentials'
  BY <1>1 DEF Credentials
<1> QED BY <1>1, <1>2 DEF TabRecords, NoExchanges, Exchanges, ExchangeRecords

\* What the tab makes of the new pair.
AnswerOf(t) ==
  CASE tab[t].pc = "refreshing" -> [tab[t] EXCEPT !.pc = "renewed", !.got = minted + 1]
    [] tab[t].pc = "login"      -> [tab[t] EXCEPT !.pc = "welcome", !.got = minted + 1]
    [] OTHER -> tab[t]

\* The new pair is in the row; whoever did not wait for it has given it up.
LEMMA UpsertKeeps ==
  ASSUME SessionIInv, NEW t \in Tabs, UpsertRefreshToken(t)
  PROVE  SessionIInv'
<1>1. /\ exchange[t].step = "read" /\ minted < MaxPairs /\ minted' = minted + 1
      /\ row' = [pair |-> minted + 1, cut |-> exchange[t].cut, expired |-> FALSE]
      /\ exchange' = [exchange EXCEPT ![t] = NoExchange]
      /\ tab' = [tab EXCEPT ![t] = AnswerOf(t)]
      /\ spent' = spent \union {exchange[t].request.data}
      /\ UNCHANGED <<store, lapsed>>
  BY DEF UpsertRefreshToken, AnswerOf, SessionIInv, SessionTyped
<1>2. /\ minted' \in 1 .. MaxPairs /\ 0 .. minted \subseteq 0 .. minted'
      /\ TabRecords \subseteq TabRecords' /\ ExchangeRecords \subseteq ExchangeRecords'
  BY <1>1, PairMade DEF SessionIInv
<1>3. exchange[t].request.data \in {Password} \union 0 .. minted
  BY <1>1, TabTyped DEF SessionIInv, Credentials, userServiceLogin, userServiceRefreshToken,
                        Post, Request
<1>4. AnswerOf(t) \in TabRecords' /\ exchange'[t] = NoExchange /\ tab'[t] = AnswerOf(t)
  <2>1. tab[t] \in TabRecords'
    BY <1>2 DEF SessionIInv, SessionTyped
  <2>2. minted + 1 \in 0 .. minted'
    BY <1>1, <1>2
  <2>3. AnswerOf(t) \in TabRecords'
    BY <2>1, <2>2 DEF AnswerOf, TabRecords, TabStates
  <2> QED BY <1>1, <2>3 DEF SessionIInv, SessionTyped
<1>5. \A u \in Tabs \ {t} : exchange'[u] = exchange[u] /\ tab'[u] = tab[u]
  BY <1>1 DEF SessionIInv, SessionTyped
<1>6. SessionTyped'
  <2>1. exchange' \in [Tabs -> ExchangeRecords']
    BY <1>1, <1>2, RestTyped DEF SessionIInv, SessionTyped
  <2>2. tab' \in [Tabs -> TabRecords']
    BY <1>1, <1>2, <1>4 DEF SessionIInv, SessionTyped
  <2>3. row' \in [pair : 0 .. minted', cut : BOOLEAN, expired : BOOLEAN]
    BY <1>1, <1>2, TabTyped DEF SessionIInv
  <2>4. store' \in 0 .. minted' /\ lapsed' \in 0 .. minted'
        /\ spent' \subseteq {Password} \union 0 .. minted'
    BY <1>1, <1>2, <1>3 DEF SessionIInv, SessionTyped
  <2> QED BY <1>2, <2>1, <2>2, <2>3, <2>4 DEF SessionTyped
<1>7. RowIsUnspent'
  BY <1>1, <1>3 DEF SessionIInv, SessionTyped, RowIsUnspent, Password
<1>8. AnswerEndsExchange'
  BY <1>4, <1>5 DEF SessionIInv, AnswerEndsExchange, NoExchange
<1>9. tab[t].pc \notin {"renewed", "welcome"}
  BY <1>1 DEF SessionIInv, AnswerEndsExchange
<1>10. /\ tab[t].pc = "refreshing" => tab'[t].pc = "renewed" /\ tab'[t].got = row'.pair
       /\ tab[t].pc = "login" => tab'[t].pc = "welcome" /\ tab'[t].got = row'.pair
       /\ tab[t].pc \notin {"refreshing", "login"} => tab'[t] = tab[t]
  <2>1. tab[t] \in TabRecords
    BY DEF SessionIInv, SessionTyped
  <2>2. row'.pair = minted + 1
    BY <1>1
  <2> QED BY <1>4, <2>1, <2>2 DEF AnswerOf, TabRecords
<1>11. ASSUME ~Disturbed' PROVE Undisturbed'
  <2>1. Undisturbed
    BY <1>11 DEF SessionIInv, UpsertRefreshToken, Disturbed
  <2>2. ~Racing(t)
    BY <1>11 DEF UpsertRefreshToken, Disturbed
  <2>3. ASSUME NEW u \in Tabs, u # t
        PROVE  /\ ~Presents(u)'
               /\ tab'[u].pc \notin {"renewed", "welcome"}
               /\ exchange'[u].step = "none"
    BY <1>5, <2>2, <2>3 DEF Presents, Racing
  <2>4. OnePresents'
    BY <2>3 DEF OnePresents
  <2>5. BringsTheRow'
    BY <1>9, <1>10, <2>3 DEF BringsTheRow
  <2>6. GivenUpIsSignedOut'
    BY <1>4, <2>3 DEF GivenUpIsSignedOut, NoExchange
  <2>7. BehindIsBrought'
    <3>1. CASE tab[t].pc \in {"refreshing", "login", "failing"}
      BY <1>10, <3>1 DEF BehindIsBrought
    <3>2. CASE tab[t].pc \notin {"refreshing", "login", "failing"}
      BY <1>1, <2>1, <3>2 DEF BehindIsBrought, Undisturbed, GivenUpIsSignedOut
    <3> QED BY <3>1, <3>2
  <2> QED BY <2>4, <2>5, <2>6, <2>7 DEF Undisturbed
<1>12. ASSUME blame' = {} PROVE Unblemished'
  <2>1. Unblemished /\ ~Racing(t)
    BY <1>12 DEF SessionIInv, UpsertRefreshToken
  <2>2. store' # NoPair /\ row'.pair # NoPair /\ ~row'.expired
    BY <1>1, <2>1 DEF Unblemished, SessionIInv, SessionTyped, NoPair
  <2>3. ASSUME NEW u \in Tabs
        PROVE  tab'[u].pc # "failing" /\ exchange'[u].step = "none"
    BY <1>4, <1>5, <1>10, <2>1 DEF Unblemished, Racing, NoExchange
  <2> QED BY <2>2, <2>3 DEF Unblemished
<1> QED BY <1>6, <1>7, <1>8, <1>11, <1>12 DEF SessionIInv

LEMMA RollBackKeeps ==
  ASSUME SessionIInv, NEW t \in Tabs, RollBack(t)
  PROVE  SessionIInv'
<1> DEFINE failed ==
      CASE tab[t].pc = "refreshing" -> [tab[t] EXCEPT !.pc = "failing"]
        [] tab[t].pc = "login"      -> Resting
        [] OTHER -> tab[t]
<1>1. /\ exchange[t].step = "read" /\ exchange' = [exchange EXCEPT ![t] = NoExchange]
      /\ tab' = [tab EXCEPT ![t] = failed]
      /\ UNCHANGED <<store, row, minted, lapsed, spent>>
  BY DEF RollBack, SessionIInv, SessionTyped
<1>2. failed \in TabRecords
      /\ failed.pc = (IF tab[t].pc = "refreshing" THEN "failing"
                      ELSE IF tab[t].pc = "login" THEN "idle" ELSE tab[t].pc)
  <2>1. tab[t] \in TabRecords
    BY DEF SessionIInv, SessionTyped
  <2> QED BY <2>1, RestTyped DEF SessionIInv, TabRecords, TabStates, Resting
<1>3. tab'[t] = failed /\ exchange'[t].step = "none"
      /\ \A u \in Tabs \ {t} : exchange'[u] = exchange[u] /\ tab'[u] = tab[u]
  BY <1>1 DEF SessionIInv, SessionTyped, NoExchange
<1> HIDE DEF failed
<1>4. SessionTyped'
  BY <1>1, <1>2, RestTyped, TypedWhileSame DEF SessionIInv, SessionTyped
<1>5. RowIsUnspent' /\ AnswerEndsExchange'
  BY <1>1, <1>3 DEF SessionIInv, RowIsUnspent, AnswerEndsExchange
<1>6. ASSUME ~Disturbed' PROVE Undisturbed'
  <2>1. Undisturbed
    BY <1>6 DEF SessionIInv, RollBack, Disturbed
  <2>2. tab[t].pc \notin {"renewed", "welcome"}
    BY <1>1 DEF SessionIInv, AnswerEndsExchange
  <2>3. ASSUME NEW u \in Tabs PROVE Presents(u)' => Presents(u)
    BY <1>1, <1>2, <1>3 DEF Presents
  <2>4. OnePresents'
    BY <2>1, <2>3 DEF Undisturbed, OnePresents
  <2>5. BringsTheRow'
    BY <1>1, <1>2, <1>3, <2>1, <2>2 DEF Undisturbed, BringsTheRow
  <2>6. BehindIsBrought'
    BY <1>1, <1>2, <1>3, <2>1, <2>2 DEF Undisturbed, BehindIsBrought
  <2>7. GivenUpIsSignedOut'
    BY <1>1, <1>3, <2>1 DEF Undisturbed, GivenUpIsSignedOut
  <2> QED BY <2>4, <2>5, <2>6, <2>7 DEF Undisturbed
<1>7. blame' # {}
  BY DEF RollBack
<1> QED BY <1>4, <1>5, <1>6, <1>7 DEF SessionIInv

LEMMA OtherDeviceKeeps ==
  ASSUME SessionIInv, OtherDevice
  PROVE  SessionIInv'
<1>1. /\ minted' \in 1 .. MaxPairs /\ 0 .. minted \subseteq 0 .. minted'
      /\ TabRecords \subseteq TabRecords' /\ ExchangeRecords \subseteq ExchangeRecords'
  BY PairMade DEF SessionIInv, OtherDevice
<1>2. SessionTyped'
  BY <1>1 DEF SessionIInv, SessionTyped, OtherDevice
<1>3. RowIsUnspent' /\ AnswerEndsExchange'
  BY DEF SessionIInv, SessionTyped, OtherDevice, RowIsUnspent, AnswerEndsExchange, Password
<1> QED BY <1>2, <1>3, DisturbedKeeps DEF OtherDevice, Disturbed

\* The refresh token expires: it is somebody's fault from then on.
LEMMA RefreshExpiresKeeps ==
  ASSUME SessionIInv, RefreshExpires
  PROVE  SessionIInv'
<1>1. row' \in [pair : 0 .. minted, cut : BOOLEAN, expired : BOOLEAN] /\ row'.pair = row.pair
  BY DEF SessionIInv, SessionTyped, RefreshExpires
<1>2. SessionTyped'
  BY <1>1, TypedWhileSame DEF SessionIInv, SessionTyped, RefreshExpires
<1>3. RowIsUnspent' /\ AnswerEndsExchange'
  BY <1>1 DEF SessionIInv, RefreshExpires, RowIsUnspent, AnswerEndsExchange
<1>4. ASSUME ~Disturbed' PROVE Undisturbed'
  BY <1>1, <1>4 DEF SessionIInv, RefreshExpires, Disturbed, Undisturbed, OnePresents, Presents,
       BringsTheRow, BehindIsBrought, GivenUpIsSignedOut
<1>5. blame' # {}
  BY DEF RefreshExpires
<1> QED BY <1>2, <1>3, <1>4, <1>5 DEF SessionIInv

LEMMA LapseKeeps ==
  ASSUME SessionIInv, Lapse
  PROVE  SessionIInv'
<1>1. SessionTyped'
  BY SameRecords DEF SessionIInv, SessionTyped, Lapse
<1> QED BY <1>1 DEF SessionIInv, Lapse, RowIsUnspent, AnswerEndsExchange, Disturbed, Undisturbed,
     OnePresents, Presents, BringsTheRow, BehindIsBrought, GivenUpIsSignedOut, Unblemished

LEMMA SessionNextKeeps == SessionIInv /\ [SessionNext]_sessionVars => SessionIInv'
<1> SUFFICES ASSUME SessionIInv, [SessionNext]_sessionVars PROVE SessionIInv'
  OBVIOUS
<1>1. CASE UNCHANGED sessionVars
  BY <1>1, SameRecords DEF sessionVars, SessionIInv, SessionTyped, RowIsUnspent,
     AnswerEndsExchange, Disturbed, Undisturbed, OnePresents, Presents, BringsTheRow,
     BehindIsBrought, GivenUpIsSignedOut, Unblemished
<1>2. CASE SessionNext
  BY <1>2, AskKeeps, UnauthorizedKeeps, TokensStoredKeeps, RefreshFailedKeeps,
     ConnectionLostKeeps, DroppedKeeps, RefreshExpiresKeeps, LoginSubmittedKeeps, LogOutKeeps, AnsweredKeeps,
     ReadCredentialsKeeps, UpsertKeeps, RollBackKeeps, OtherDeviceKeeps, LapseKeeps
     DEF SessionNext, SessionProgress
<1> QED BY <1>1, <1>2

LEMMA SessionAccounted == SessionIInv => SessionsAreAccounted
<1> SUFFICES ASSUME SessionIInv PROVE SessionsAreAccounted
  OBVIOUS
<1>1. StoreHoldsLivePair
  BY DEF SessionIInv, Disturbed, Undisturbed, BehindIsBrought, StoreHoldsLivePair, SessionAtRest
<1>2. SignedOutForAReason
  BY DEF SessionIInv, Unblemished, SignedOutForAReason
<1> QED BY <1>1, <1>2 DEF SessionsAreAccounted

\* No step of the server revives a token.
LEMMA TokensRefused == SessionIInv /\ [SessionNext]_sessionVars
    => [SpentTokensAreRefused /\ OldSessionsEnd]_sessionVars
<1> SUFFICES ASSUME SessionIInv, SessionNext PROVE SpentTokensAreRefused /\ OldSessionsEnd
  OBVIOUS
<1>1. ASSUME NEW t \in Tabs, exchange[t].step = "received", exchange'[t].step = "read"
      PROVE  exchange[t].request.data \notin spent \ {Password}
  <2>1. exchange'[t].step # exchange[t].step
    BY <1>1
  <2>2. ASSUME NEW u \in Tabs,
               Unauthorized(u) \/ LoginSubmitted(u) \/ UpsertRefreshToken(u) \/ RollBack(u)
        PROVE  FALSE
    <3>1. u # t
      BY <1>1, <2>1, <2>2 DEF Unauthorized, LoginSubmitted, UpsertRefreshToken, RollBack
    <3> QED
      BY <2>1, <2>2, <3>1 DEF SessionIInv, SessionTyped, Unauthorized, LoginSubmitted,
           UpsertRefreshToken, RollBack
  <2>3. ASSUME NEW u \in Tabs, Answered(u) PROVE FALSE
    BY <2>1, <2>3, MarkTyped DEF SessionIInv, SessionTyped, Answered, ChangePassword
  <2>4. ASSUME NEW u \in Tabs, ReadCredentials(u)
        PROVE  Accepts(exchange[t].request)
    <3>1. u = t
      BY <2>1, <2>4 DEF SessionIInv, SessionTyped, ReadCredentials
    <3> QED BY <1>1, <2>4, <3>1 DEF SessionIInv, SessionTyped, ReadCredentials, NoExchange
  <2>5. Accepts(exchange[t].request)
    BY <2>1, <2>2, <2>3, <2>4 DEF SessionNext, SessionProgress, Ask, TokensStored,
       RefreshFailed, ConnectionLost, Dropped, LoggedIn, LogOut, OtherDevice, RefreshExpires, Lapse
  <2> QED
    BY <2>5 DEF SessionIInv, RowIsUnspent, Accepts, userServiceLogin, userServiceRefreshToken,
         Post, Request
<1>2. ASSUME row'.cut, ~row.cut
      PROVE  \E t \in Tabs : exchange[t].step = "read" /\ exchange[t].cut
  <2>1. ASSUME NEW t \in Tabs, UpsertRefreshToken(t)
        PROVE  exchange[t].step = "read" /\ exchange[t].cut
    BY <1>2, <2>1 DEF UpsertRefreshToken
  <2>2. ASSUME NEW t \in Tabs, Answered(t) PROVE FALSE
    BY <1>2, <2>2 DEF Answered, ChangePassword, NoRow
  <2>3. CASE OtherDevice
    BY <1>2, <2>3 DEF OtherDevice
  <2>4. CASE RefreshExpires
    BY <1>2, <2>4 DEF SessionIInv, SessionTyped, RefreshExpires
  <2>5. row' # row
    BY <1>2
  <2> QED
    BY <2>1, <2>2, <2>3, <2>4, <2>5 DEF SessionNext, SessionProgress, Ask, Unauthorized,
         TokensStored, RefreshFailed, ConnectionLost, Dropped, LoginSubmitted, LoggedIn, LogOut,
         ReadCredentials, RollBack, Lapse
<1> QED BY <1>1, <1>2 DEF SpentTokensAreRefused, OldSessionsEnd

\* The invariant of the sessions, for any tabs, pairs and requests.
THEOREM SessionInvariant == ClientSpec => []SessionIInv
BY PartsImplemented, SessionInitIInv, SessionNextKeeps, PTL

\* At rest, a browser is signed in with the pair of the account's row or signed out,
\* and for a reason either way: the interceptor of api/client.ts, in any number
\* of tabs, against the row of refresh_tokens.
THEOREM SessionsCorrect == ClientSpec => []SessionsAreAccounted
BY SessionInvariant, SessionAccounted, PTL

\* A token that was exchanged, or issued for an old password, is not revived.
THEOREM TokensStayEnded == ClientSpec => TokensEnd
BY PartsImplemented, SessionInvariant, TokensRefused, PTL DEF TokensEnd

-----------------------------------------------------------------------------
(***************************************************************************)
(* The theme in the tabs.                                                   *)
(***************************************************************************)
ThemeTyped ==
  /\ themeStore \in Resolved \union {NoTheme}
  /\ theme \in [ThemeTabs -> Themes \union {NoTheme}]
  /\ applied \in [ThemeTabs -> Themes \union {NoTheme}]
  /\ htmlClass \in [ThemeTabs -> Resolved]
  /\ storageEvents \in [ThemeTabs -> Seq(Resolved)]
  /\ scheme \in Resolved
  /\ schemeSeen \subseteq ThemeTabs

StoredTheme == IF themeStore = NoTheme THEN "system" ELSE themeStore

\* An open tab shows the stored theme, or hears of it last.
HearsOfStore(t) ==
  /\ storageEvents[t] = <<>> => theme[t] = StoredTheme
  /\ storageEvents[t] # <<>> => storageEvents[t][Len(storageEvents[t])] = themeStore

\* The class of the document is the one of the theme that was applied, and of
\* the scheme if the tab has heard of it.
ClassIsApplied(t) ==
  /\ applied[t] \in Resolved => htmlClass[t] = applied[t]
  /\ applied[t] = "system" /\ t \in schemeSeen => htmlClass[t] = scheme

ThemeIInv ==
  /\ ThemeTyped
  /\ \A t \in ThemeTabs :
       /\ t \notin Opened => storageEvents[t] = <<>>
       /\ t \in Opened /\ t \notin uninformed => HearsOfStore(t)
       /\ ClassIsApplied(t)

LEMMA ThemeInitIInv == ThemeInit => ThemeIInv
BY DEF ThemeInit, ThemeIInv, ThemeTyped, Resolved, Themes, NoTheme, Opened, HearsOfStore,
       StoredTheme, ClassIsApplied

LEMMA OpenTabKeeps ==
  ASSUME ThemeIInv, NEW t \in ThemeTabs, OpenTab(t)
  PROVE  ThemeIInv'
<1>1. ThemeTyped'
  BY DEF ThemeIInv, ThemeTyped, OpenTab, Themes
<1>2. ASSUME NEW u \in ThemeTabs
      PROVE  (/\ u \notin Opened => storageEvents[u] = <<>>
              /\ u \in Opened /\ u \notin uninformed => HearsOfStore(u)
              /\ ClassIsApplied(u))'
  BY DEF ThemeIInv, ThemeTyped, OpenTab, Themes, Resolved, NoTheme, Opened, HearsOfStore,
         StoredTheme, ClassIsApplied
<1> QED BY <1>1, <1>2 DEF ThemeIInv

\* localStorage.setItem: every other open tab hears of the value last.
LEMMA SetThemeKeeps ==
  ASSUME ThemeIInv, NEW t \in ThemeTabs, NEW value \in Resolved, SetTheme(t, value)
  PROVE  ThemeIInv'
<1>1. ThemeTyped'
  BY DEF ThemeIInv, ThemeTyped, SetTheme, Themes
<1>2. ASSUME NEW u \in ThemeTabs
      PROVE  (u \notin Opened => storageEvents[u] = <<>>)'
  BY DEF ThemeIInv, ThemeTyped, SetTheme, Resolved, NoTheme, Opened
<1>3. ASSUME NEW u \in ThemeTabs, u \in Opened', u \notin uninformed'
      PROVE  HearsOfStore(u)'
  <2>1. u \in Opened /\ u \notin uninformed
    BY <1>3 DEF ThemeIInv, ThemeTyped, SetTheme, Opened, Resolved, NoTheme
  <2>2. HearsOfStore(u) /\ storageEvents[u] \in Seq(Resolved)
    BY <2>1 DEF ThemeIInv, ThemeTyped
  <2>3. CASE u = t
    BY <1>3, <2>2, <2>3
       DEF ThemeIInv, ThemeTyped, SetTheme, HearsOfStore, StoredTheme, Resolved, NoTheme
  <2>4. CASE u # t /\ value # themeStore
    BY <2>1, <2>2, <2>4 DEF SetTheme, HearsOfStore
  <2>5. CASE u # t /\ value = themeStore
    BY <2>1, <2>2, <2>5
       DEF ThemeIInv, ThemeTyped, SetTheme, HearsOfStore, StoredTheme
  <2> QED BY <2>3, <2>4, <2>5
<1>4. ASSUME NEW u \in ThemeTabs PROVE ClassIsApplied(u)'
  BY DEF ThemeIInv, SetTheme, ClassIsApplied
<1> QED BY <1>1, <1>2, <1>3, <1>4 DEF ThemeIInv

LEMMA handleStorageChangeKeeps ==
  ASSUME ThemeIInv, NEW t \in ThemeTabs, handleStorageChange(t)
  PROVE  ThemeIInv'
<1> DEFINE e == storageEvents[t]
<1>1. e \in Seq(Resolved) /\ e # <<>> /\ Head(e) \in Resolved /\ Tail(e) \in Seq(Resolved)
  BY DEF ThemeIInv, ThemeTyped, handleStorageChange
<1>2. t \in Opened
  BY <1>1 DEF ThemeIInv
<1>3. ThemeTyped'
  BY <1>1 DEF ThemeIInv, ThemeTyped, handleStorageChange, Themes
<1>4. ASSUME NEW u \in ThemeTabs, u # t
      PROVE  (/\ u \notin Opened => storageEvents[u] = <<>>
              /\ u \in Opened /\ u \notin uninformed => HearsOfStore(u))'
  BY <1>4 DEF ThemeIInv, ThemeTyped, handleStorageChange, Opened, HearsOfStore, StoredTheme
<1>5. t \in Opened'
  BY <1>1 DEF ThemeIInv, ThemeTyped, handleStorageChange, Opened, Resolved, NoTheme
<1>6. ASSUME t \notin uninformed' PROVE HearsOfStore(t)'
  <2>1. e[Len(e)] = themeStore
    BY <1>1, <1>2, <1>6 DEF ThemeIInv, handleStorageChange, HearsOfStore
  <2>2. themeStore' = themeStore /\ storageEvents'[t] = Tail(e) /\ theme'[t] = Head(e)
    BY DEF ThemeIInv, ThemeTyped, handleStorageChange
  <2>3. CASE Tail(e) = <<>>
    <3>1. Len(e) = 1
      <4>1. Len(Tail(e)) = Len(e) - 1 /\ Len(e) \in Nat
        BY <1>1
      <4>2. Len(<<>>) = 0
        OBVIOUS
      <4>3. Len(Tail(e)) = 0
        BY <2>3, <4>2, Zenon
      <4> QED BY <4>1, <4>3
    <3>2. Head(e) = themeStore /\ themeStore # NoTheme
      BY <1>1, <2>1, <3>1 DEF Resolved, NoTheme
    <3> QED BY <2>2, <2>3, <3>2 DEF HearsOfStore, StoredTheme
  <2>4. CASE Tail(e) # <<>>
    <3>1. Tail(e)[Len(Tail(e))] = e[Len(e)]
      BY <1>1, <2>4
    <3> QED BY <2>1, <2>2, <2>4, <3>1 DEF HearsOfStore
  <2> QED BY <2>3, <2>4
<1>7. ASSUME NEW u \in ThemeTabs PROVE ClassIsApplied(u)'
  BY DEF ThemeIInv, handleStorageChange, ClassIsApplied
<1> QED BY <1>3, <1>4, <1>5, <1>6, <1>7 DEF ThemeIInv

LEMMA ApplyThemeKeeps ==
  ASSUME ThemeIInv, NEW t \in ThemeTabs, ApplyTheme(t)
  PROVE  ThemeIInv'
<1>1. ThemeTyped'
  BY DEF ThemeIInv, ThemeTyped, ApplyTheme, Resolve, Themes, Resolved, Opened, NoTheme
<1>2. ASSUME NEW u \in ThemeTabs
      PROVE  (/\ u \notin Opened => storageEvents[u] = <<>>
              /\ u \in Opened /\ u \notin uninformed => HearsOfStore(u))'
  BY DEF ThemeIInv, ApplyTheme, Opened, HearsOfStore, StoredTheme
<1>3. ASSUME NEW u \in ThemeTabs PROVE ClassIsApplied(u)'
  BY DEF ThemeIInv, ThemeTyped, ApplyTheme, ClassIsApplied, Resolve, Resolved
<1> QED BY <1>1, <1>2, <1>3 DEF ThemeIInv

LEMMA SchemeChangesKeeps ==
  ASSUME ThemeIInv, SchemeChanges
  PROVE  ThemeIInv'
<1>1. ThemeTyped'
  BY DEF ThemeIInv, ThemeTyped, SchemeChanges, Resolved
<1>2. ASSUME NEW u \in ThemeTabs
      PROVE  (/\ u \notin Opened => storageEvents[u] = <<>>
              /\ u \in Opened /\ u \notin uninformed => HearsOfStore(u)
              /\ ClassIsApplied(u))'
  BY DEF ThemeIInv, SchemeChanges, Opened, HearsOfStore, StoredTheme, ClassIsApplied
<1> QED BY <1>1, <1>2 DEF ThemeIInv

LEMMA SchemeHeardKeeps ==
  ASSUME ThemeIInv, NEW t \in ThemeTabs, SchemeHeard(t)
  PROVE  ThemeIInv'
<1>1. ThemeTyped'
  BY DEF ThemeIInv, ThemeTyped, SchemeHeard
<1>2. ASSUME NEW u \in ThemeTabs
      PROVE  (/\ u \notin Opened => storageEvents[u] = <<>>
              /\ u \in Opened /\ u \notin uninformed => HearsOfStore(u))'
  BY DEF ThemeIInv, SchemeHeard, Opened, HearsOfStore, StoredTheme
<1>3. ASSUME NEW u \in ThemeTabs PROVE ClassIsApplied(u)'
  BY DEF ThemeIInv, ThemeTyped, SchemeHeard, ClassIsApplied, Resolved
<1> QED BY <1>1, <1>2, <1>3 DEF ThemeIInv

LEMMA ThemeNextKeeps == ThemeIInv /\ [ThemeNext]_themeVars => ThemeIInv'
<1> SUFFICES ASSUME ThemeIInv, [ThemeNext]_themeVars PROVE ThemeIInv'
  OBVIOUS
<1>1. ASSUME NEW t \in ThemeTabs, ThemeButton(t) \/ KeyDown(t) PROVE ThemeIInv'
  BY <1>1, SetThemeKeeps DEF ThemeButton, KeyDown, Resolved
<1>2. CASE UNCHANGED themeVars
  BY <1>2 DEF themeVars, ThemeIInv, ThemeTyped, Opened, HearsOfStore, StoredTheme,
              ClassIsApplied
<1> QED
  BY <1>1, <1>2, OpenTabKeeps, handleStorageChangeKeeps, ApplyThemeKeeps,
     SchemeChangesKeeps, SchemeHeardKeeps DEF ThemeNext, ThemeProgress

\* When every event has been handled, each tab shows the stored theme.
LEMMA ThemeShown == ThemeIInv => TabsShowStoredTheme
<1> SUFFICES ASSUME ThemeIInv, ThemeAtRest, NEW t \in Opened
             PROVE  /\ htmlClass[t] = Resolve(theme[t])
                    /\ t \notin uninformed =>
                         theme[t] = (IF themeStore = NoTheme THEN "system" ELSE themeStore)
  BY DEF TabsShowStoredTheme
<1>1. t \in ThemeTabs /\ theme[t] \in Themes /\ applied[t] = theme[t]
      /\ storageEvents[t] = <<>> /\ t \in schemeSeen
  BY DEF ThemeIInv, ThemeTyped, ThemeAtRest, Opened
<1>2. htmlClass[t] = Resolve(theme[t])
  BY <1>1 DEF ThemeIInv, ClassIsApplied, Resolve, Themes, Resolved
<1>3. t \notin uninformed => theme[t] = StoredTheme
  BY <1>1 DEF ThemeIInv, HearsOfStore
<1> QED BY <1>2, <1>3 DEF StoredTheme

\* When all events have been handled, every open tab of the browser shows the
\* theme that is stored, unless it changed the theme with another tab's change
\* still on its way, for any number of tabs and changes (theme-provider.tsx).
THEOREM ThemesAgree == ClientSpec => []TabsShowStoredTheme
BY PartsImplemented, ThemeInitIInv, ThemeNextKeeps, ThemeShown, PTL
=============================================================================
