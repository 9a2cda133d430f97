---------------------------- MODULE WebListProofs ----------------------------
(***************************************************************************)
(* Proofs about the parts of WebClient that read a list page by page, for   *)
(* any rows, page sizes and bounds: the messages, the lists of posts and    *)
(* the threads of replies.  As in WebPageProofs, each part's property is    *)
(* proved of the part alone and holds of the client by PartsImplemented.    *)
(* Last, from the invariants of all the parts, the types of the client.     *)
(***************************************************************************)
EXTENDS WebPageProofs

-----------------------------------------------------------------------------
(***************************************************************************)
(* Newest first: what a page of a list holds, for any finite set of rows    *)
(* numbered in the order of their creation.                                 *)
(***************************************************************************)
LEMMA HasMinimal ==
  ASSUME NEW F, IsFiniteSet(F), F # {}
  PROVE  \A U \in [F -> SUBSET F] :
           \E x \in F : \A y \in F : ~(U[y] \subseteq U[x] /\ U[y] # U[x])
<1> TAKE U \in [F -> SUBSET F]
<1> DEFINE T == {U[x] : x \in F}
<1>1. T \subseteq FiniteSubsetsOf(F) /\ T # {}
  BY FS_FiniteSubsetsOfFinite
<1>2. PICK A \in T : \A B \in T : <<B, A>> \notin StrictSubsetOrdering(F)
  BY <1>1, FS_StrictSubsetOrderingWellFounded, WFMin
<1>3. PICK x \in F : A = U[x]
  OBVIOUS
<1>4. \A y \in F : ~(U[y] \subseteq U[x] /\ U[y] # U[x])
  BY <1>2, <1>3 DEF StrictSubsetOrdering
<1> QED BY <1>4

LEMMA HasGreatest ==
  ASSUME NEW F \in SUBSET Nat, IsFiniteSet(F), F # {}
  PROVE  \E x \in F : \A y \in F : y <= x
<1>1. PICK U \in [F -> SUBSET F] : \A x \in F : U[x] = {n \in F : n > x}
  <2>1. [x \in F |-> {n \in F : n > x}] \in [F -> SUBSET F]
    OBVIOUS
  <2> QED BY <2>1
<1>2. PICK x \in F : \A y \in F : ~(U[y] \subseteq U[x] /\ U[y] # U[x])
  <2>1. IsFiniteSet(F) /\ F # {}
    OBVIOUS
  <2>2. \A V \in [F -> SUBSET F] :
          \E x \in F : \A y \in F : ~(V[y] \subseteq V[x] /\ V[y] # V[x])
    BY <2>1, HasMinimal, Zenon
  <2> QED BY <1>1, <2>2, Zenon
<1>3. ASSUME NEW y \in F, y > x PROVE FALSE
  <2>1. x \in Nat /\ y \in Nat /\ \A n \in F : n \in Nat
    OBVIOUS
  <2>2. \A n \in U[y] : n \in U[x]
    BY <1>1, <1>3, <2>1
  <2>3. y \in U[x] /\ y \notin U[y]
    BY <1>1, <1>3, <2>1
  <2> QED BY <1>2, <2>2, <2>3
<1> QED BY <1>3

LEMMA HasLeast ==
  ASSUME NEW F \in SUBSET Nat, IsFiniteSet(F), F # {}
  PROVE  /\ Min(F) \in F
         /\ \A y \in F : Min(F) <= y
<1>1. PICK U \in [F -> SUBSET F] : \A x \in F : U[x] = {n \in F : n < x}
  <2>1. [x \in F |-> {n \in F : n < x}] \in [F -> SUBSET F]
    OBVIOUS
  <2> QED BY <2>1
<1>2. PICK x \in F : \A y \in F : ~(U[y] \subseteq U[x] /\ U[y] # U[x])
  <2>1. IsFiniteSet(F) /\ F # {}
    OBVIOUS
  <2>2. \A V \in [F -> SUBSET F] :
          \E x \in F : \A y \in F : ~(V[y] \subseteq V[x] /\ V[y] # V[x])
    BY <2>1, HasMinimal, Zenon
  <2> QED BY <1>1, <2>2, Zenon
<1>3. ASSUME NEW y \in F, y < x PROVE FALSE
  <2>1. x \in Nat /\ y \in Nat /\ \A n \in F : n \in Nat
    OBVIOUS
  <2>2. \A n \in U[y] : n \in U[x]
    BY <1>1, <1>3, <2>1
  <2>3. y \in U[x] /\ y \notin U[y]
    BY <1>1, <1>3, <2>1
  <2> QED BY <1>2, <2>2, <2>3
<1>4. \A y \in F : x =< y
  BY <1>3
<1> QED BY <1>4 DEF Min

Newest(rows, limit) == {m \in rows : Cardinality({n \in rows : n > m}) < limit}

\* A page of a list that is not empty has a row, and what is not on it comes
\* before all of it.
LEMMA NewestFirst ==
  ASSUME NEW F \in SUBSET Nat, IsFiniteSet(F), NEW limit \in Nat \ {0}
  PROVE  /\ F # {} => Newest(F, limit) # {}
         /\ \A m \in F \ Newest(F, limit) : \A n \in Newest(F, limit) : m < n
<1> DEFINE Above(m) == {n \in F : n > m}
<1>1. \A m \in F : IsFiniteSet(Above(m)) /\ Cardinality(Above(m)) \in Nat
  BY FS_Subset, FS_CardinalityType
<1>2. ASSUME F # {} PROVE Newest(F, limit) # {}
  <2>1. PICK x \in F : \A y \in F : y <= x
    BY <1>2, HasGreatest
  <2>2. Above(x) = {}
    <3>1. \A n \in F : n \in Nat /\ n <= x
      BY <2>1
    <3>2. \A n \in F : ~(n > x)
      BY <3>1
    <3> QED BY <3>2
  <2>3. Cardinality(Above(x)) = 0
    BY <2>2, FS_EmptySet
  <2> QED BY <2>3 DEF Newest
<1>3. ASSUME NEW m \in F, m \notin Newest(F, limit), NEW n \in Newest(F, limit)
      PROVE  m < n
  <2> SUFFICES ASSUME n <= m PROVE FALSE
    BY DEF Newest
  <2>1. n \in F /\ Cardinality(Above(n)) < limit /\ ~(Cardinality(Above(m)) < limit)
    BY <1>3 DEF Newest
  <2>2. Above(m) \in SUBSET Above(n)
    <3>1. \A k \in F : k \in Nat
      OBVIOUS
    <3>2. \A k \in F : k > m => k > n
      BY <2>1, <3>1
    <3> QED BY <3>2
  <2>3. Cardinality(Above(m)) <= Cardinality(Above(n))
    BY <1>1, <2>1, <2>2, FS_Subset
  <2> HIDE DEF Above
  <2> QED BY <1>1, <2>1, <2>3
<1> QED BY <1>2, <1>3

TokenOf(rows, at) == IF rows = {} THEN NoToken ELSE at[Min(rows)]

\* The token of a page is not before any row that is left out, if seconds go
\* with the order of the rows.
LEMMA TokenCovers ==
  ASSUME NEW S \in SUBSET Nat, IsFiniteSet(S), NEW at \in [S -> Nat \ {0}],
         \A m, n \in S : m < n => at[m] <= at[n],
         NEW F \in SUBSET S, NEW limit \in Nat \ {0}
  PROVE  /\ TokenOf(Newest(F, limit), at) \in Nat
         /\ TokenOf(Newest(F, limit), at) # NoToken <=> Newest(F, limit) # {}
         /\ \A m \in F : m \in Newest(F, limit) \/ at[m] <= TokenOf(Newest(F, limit), at)
<1> DEFINE rows == Newest(F, limit)
<1>1. IsFiniteSet(F) /\ F \in SUBSET Nat /\ rows \subseteq F
  BY FS_Subset DEF Newest
<1>2. /\ F # {} => rows # {}
      /\ \A m \in F \ rows : \A n \in rows : m < n
  BY <1>1, NewestFirst
<1> HIDE DEF rows
<1>3. CASE rows = {}
  <2>1. F = {}
    BY <1>2, <1>3
  <2> QED BY <1>3, <2>1 DEF TokenOf, NoToken, rows
<1>4. CASE rows # {}
  <2>1. IsFiniteSet(rows) /\ rows \in SUBSET Nat
    BY <1>1, FS_Subset
  <2>2. Min(rows) \in rows
    BY <1>4, <2>1, HasLeast
  <2>3. TokenOf(rows, at) = at[Min(rows)] /\ at[Min(rows)] \in Nat \ {0}
    BY <1>1, <1>4, <2>2 DEF TokenOf
  <2>4. \A m \in F \ rows : at[m] <= at[Min(rows)]
    BY <1>1, <1>2, <2>2
  <2> QED BY <1>4, <2>3, <2>4 DEF NoToken, rows
<1> QED BY <1>3, <1>4

-----------------------------------------------------------------------------
(***************************************************************************)
(* The messages.                                                            *)
(***************************************************************************)
LEMMA InboxBounds ==
  /\ IsFiniteSet(Messages) /\ Messages \in SUBSET Nat
  /\ MessagesPerPage \in Nat \ {0}
  /\ MessageSecond \in [Messages -> Nat \ {0}]
  /\ \A m, n \in Messages : m < n => MessageSecond[m] <= MessageSecond[n]
  /\ MaxViews \in Nat /\ MaxMarks \in Nat /\ MaxInboxFaults \in Nat
BY InboxAssumption

InboxPages == [rows : SUBSET Messages, token : Nat]
InboxRuns  == [kind : {"none", "all", "next"}, built : Seq(InboxPages), pages : Nat]
Marks      == [step : {"none", "PATCH", "marked"}, category : Categories \union {"none"}]

OfCategory(m, k) == (m \in FollowMessages) = (k[1] = "follow")

\* The old messages of a category are marked, or share their second with the
\* token of a page, or are asked for by the token of the last page.
Accounted(marks, k, ps) ==
  ps # <<>> =>
    \A m \in Messages \ LaterMessages : OfCategory(m, k) =>
      \/ m \in marks
      \/ \E i \in DOMAIN ps : ps[i].token = MessageSecond[m]
      \/ MessageSecond[m] < LastToken(ps)

\* A page with a token has rows.
TokensHaveRows(ps) == \A i \in DOMAIN ps : ps[i].token # NoToken => ps[i].rows # {}

InboxTyped ==
  /\ inboxView \in InboxKeys \union {NoView}
  /\ sent \subseteq Messages /\ Messages \ LaterMessages \subseteq sent
  /\ isRead \subseteq sent
  /\ inbox \in [InboxKeys -> Seq(InboxPages)]
  /\ inboxRun \in InboxRuns
  /\ marking \in Marks /\ (marking.step # "none" => marking.category \in Categories)
  /\ inboxView = NoView => inboxRun.kind = "none" /\ marking.step = "none"

InboxIInv ==
  /\ InboxTyped
  /\ ReadWasShown
  /\ \A k \in InboxKeys : Accounted(isRead, k, inbox[k]) /\ TokensHaveRows(inbox[k])
  /\ inboxRun.kind # "none" => /\ Accounted(isRead, inboxView, inboxRun.built)
                               /\ TokensHaveRows(inboxRun.built)

LEMMA InboxInitIInv == InboxInit => InboxIInv
<1> SUFFICES ASSUME InboxInit PROVE InboxIInv
  OBVIOUS
<1>1. /\ NoRun \in InboxRuns /\ NoRun.kind = "none" /\ NoRun.built = <<>>
      /\ NoMark \in Marks /\ NoMark.step = "none"
  BY DEF NoRun, InboxRuns, NoMark, Marks
<1>2. InboxTyped
  BY <1>1 DEF InboxInit, InboxTyped
<1>3. ReadWasShown
  BY DEF InboxInit, ReadWasShown
<1>4. \A k \in InboxKeys : inbox[k] = <<>>
  BY DEF InboxInit
<1>5. \A k \in InboxKeys : Accounted(isRead, k, inbox[k]) /\ TokensHaveRows(inbox[k])
  BY <1>4 DEF Accounted, TokensHaveRows
<1> QED BY <1>1, <1>2, <1>3, <1>5 DEF InboxIInv, InboxInit

\* Marks are never taken back.
LEMMA AccountedStays ==
  \A marks, more, k, ps : marks \subseteq more /\ Accounted(marks, k, ps) => Accounted(more, k, ps)
BY DEF Accounted

\* What the server answers, and marks.
LEMMA ListedFacts ==
  ASSUME InboxTyped, NEW k \in InboxKeys, NEW token \in Nat
  PROVE  LET listed == Listed(ListRequest(k, token))
         IN  /\ listed.page \in InboxPages
             /\ listed.isRead = isRead \union listed.page.rows
             /\ listed.isRead \subseteq sent
             /\ listed.page.token # NoToken => listed.page.rows # {}
             /\ \A m \in Messages \ LaterMessages :
                  OfCategory(m, k) /\ (token = NoToken \/ MessageSecond[m] < token) =>
                    m \in listed.isRead \/ MessageSecond[m] <= listed.page.token
<1> DEFINE listed == Listed(ListRequest(k, token))
           own    == sent \intersect (IF k[1] = "follow" THEN FollowMessages
                                      ELSE Messages \ FollowMessages)
           older  == {m \in own : /\ token = NoToken \/ MessageSecond[m] < token
                                  /\ k[2] = "unread" => m \notin isRead}
           rows   == Newest(older, MessagesPerPage)
<1>1. k[1] \in Categories /\ k[2] \in Statuses
  BY DEF InboxKeys
<1>2. listed = [page |-> [rows |-> rows, token |-> TokenOf(rows, MessageSecond)],
                isRead |-> isRead \union rows]
  <2>1. /\ ListRequest(k, token).data.filter = k[2] /\ ListRequest(k, token).data.token = token
        /\ ListRequest(k, token).path = messageServiceListFollowInboxMessages(Nothing).path
             <=> k[1] = "follow"
    <3>1. CASE k[1] = "follow"
      BY <3>1 DEF ListRequest, messageServiceListFollowInboxMessages, Get, Request
    <3>2. CASE k[1] # "follow"
      BY <3>2 DEF ListRequest, messageServiceListFollowInboxMessages,
                  messageServiceListCommentInboxMessages, Get, Request
    <3> QED BY <3>1, <3>2
  <2> DEFINE request == ListRequest(k, token)
             mine    == sent \intersect
                          (IF request.path = messageServiceListFollowInboxMessages(Nothing).path
                           THEN FollowMessages ELSE Messages \ FollowMessages)
             before  ==
               {m \in mine : /\ request.data.token = NoToken \/ MessageSecond[m] < request.data.token
                             /\ request.data.filter = "unread" => m \notin isRead}
  <2>2. mine = own
    BY <2>1
  <2>3. before = older
    <3>1. request.data.filter = k[2] /\ request.data.token = token
      BY <2>1
    <3> HIDE DEF request, mine, own
    <3> QED BY <2>2, <3>1
  <2>4. listed = [page |-> [rows |-> Newest(before, MessagesPerPage),
                            token |-> TokenOf(Newest(before, MessagesPerPage), MessageSecond)],
                  isRead |-> isRead \union Newest(before, MessagesPerPage)]
    <3> HIDE DEF request
    <3> QED BY DEF Listed, Newest, TokenOf, request
  <2> QED BY <2>3, <2>4
<1>3. older \in SUBSET Messages /\ rows \subseteq older /\ rows \subseteq sent
  BY DEF InboxTyped, Newest
<1> HIDE DEF rows, older, own, listed
<1>4. /\ TokenOf(rows, MessageSecond) \in Nat
      /\ TokenOf(rows, MessageSecond) # NoToken <=> rows # {}
      /\ \A m \in older : m \in rows \/ MessageSecond[m] <= TokenOf(rows, MessageSecond)
  BY <1>3, InboxBounds, TokenCovers DEF rows
<1>5. /\ listed.page.rows = rows /\ listed.page.token = TokenOf(rows, MessageSecond)
      /\ listed.isRead = isRead \union rows
      /\ listed.page = [rows |-> rows, token |-> TokenOf(rows, MessageSecond)]
  BY <1>2
<1>6. listed.page \in InboxPages
  BY <1>3, <1>4, <1>5 DEF InboxPages
<1>7. ASSUME NEW m \in Messages \ LaterMessages, OfCategory(m, k),
             token = NoToken \/ MessageSecond[m] < token, m \notin isRead
      PROVE  m \in older
  BY <1>1, <1>7 DEF older, own, InboxTyped, OfCategory
<1>8. listed.isRead \subseteq sent
  BY <1>3, <1>5 DEF InboxTyped
<1> QED BY <1>4, <1>5, <1>6, <1>7, <1>8 DEF listed

LEMMA LastTokenTyped ==
  ASSUME NEW ps \in Seq(InboxPages)
  PROVE  /\ LastToken(ps) \in Nat
         /\ ps # <<>> => LastToken(ps) = ps[Len(ps)].token /\ Len(ps) \in DOMAIN ps
         /\ HasNext(ps) <=> LastToken(ps) # NoToken
<1>1. CASE ps = <<>>
  BY <1>1 DEF LastToken, HasNext, NoToken
<1>2. CASE ps # <<>>
  <2>1. Len(ps) \in DOMAIN ps /\ ps[Len(ps)] \in InboxPages
    BY <1>2
  <2> QED BY <1>2, <2>1 DEF LastToken, HasNext, Last, InboxPages
<1> QED BY <1>1, <1>2

\* A further page accounts for what the pages before it have left.
LEMMA PageAccounts ==
  ASSUME InboxTyped, NEW k \in InboxKeys, NEW ps \in Seq(InboxPages),
         ps = <<>> \/ LastToken(ps) # NoToken,
         Accounted(isRead, k, ps), TokensHaveRows(ps)
  PROVE  LET listed == Listed(ListRequest(k, LastToken(ps)))
             more   == Append(ps, listed.page)
         IN  /\ more \in Seq(InboxPages)
             /\ Accounted(listed.isRead, k, more)
             /\ TokensHaveRows(more)
             /\ Rows(more) = Rows(ps) \union listed.page.rows
<1> DEFINE listed == Listed(ListRequest(k, LastToken(ps)))
           page   == listed.page
           more   == Append(ps, page)
<1>1. /\ page \in InboxPages
      /\ listed.isRead = isRead \union page.rows
      /\ page.token # NoToken => page.rows # {}
      /\ \A m \in Messages \ LaterMessages :
           OfCategory(m, k) /\ (LastToken(ps) = NoToken \/ MessageSecond[m] < LastToken(ps)) =>
             m \in listed.isRead \/ MessageSecond[m] <= page.token
  BY LastTokenTyped, ListedFacts
<1> HIDE DEF listed, page
<1>2. /\ more \in Seq(InboxPages) /\ more # <<>>
      /\ DOMAIN more = DOMAIN ps \union {Len(ps) + 1}
      /\ \A i \in DOMAIN ps : more[i] = ps[i]
      /\ more[Len(ps) + 1] = page
      /\ Len(more) = Len(ps) + 1
  BY <1>1
<1> HIDE DEF more
<1>3. LastToken(more) = page.token
  BY <1>2, LastTokenTyped
<1>4. Accounted(listed.isRead, k, more)
  <2> SUFFICES ASSUME NEW m \in Messages \ LaterMessages, OfCategory(m, k)
               PROVE  \/ m \in listed.isRead
                      \/ \E i \in DOMAIN more : more[i].token = MessageSecond[m]
                      \/ MessageSecond[m] < LastToken(more)
    BY DEF Accounted
  <2>1. MessageSecond[m] \in Nat /\ page.token \in Nat
    BY <1>1, InboxBounds DEF InboxPages
  <2>2. CASE ps = <<>> \/ MessageSecond[m] < LastToken(ps)
    <3>1. m \in listed.isRead \/ MessageSecond[m] <= page.token
      BY <1>1, <2>2 DEF LastToken
    <3> QED BY <1>2, <1>3, <2>1, <3>1
  <2>3. CASE ps # <<>> /\ ~(MessageSecond[m] < LastToken(ps))
    <3>1. m \in isRead \/ \E i \in DOMAIN ps : ps[i].token = MessageSecond[m]
      BY <2>3 DEF Accounted
    <3> QED BY <1>1, <1>2, <3>1
  <2> QED BY <2>2, <2>3
<1>5. TokensHaveRows(more)
  BY <1>1, <1>2 DEF TokensHaveRows
<1>6. Rows(more) = Rows(ps) \union page.rows
  BY <1>2 DEF Rows
<1> QED BY <1>2, <1>4, <1>5, <1>6 DEF listed, page, more

\* A run that is not finished goes on with the token of its last page.
LEMMA RunGoesOn ==
  ASSUME NEW run \in InboxRuns, ~RunFinished(run)
  PROVE  run.built = <<>> \/ LastToken(run.built) # NoToken
<1>1. run.built \in Seq(InboxPages)
  BY DEF InboxRuns
<1> QED BY <1>1, LastTokenTyped DEF RunFinished

\* A run that is given up leaves marks on record.
LEMMA AbandonFacts ==
  ASSUME InboxTyped, ReadWasShown, Abandon(inboxView, inboxRun), seen' = seen
  PROVE  /\ isRead \subseteq isRead' /\ isRead' \subseteq sent
         /\ isRead' \subseteq seen' \union unseen'
<1>1. isRead \subseteq isRead' /\ isRead' \subseteq sent
  <2>1. CASE inboxRun.kind = "none" \/ RunFinished(inboxRun)
    BY <2>1 DEF Abandon, InboxTyped
  <2>2. CASE ~(inboxRun.kind = "none" \/ RunFinished(inboxRun))
    <3>1. inboxView \in InboxKeys /\ LastToken(inboxRun.built) \in Nat
      BY <2>2, LastTokenTyped DEF InboxTyped, InboxRuns
    <3> DEFINE listed == Listed(ListRequest(inboxView, LastToken(inboxRun.built)))
    <3>2. listed.isRead = isRead \union listed.page.rows /\ listed.isRead \subseteq sent
      BY <3>1, ListedFacts
    <3>3. isRead' \in {isRead, listed.isRead}
      BY <2>2 DEF Abandon
    <3> HIDE DEF listed
    <3> QED BY <3>2, <3>3 DEF InboxTyped
  <2> QED BY <2>1, <2>2
<1>2. unseen' = unseen \union (isRead' \ isRead) \union Rows(inboxRun.built)
  BY DEF Abandon
<1> QED BY <1>1, <1>2 DEF ReadWasShown

LEMMA AllRunTyped ==
  ASSUME NEW n \in Nat
  PROVE  AllRun(n) \in InboxRuns /\ AllRun(n).kind = "all" /\ AllRun(n).built = <<>>
BY DEF AllRun, InboxRuns

\* A run from the start accounts for nothing yet.
LEMMA FreshRun ==
  ASSUME NEW k, NEW marks
  PROVE  Accounted(marks, k, <<>>) /\ TokensHaveRows(<<>>) /\ Rows(<<>>) = {}
BY DEF Accounted, TokensHaveRows, Rows

\* The lists stay accounted for as long as marks and messages only grow.
LEMMA ListsStay ==
  ASSUME InboxIInv, isRead \subseteq isRead', inbox' = inbox
  PROVE  \A k \in InboxKeys : Accounted(isRead', k, inbox'[k]) /\ TokensHaveRows(inbox'[k])
BY AccountedStays DEF InboxIInv

LEMMA ShowViewKeeps ==
  ASSUME InboxIInv, NEW key \in InboxKeys, ShowView(key),
         UNCHANGED <<sent, inbox, seen>>, marking' \in Marks,
         marking'.step # "none" => marking'.category \in Categories
  PROVE  InboxIInv'
<1>1. inboxView' = key /\ Abandon(inboxView, inboxRun)
  BY DEF ShowView
<1>2. /\ isRead \subseteq isRead' /\ isRead' \subseteq sent
      /\ isRead' \subseteq seen' \union unseen'
  BY <1>1, AbandonFacts DEF InboxIInv
<1>3. inboxRun' \in InboxRuns /\ inboxRun'.kind = "all" /\ inboxRun'.built = <<>>
  <2>1. Len(inbox[key]) \in Nat
    BY DEF InboxIInv, InboxTyped
  <2>2. Max({1, Len(inbox[key])}) \in Nat
    <3>1. \E x \in {1, Len(inbox[key])} : \A y \in {1, Len(inbox[key])} : x >= y
      BY <2>1
    <3>2. Max({1, Len(inbox[key])}) \in {1, Len(inbox[key])}
      BY <3>1 DEF Max
    <3> QED BY <2>1, <3>2
  <2> QED BY <2>2, AllRunTyped DEF ShowView
<1>4. key # NoView
  BY DEF NoView, InboxKeys, Categories
<1>5. InboxTyped'
  BY <1>1, <1>2, <1>3, <1>4 DEF InboxIInv, InboxTyped
<1>6. ReadWasShown'
  BY <1>2 DEF ReadWasShown
<1>7. /\ Accounted(isRead', inboxView', inboxRun'.built)
      /\ TokensHaveRows(inboxRun'.built)
  BY <1>3, FreshRun
<1> QED BY <1>2, <1>5, <1>6, <1>7, ListsStay DEF InboxIInv

LEMMA ChangeViewKeeps ==
  ASSUME InboxIInv,
         \/ MessagesMount
         \/ \E category \in Categories : handleCategoryChange(category)
         \/ \E status \in Statuses : handleStatusChange(status)
  PROVE  InboxIInv'
<1>1. /\ UNCHANGED <<sent, inbox, marking, seen>>
      /\ \E key \in InboxKeys : ShowView(key)
  <2>1. CASE MessagesMount
    <3>1. <<"follow", "unread">> \in InboxKeys
      BY DEF InboxKeys, Categories, Statuses
    <3> QED BY <2>1, <3>1 DEF MessagesMount
  <2>2. ASSUME NEW category \in Categories, handleCategoryChange(category)
        PROVE  <1>1
    <3>1. <<category, "unread">> \in InboxKeys
      BY DEF InboxKeys, Statuses
    <3> QED BY <2>2, <3>1 DEF handleCategoryChange
  <2>3. ASSUME NEW status \in Statuses, handleStatusChange(status)
        PROVE  <1>1
    <3>1. inboxView \in InboxKeys
      BY <2>3 DEF handleStatusChange, InboxIInv, InboxTyped
    <3>2. <<inboxView[1], status>> \in InboxKeys
      BY <3>1 DEF InboxKeys
    <3> QED BY <2>3, <3>2 DEF handleStatusChange
  <2> QED BY <2>1, <2>2, <2>3
<1> QED BY <1>1, ShowViewKeeps DEF InboxIInv, InboxTyped

LEMMA MarkedAllKeeps == InboxIInv /\ MarkedAll => InboxIInv'
<1> SUFFICES ASSUME InboxIInv, MarkedAll PROVE InboxIInv'
  OBVIOUS
<1>1. marking' = NoMark /\ NoMark \in Marks /\ NoMark.step = "none"
  BY DEF MarkedAll, NoMark, Marks
<1>2. UNCHANGED <<sent, inbox, seen>> /\ inboxView # NoView
  BY DEF MarkedAll, InboxIInv, InboxTyped
<1>3. CASE UNCHANGED <<inboxView, inboxRun, isRead, unseen>>
  <2>1. InboxTyped' /\ ReadWasShown'
    BY <1>1, <1>2, <1>3 DEF InboxIInv, InboxTyped, ReadWasShown
  <2> QED BY <1>2, <1>3, <2>1 DEF InboxIInv
<1>4. CASE ShowView(<<marking.category, "all">>)
  <2>1. <<marking.category, "all">> \in InboxKeys
    BY DEF MarkedAll, InboxIInv, InboxTyped, InboxKeys, Statuses
  <2> QED BY <1>1, <1>2, <1>4, <2>1, ShowViewKeeps
<1> QED BY <1>3, <1>4 DEF MarkedAll

LEMMA InboxFocusKeeps == InboxIInv /\ InboxFocus => InboxIInv'
<1> SUFFICES ASSUME InboxIInv, InboxFocus PROVE InboxIInv'
  OBVIOUS
<1>1. inboxView \in InboxKeys /\ inboxRun = NoRun /\ NoRun.built = <<>>
  BY DEF InboxFocus, InboxIInv, InboxTyped, NoRun
<1>2. inboxRun' \in InboxRuns /\ inboxRun'.kind = "all" /\ inboxRun'.built = <<>>
  BY <1>1, AllRunTyped DEF InboxFocus, InboxIInv, InboxTyped
<1>3. UNCHANGED <<inboxView, sent, isRead, inbox, marking, seen, unseen>>
  BY DEF InboxFocus
<1>4. InboxTyped'
  BY <1>1, <1>2, <1>3 DEF InboxIInv, InboxTyped, InboxFocus
<1>5. ReadWasShown'
  BY <1>1, <1>2, <1>3 DEF InboxIInv, ReadWasShown
<1>6. Accounted(isRead', inboxView', inboxRun'.built) /\ TokensHaveRows(inboxRun'.built)
  BY <1>2, FreshRun
<1> QED BY <1>3, <1>4, <1>5, <1>6, ListsStay DEF InboxIInv

LEMMA InboxLoadMoreKeeps == InboxIInv /\ InboxLoadMore => InboxIInv'
<1> SUFFICES ASSUME InboxIInv, InboxLoadMore PROVE InboxIInv'
  OBVIOUS
<1>1. /\ inboxView \in InboxKeys /\ inboxView' = inboxView
      /\ UNCHANGED <<sent, inbox, marking, seen>>
      /\ inboxRun' = NextRun(inbox[inboxView])
  BY DEF InboxLoadMore, InboxIInv, InboxTyped
<1>2. /\ isRead \subseteq isRead' /\ isRead' \subseteq sent
      /\ isRead' \subseteq seen' \union unseen'
  BY AbandonFacts DEF InboxLoadMore, InboxIInv
<1>3. /\ inbox[inboxView] \in Seq(InboxPages)
      /\ Len(inbox[inboxView]) + 1 \in Nat
  BY <1>1 DEF InboxIInv, InboxTyped
<1>4. /\ inboxRun' \in InboxRuns /\ inboxRun'.kind = "next"
      /\ inboxRun'.built = inbox'[inboxView']
  BY <1>1, <1>3 DEF NextRun, InboxRuns
<1>5. InboxTyped'
  BY <1>1, <1>2, <1>4 DEF InboxIInv, InboxTyped, InboxLoadMore
<1>6. ReadWasShown'
  BY <1>2 DEF ReadWasShown
<1>7. \A k \in InboxKeys : Accounted(isRead', k, inbox'[k]) /\ TokensHaveRows(inbox'[k])
  BY <1>1, <1>2, ListsStay
<1> QED BY <1>1, <1>4, <1>5, <1>6, <1>7 DEF InboxIInv

LEMMA MessagesServedKeeps == InboxIInv /\ MessagesServed => InboxIInv'
<1> SUFFICES ASSUME InboxIInv, MessagesServed PROVE InboxIInv'
  OBVIOUS
<1> DEFINE ps == inboxRun.built
           listed == Listed(ListRequest(inboxView, LastToken(ps)))
           more == Append(ps, listed.page)
<1>1. /\ inboxRun \in InboxRuns /\ ps \in Seq(InboxPages) /\ inboxView \in InboxKeys
      /\ inboxRun.kind # "none" /\ ~RunFinished(inboxRun)
      /\ UNCHANGED <<inboxView, sent, inbox, marking, seen, unseen>>
  BY DEF MessagesServed, InboxIInv, InboxTyped, InboxRuns
<1>2. /\ isRead' = listed.isRead
      /\ inboxRun' = [inboxRun EXCEPT !.built = more]
  BY DEF MessagesServed
<1>3. /\ more \in Seq(InboxPages)
      /\ Accounted(listed.isRead, inboxView, more)
      /\ TokensHaveRows(more)
      /\ Rows(more) = Rows(ps) \union listed.page.rows
  BY <1>1, RunGoesOn, PageAccounts DEF InboxIInv
<1>4. listed.isRead = isRead \union listed.page.rows /\ listed.isRead \subseteq sent
  BY <1>1, LastTokenTyped, ListedFacts DEF InboxIInv
<1> HIDE DEF listed, more
<1>5. /\ inboxRun' \in InboxRuns /\ inboxRun'.kind = inboxRun.kind /\ inboxRun'.built = more
  BY <1>1, <1>2, <1>3 DEF InboxRuns
<1>6. InboxTyped'
  BY <1>1, <1>2, <1>4, <1>5 DEF InboxIInv, InboxTyped
<1>7. ReadWasShown'
  BY <1>1, <1>2, <1>3, <1>4, <1>5 DEF InboxIInv, ReadWasShown
<1>8. isRead \subseteq isRead'
  BY <1>2, <1>4
<1> QED BY <1>1, <1>2, <1>3, <1>5, <1>6, <1>7, <1>8, ListsStay DEF InboxIInv

LEMMA NoRunTyped == NoRun \in InboxRuns /\ NoRun.kind = "none" /\ NoRun.built = <<>>
BY DEF NoRun, InboxRuns

LEMMA MessagesShownKeeps == InboxIInv /\ MessagesShown => InboxIInv'
<1> SUFFICES ASSUME InboxIInv, MessagesShown PROVE InboxIInv'
  OBVIOUS
<1>1. /\ inboxView \in InboxKeys /\ inboxRun.built \in Seq(InboxPages)
      /\ inboxRun.kind # "none" /\ inboxRun' = NoRun
      /\ inbox' = [inbox EXCEPT ![inboxView] = inboxRun.built]
      /\ seen' = seen \union Rows(inboxRun.built)
      /\ UNCHANGED <<inboxView, sent, isRead, marking, unseen>>
  BY DEF MessagesShown, InboxIInv, InboxTyped, InboxRuns
<1>2. /\ inbox' \in [InboxKeys -> Seq(InboxPages)]
      /\ \A k \in InboxKeys : inbox'[k] = IF k = inboxView THEN inboxRun.built ELSE inbox[k]
  BY <1>1 DEF InboxIInv, InboxTyped
<1>3. InboxTyped'
  BY <1>1, <1>2, NoRunTyped DEF InboxIInv, InboxTyped
<1>4. ReadWasShown'
  BY <1>1 DEF InboxIInv, ReadWasShown
<1>5. \A k \in InboxKeys : Accounted(isRead', k, inbox'[k]) /\ TokensHaveRows(inbox'[k])
  BY <1>1, <1>2 DEF InboxIInv
<1> QED BY <1>1, <1>3, <1>4, <1>5, NoRunTyped DEF InboxIInv

LEMMA MessagesFailKeeps == InboxIInv /\ MessagesFail => InboxIInv'
<1> SUFFICES ASSUME InboxIInv, MessagesFail PROVE InboxIInv'
  OBVIOUS
<1>1. inboxRun' = NoRun /\ UNCHANGED <<inboxView, sent, inbox, marking, seen>>
  BY DEF MessagesFail
<1>2. /\ isRead \subseteq isRead' /\ isRead' \subseteq sent
      /\ isRead' \subseteq seen' \union unseen'
  BY AbandonFacts DEF MessagesFail, InboxIInv
<1>3. InboxTyped' /\ ReadWasShown'
  BY <1>1, <1>2, NoRunTyped DEF InboxIInv, InboxTyped, ReadWasShown
<1> QED BY <1>1, <1>2, <1>3, NoRunTyped, ListsStay DEF InboxIInv

LEMMA MarkingKeeps ==
  ASSUME InboxIInv,
         handleMarkAllAsRead \/ AllMarked \/ MarkFails \/ \E m \in LaterMessages : Arrive(m)
  PROVE  InboxIInv'
<1>1. UNCHANGED <<inboxView, inbox, inboxRun, seen>>
  BY DEF handleMarkAllAsRead, AllMarked, MarkFails, Arrive
<1>2. /\ isRead \subseteq isRead' /\ isRead' \subseteq sent'
      /\ sent \subseteq sent' /\ sent' \subseteq Messages
      /\ isRead' \subseteq isRead \union unseen' /\ unseen \subseteq unseen'
  BY InboxAssumption DEF handleMarkAllAsRead, AllMarked, MarkFails, Arrive, InboxIInv, InboxTyped
<1>3. /\ marking' \in Marks
      /\ marking'.step # "none" => marking'.category \in Categories /\ inboxView # NoView
  <2>1. CASE handleMarkAllAsRead
    <3>1. inboxView[1] \in Categories /\ inboxView # NoView
      BY <2>1 DEF handleMarkAllAsRead, InboxIInv, InboxTyped, InboxKeys
    <3>2. marking' = [step |-> "PATCH", category |-> inboxView[1]]
      BY <2>1 DEF handleMarkAllAsRead, NoMark, messageServiceMarkAllInboxMessagesRead, Request
    <3>3. marking' \in Marks /\ marking'.category = inboxView[1]
      BY <3>1, <3>2 DEF Marks
    <3> QED BY <3>1, <3>3
  <2>2. CASE AllMarked
    <3>1. marking' = [marking EXCEPT !.step = "marked"] /\ marking.step # "none"
      BY <2>2 DEF AllMarked, messageServiceMarkAllInboxMessagesRead, Request
    <3> QED BY <3>1 DEF Marks, InboxIInv, InboxTyped
  <2>3. CASE MarkFails
    BY <2>3 DEF MarkFails, NoMark, Marks
  <2>4. CASE \E m \in LaterMessages : Arrive(m)
    BY <2>4 DEF Arrive, InboxIInv, InboxTyped
  <2> QED BY <2>1, <2>2, <2>3, <2>4
<1>4. InboxTyped'
  BY <1>1, <1>2, <1>3 DEF InboxIInv, InboxTyped
<1>5. ReadWasShown'
  BY <1>1, <1>2 DEF InboxIInv, ReadWasShown
<1>6. inboxRun.kind # "none" => Accounted(isRead', inboxView, inboxRun.built)
  BY <1>2, AccountedStays DEF InboxIInv
<1> QED BY <1>1, <1>2, <1>4, <1>5, <1>6, ListsStay DEF InboxIInv

LEMMA InboxNextKeeps == InboxIInv /\ [InboxNext]_inboxVars => InboxIInv'
<1> SUFFICES ASSUME InboxIInv, [InboxNext]_inboxVars PROVE InboxIInv'
  OBVIOUS
<1>1. CASE UNCHANGED inboxVars
  BY <1>1 DEF InboxIInv, InboxTyped, ReadWasShown, inboxVars
<1>2. CASE InboxNext
  BY <1>2, ChangeViewKeeps, MarkedAllKeeps, InboxFocusKeeps, InboxLoadMoreKeeps,
     MessagesServedKeeps, MessagesShownKeeps, MessagesFailKeeps, MarkingKeeps
  DEF InboxNext, InboxProgress
<1> QED BY <1>1, <1>2

LEMMA MarksAccounted == InboxIInv => MarksAreAccounted
<1> SUFFICES ASSUME InboxIInv PROVE MarksAreAccounted
  OBVIOUS
<1>1. NothingLeftUnread
  <2> SUFFICES ASSUME InboxAtRest, inboxView # NoView, inbox[inboxView] # <<>>,
                      NEW m \in sent \ LaterMessages,
                      (m \in FollowMessages) = (inboxView[1] = "follow")
               PROVE  \/ m \in isRead
                      \/ \E i \in DOMAIN inbox[inboxView] :
                           inbox[inboxView][i].token = MessageSecond[m]
    BY DEF NothingLeftUnread
  <2> DEFINE ps == inbox[inboxView]
  <2>1. inboxView \in InboxKeys /\ ps \in Seq(InboxPages) /\ m \in Messages \ LaterMessages
    BY DEF InboxIInv, InboxTyped
  <2>2. Accounted(isRead, inboxView, ps) /\ TokensHaveRows(ps)
    BY <2>1 DEF InboxIInv
  <2>3. ~HasNext(ps)
    <3> SUFFICES ASSUME HasNext(ps) PROVE FALSE
      OBVIOUS
    <3>1. Rows(ps) = {}
      BY DEF InboxAtRest
    <3>2. Len(ps) \in DOMAIN ps /\ ps[Len(ps)].token # NoToken
      BY <2>1, LastTokenTyped
    <3>3. ps[Len(ps)].rows # {}
      BY <2>2, <3>2 DEF TokensHaveRows
    <3> QED BY <3>1, <3>2, <3>3 DEF Rows
  <2>4. LastToken(ps) = 0 /\ MessageSecond[m] \in Nat
    BY <2>1, <2>3, LastTokenTyped, InboxBounds DEF NoToken
  <2>5. OfCategory(m, inboxView)
    BY DEF OfCategory
  <2>6. ~(MessageSecond[m] < LastToken(ps))
    BY <2>4
  <2> QED BY <2>1, <2>2, <2>5, <2>6 DEF Accounted
<1> QED BY <1>1 DEF InboxIInv, MarksAreAccounted

\* What is marked as read has been on the screen, is about to be, or its
\* answer was dropped; and a list read to its end leaves nothing older unread
\* but for the seconds its tokens skip: for any messages, page size and views.
THEOREM MarksCorrect == ClientSpec => []MarksAreAccounted
BY MarksAccounted, PartsImplemented, InboxInitIInv, InboxNextKeeps, PTL

-----------------------------------------------------------------------------
(***************************************************************************)
(* The lists of posts and comments.                                         *)
(***************************************************************************)
LEMMA FeedBounds ==
  /\ IsFiniteSet(Posts) /\ Posts \in SUBSET Nat
  /\ PageSize \in Nat \ {0}
  /\ Second \in [Posts -> Nat \ {0}]
  /\ \A p, q \in Posts : p < q => Second[p] <= Second[q]
  /\ Later \subseteq Posts
  /\ MaxRefetches \in Nat /\ MaxDeletions \in Nat /\ MaxFeedFaults \in Nat
BY FeedAssumption

FeedRuns == [kind : {"none", "all", "next"}, built : Seq(PageType), pages : Nat]
FeedBudgets == [refetches : Nat, faults : Nat, later : SUBSET Later, deletions : Int]
PostsOn(ps) == UNION {ps[i].posts : i \in DOMAIN ps}

FeedTyped ==
  /\ feed \in Lists \union {"none"}
  /\ live \subseteq Posts
  /\ pages \in Seq(PageType)
  /\ fetch \in FeedRuns
  /\ fetch.kind = "none" => fetch.built = <<>>
  /\ fetch.kind # "none" => fetch.pages > 0
  /\ DOMAIN adding \union DOMAIN deleting \subseteq Posts
  /\ lasting \in [added : SUBSET Posts, removed : SUBSET Posts]
  /\ shifted \in BOOLEAN
  /\ feedBudget \in FeedBudgets

\* A post that is still to come is nowhere.
NothingIsAhead ==
  /\ live \intersect feedBudget.later = {}
  /\ PostsOn(pages) \intersect feedBudget.later = {}
  /\ PostsOn(fetch.built) \intersect feedBudget.later = {}
  /\ DOMAIN adding \intersect feedBudget.later = {}
  /\ DOMAIN deleting \intersect feedBudget.later = {}
  /\ (lasting.added \union lasting.removed) \intersect feedBudget.later = {}

\* What the steps before a list was opened, or of another list, cannot have done.
ListsApart ==
  /\ feed = "none" => pages = <<>> /\ fetch.kind = "none"
  /\ feed \notin {"posts", "comments"} => DOMAIN adding = {} /\ lasting.added = {}
  /\ \A p \in DOMAIN deleting : deleting[p] = "deleted" => p \notin live /\ shifted

\* Every old post is on the pages, or shares its second with a token, or is
\* asked for by the token of the last page.
Reached(posts, ps) ==
  ps # <<>> =>
    \A p \in posts \ Later :
      \/ p \in PostsOn(ps)
      \/ \E i \in DOMAIN ps : ps[i].token = Second[p]
      \/ Second[p] < LastToken(ps)

\* The pages of a search hold the newest hits, as many as the offset of the
\* last page, or all of them.
CountedOff(posts, ps) ==
  /\ PostsOn(ps) \subseteq posts
  /\ \A p \in PostsOn(ps), q \in posts : q > p => q \in PostsOn(ps)
  /\ ps = <<>> \/ LastToken(ps) # NoToken => Cardinality(PostsOn(ps)) = LastToken(ps)
  /\ ps # <<>> /\ LastToken(ps) = NoToken => posts \subseteq PostsOn(ps)

PagesGoBack ==
  /\ feed # "search" => Reached(live, pages) /\ Reached(live, fetch.built)
  /\ feed = "search" /\ ~shifted => CountedOff(live, pages) /\ CountedOff(live, fetch.built)

\* An added post is shown, and on the pages of a run that has any.
AddedStays ==
  \A p \in lasting.added \intersect live :
    \/ CrowdedOut(p)
    \/ p \in PostsOn(pages) /\ (fetch.built = <<>> \/ p \in PostsOn(fetch.built))

RemovedStays ==
  \A p \in lasting.removed :
    p \notin live \union PostsOn(pages) \union PostsOn(fetch.built) \union DOMAIN adding

FeedIInv ==
  FeedTyped /\ NothingIsAhead /\ ListsApart /\ PagesGoBack /\ AddedStays /\ RemovedStays

LEMMA NoRunOfFeed == NoRun \in FeedRuns /\ NoRun.kind = "none" /\ NoRun.built = <<>>
BY DEF NoRun, FeedRuns

LEMMA NoPages ==
  /\ PostsOn(<<>>) = {}
  /\ \A posts : Reached(posts, <<>>) /\ CountedOff(posts, <<>>)
<1>1. PostsOn(<<>>) = {} /\ Cardinality({}) = 0
  BY FS_EmptySet DEF PostsOn
<1>2. LastToken(<<>>) = 0
  BY DEF LastToken, NoToken
<1> QED BY <1>1, <1>2 DEF Reached, CountedOff

LEMMA FeedInitIInv == FeedInit => FeedIInv
<1> SUFFICES ASSUME FeedInit PROVE FeedIInv
  OBVIOUS
<1>1. /\ feed = "none" /\ live = Posts \ Later /\ pages = <<>> /\ fetch = NoRun
      /\ DOMAIN adding = {} /\ DOMAIN deleting = {} /\ shifted = FALSE
      /\ lasting = [added |-> {}, removed |-> {}]
      /\ feedBudget = [refetches |-> MaxRefetches, faults |-> MaxFeedFaults,
                       later |-> Later, deletions |-> MaxDeletions]
  BY DEF FeedInit
<1>2. FeedTyped
  <2>1. lasting \in [added : SUBSET Posts, removed : SUBSET Posts]
    BY <1>1
  <2>2. feedBudget \in FeedBudgets
    BY <1>1, FeedBounds DEF FeedBudgets
  <2>3. pages \in Seq(PageType) /\ live \subseteq Posts
    BY <1>1, FeedBounds
  <2> QED BY <1>1, <2>1, <2>2, <2>3, NoRunOfFeed DEF FeedTyped
<1>3. NothingIsAhead /\ AddedStays /\ RemovedStays /\ ListsApart
  BY <1>1, NoRunOfFeed, NoPages DEF NothingIsAhead, AddedStays, RemovedStays, ListsApart
<1>4. PagesGoBack
  BY <1>1, NoRunOfFeed, NoPages DEF PagesGoBack
<1> QED BY <1>2, <1>3, <1>4 DEF FeedIInv

LEMMA LastTokenOfFeed ==
  ASSUME NEW ps \in Seq(PageType)
  PROVE  /\ LastToken(ps) \in Nat
         /\ ps # <<>> => LastToken(ps) = ps[Len(ps)].token /\ Len(ps) \in DOMAIN ps
         /\ HasNext(ps) <=> ps # <<>> /\ LastToken(ps) # NoToken
<1>1. CASE ps = <<>>
  BY <1>1 DEF LastToken, HasNext, NoToken
<1>2. CASE ps # <<>>
  <2>1. Len(ps) \in DOMAIN ps /\ ps[Len(ps)] \in PageType
    BY <1>2
  <2> QED BY <1>2, <2>1 DEF LastToken, HasNext, Last, PageType
<1> QED BY <1>1, <1>2

\* An offset that counts the newest hits skips just these.
LEMMA OffsetSkips ==
  ASSUME NEW L \in SUBSET Nat, IsFiniteSet(L), NEW U \in SUBSET L,
         \A p \in U, q \in L : q > p => q \in U
  PROVE  Newest(L, Cardinality(U)) = U
<1> DEFINE Above(m) == {n \in L : n > m}
<1>1. IsFiniteSet(U) /\ Cardinality(U) \in Nat
  BY FS_Subset, FS_CardinalityType
<1>2. \A m \in L : IsFiniteSet(Above(m)) /\ Cardinality(Above(m)) \in Nat
  BY FS_Subset, FS_CardinalityType
<1>3. ASSUME NEW p \in U PROVE Cardinality(Above(p)) < Cardinality(U)
  <2>1. Above(p) \in SUBSET (U \ {p})
    <3>1. p \in Nat /\ \A n \in L : n \in Nat
      OBVIOUS
    <3>2. \A n \in L : n > p => n \in U /\ n # p
      BY <3>1
    <3> QED BY <3>2
  <2>2. IsFiniteSet(U \ {p}) /\ Cardinality(U \ {p}) = Cardinality(U) - 1
    BY <1>1, FS_RemoveElement
  <2>3. Cardinality(Above(p)) <= Cardinality(U \ {p})
    BY <2>1, <2>2, FS_Subset
  <2>4. Cardinality(Above(p)) \in Nat
    BY <1>2
  <2> HIDE DEF Above
  <2> QED BY <1>1, <2>2, <2>3, <2>4
<1>4. ASSUME NEW p \in L, p \notin U PROVE ~(Cardinality(Above(p)) < Cardinality(U))
  <2>1. U \in SUBSET Above(p)
    <3>1. p \in Nat /\ \A n \in L : n \in Nat
      OBVIOUS
    <3>2. \A n \in U : n \in L /\ n # p /\ ~(p > n)
      BY <1>4
    <3>3. \A n \in U : n > p
      BY <3>1, <3>2
    <3> QED BY <3>3
  <2>2. Cardinality(U) <= Cardinality(Above(p)) /\ Cardinality(Above(p)) \in Nat
    BY <1>2, <2>1, FS_Subset
  <2> HIDE DEF Above
  <2> QED BY <1>1, <2>2
<1> HIDE DEF Above
<1>5. Newest(L, Cardinality(U)) = {m \in L : Cardinality(Above(m)) < Cardinality(U)}
  BY DEF Newest, Above
<1> QED BY <1>3, <1>4, <1>5

LEMMA RequestFacts ==
  ASSUME NEW token, feed \in Lists
  PROVE  /\ FeedRequest(token).data = token
         /\ FeedRequest(token).path = "search/posts" <=> feed = "search"
BY DEF FeedRequest, Lists, postServiceListPosts, postServiceListMyCollections,
       postServiceSearchPosts, commentServiceListTopComments, Get, Request

\* A page of a list holds the newest of what it is asked for.
LEMMA ListPage ==
  ASSUME FeedTyped, feed \in Lists \ {"search"}, NEW token \in Nat
  PROVE  LET page  == ServerPage(FeedRequest(token))
             older == {p \in live : token = NoToken \/ Second[p] < token}
         IN  /\ page \in PageType
             /\ page.posts = Newest(older, PageSize)
             /\ \A p \in older : p \in page.posts \/ Second[p] <= page.token
<1> DEFINE page  == ServerPage(FeedRequest(token))
           older == {p \in live : token = NoToken \/ Second[p] < token}
           rows  == Newest(older, PageSize)
<1>1. page = [posts |-> rows, token |-> TokenOf(rows, Second)]
  <2>1. FeedRequest(token).data = token /\ FeedRequest(token).path # "search/posts"
    BY RequestFacts
  <2> QED BY <2>1 DEF ServerPage, FirstPage, Newest, TokenOf
<1>2. older \in SUBSET Posts /\ rows \subseteq older
  BY DEF FeedTyped, Newest
<1> HIDE DEF rows, older, page
<1>3. /\ TokenOf(rows, Second) \in Nat
      /\ \A p \in older : p \in rows \/ Second[p] <= TokenOf(rows, Second)
  BY <1>2, FeedBounds, TokenCovers DEF rows
<1>4. /\ page.posts = rows /\ page.token = TokenOf(rows, Second) /\ page \in PageType
  BY <1>1, <1>2, <1>3 DEF PageType
<1> QED BY <1>3, <1>4 DEF rows, older, page

\* A page of a search holds the newest of the hits that are not yet counted.
LEMMA SearchPage ==
  ASSUME FeedTyped, feed = "search", NEW U \in SUBSET live,
         \A p \in U, q \in live : q > p => q \in U
  PROVE  LET page == ServerPage(FeedRequest(Cardinality(U)))
             hits == Newest(live \ U, PageSize)
         IN  /\ page \in PageType
             /\ page.posts = hits
             /\ page.token = IF hits # {} /\ U \union hits # live
                             THEN Cardinality(U) + Cardinality(hits) ELSE NoToken
             /\ IsFiniteSet(U) /\ IsFiniteSet(hits) /\ hits \subseteq live \ U
<1> DEFINE page == ServerPage(FeedRequest(Cardinality(U)))
           hits == Newest(live \ U, PageSize)
<1>1. IsFiniteSet(live) /\ live \in SUBSET Nat
  BY FeedBounds, FS_Subset DEF FeedTyped
<1>2. {p \in live : Cardinality({q \in live : q > p}) < Cardinality(U)} = U
  BY <1>1, OffsetSkips DEF Newest
<1>3. /\ page.posts = hits
      /\ page.token = IF hits # {} /\ U \union hits # live
                      THEN Cardinality(U) + Cardinality(hits) ELSE NoToken
      /\ page = [posts |-> page.posts, token |-> page.token]
  <2> DEFINE request == FeedRequest(Cardinality(U))
             before  == {p \in live : Cardinality({q \in live : q > p}) < request.data}
             rest    == FirstPage(live \ before)
             at      == IF rest # {} /\ before \union rest # live
                        THEN request.data + Cardinality(rest) ELSE NoToken
  <2>1. request.path = "search/posts" /\ request.data = Cardinality(U)
    BY RequestFacts DEF Lists
  <2>2. page = [posts |-> rest, token |-> at]
    BY <2>1 DEF ServerPage
  <2>3. before = U
    BY <1>2, <2>1
  <2> HIDE DEF before, request
  <2>4. rest = hits
    BY <2>3 DEF FirstPage, Newest
  <2> HIDE DEF rest, page
  <2> QED BY <2>1, <2>2, <2>3, <2>4
<1>4. hits \subseteq live \ U
  BY DEF Newest
<1> HIDE DEF page, hits
<1>5. IsFiniteSet(U) /\ IsFiniteSet(hits)
  BY <1>1, <1>4, FS_Subset
<1>6. Cardinality(U) \in Nat /\ Cardinality(hits) \in Nat
  BY <1>5, FS_CardinalityType
<1>7. page.token \in Nat /\ page.posts \in SUBSET Posts
  BY <1>3, <1>4, <1>6 DEF NoToken, FeedTyped
<1>8. page \in PageType
  BY <1>3, <1>7 DEF PageType
<1> QED BY <1>3, <1>4, <1>5, <1>8 DEF page, hits

LEMMA MorePages ==
  ASSUME NEW ps \in Seq(PageType), NEW page \in PageType
  PROVE  LET more == Append(ps, page)
         IN  /\ more \in Seq(PageType) /\ more # <<>>
             /\ DOMAIN more = DOMAIN ps \union {Len(ps) + 1}
             /\ \A i \in DOMAIN ps : more[i] = ps[i]
             /\ more[Len(ps) + 1] = page
             /\ LastToken(more) = page.token
             /\ PostsOn(more) = PostsOn(ps) \union page.posts
<1> DEFINE more == Append(ps, page)
<1>1. /\ more \in Seq(PageType) /\ more # <<>>
      /\ DOMAIN more = DOMAIN ps \union {Len(ps) + 1}
      /\ \A i \in DOMAIN ps : more[i] = ps[i]
      /\ more[Len(ps) + 1] = page
      /\ Len(more) = Len(ps) + 1
  OBVIOUS
<1> HIDE DEF more
<1>2. LastToken(more) = page.token
  BY <1>1, LastTokenOfFeed
<1>3. PostsOn(more) = PostsOn(ps) \union page.posts
  BY <1>1 DEF PostsOn
<1> QED BY <1>1, <1>2, <1>3 DEF more

\* A further page goes on where the last token says.
LEMMA ReachedFurther ==
  ASSUME FeedTyped, feed \in Lists \ {"search"}, NEW ps \in Seq(PageType), Reached(live, ps)
  PROVE  Reached(live, Append(ps, ServerPage(FeedRequest(LastToken(ps)))))
<1> DEFINE token == LastToken(ps)
           page  == ServerPage(FeedRequest(token))
           more  == Append(ps, page)
<1>1. token \in Nat
  BY LastTokenOfFeed
<1> HIDE DEF token
<1>2. /\ page \in PageType
      /\ \A p \in live : (token = NoToken \/ Second[p] < token) =>
           p \in page.posts \/ Second[p] <= page.token
  BY <1>1, ListPage
<1> HIDE DEF page
<1>3. /\ DOMAIN more = DOMAIN ps \union {Len(ps) + 1}
      /\ \A i \in DOMAIN ps : more[i] = ps[i]
      /\ more[Len(ps) + 1] = page
      /\ LastToken(more) = page.token
      /\ PostsOn(more) = PostsOn(ps) \union page.posts
  BY <1>2, MorePages
<1> HIDE DEF more
<1> SUFFICES ASSUME NEW p \in live \ Later
             PROVE  \/ p \in PostsOn(more)
                    \/ \E i \in DOMAIN more : more[i].token = Second[p]
                    \/ Second[p] < LastToken(more)
  BY DEF Reached, more, page, token
<1>4. Second[p] \in Nat /\ page.token \in Nat
  BY <1>2, FeedBounds DEF PageType, FeedTyped
<1>5. CASE ps = <<>> \/ Second[p] < token
  <2>1. p \in page.posts \/ Second[p] <= page.token
    BY <1>2, <1>5 DEF token, LastToken
  <2> QED BY <1>3, <1>4, <2>1
<1>6. CASE ps # <<>> /\ ~(Second[p] < token)
  <2>1. p \in PostsOn(ps) \/ \E i \in DOMAIN ps : ps[i].token = Second[p]
    BY <1>6 DEF Reached, token
  <2> QED BY <1>3, <2>1
<1> QED BY <1>5, <1>6

LEMMA CountedFurther ==
  ASSUME FeedTyped, feed = "search", NEW ps \in Seq(PageType), CountedOff(live, ps),
         ps = <<>> \/ LastToken(ps) # NoToken
  PROVE  CountedOff(live, Append(ps, ServerPage(FeedRequest(LastToken(ps)))))
<1> DEFINE U    == PostsOn(ps)
           page == ServerPage(FeedRequest(LastToken(ps)))
           hits == Newest(live \ U, PageSize)
           more == Append(ps, page)
<1>1. /\ U \in SUBSET live
      /\ \A p \in U, q \in live : q > p => q \in U
      /\ Cardinality(U) = LastToken(ps)
  BY DEF CountedOff
<1> HIDE DEF U
<1>2. /\ page \in PageType
      /\ page.posts = hits
      /\ page.token = IF hits # {} /\ U \union hits # live
                      THEN Cardinality(U) + Cardinality(hits) ELSE NoToken
      /\ IsFiniteSet(U) /\ IsFiniteSet(hits) /\ hits \subseteq live \ U
  <2>1. page = ServerPage(FeedRequest(Cardinality(U)))
    BY <1>1
  <2> HIDE DEF page
  <2> QED BY <1>1, <2>1, SearchPage
<1>3. /\ live \ U # {} => hits # {}
      /\ \A m \in (live \ U) \ hits : \A n \in hits : m < n
  <2>1. live \ U \in SUBSET Nat /\ IsFiniteSet(live \ U)
    BY FeedBounds, FS_Subset DEF FeedTyped
  <2> QED BY <2>1, FeedBounds, NewestFirst
<1> HIDE DEF page, hits
<1>4. more # <<>> /\ LastToken(more) = page.token /\ PostsOn(more) = U \union hits
  BY <1>2, MorePages DEF U
<1> HIDE DEF more
<1>5. U \union hits \subseteq live
  BY <1>1, <1>2
<1>6. ASSUME NEW p \in U \union hits, NEW q \in live, q > p
      PROVE  q \in U \union hits
  <2>1. p \in Nat /\ q \in Nat
    BY <1>5, FeedBounds DEF FeedTyped
  <2>2. CASE p \in U
    BY <1>1, <1>6, <2>2
  <2>3. CASE p \in hits /\ q \notin U \union hits
    <3>1. q < p
      BY <1>3, <2>3
    <3> QED BY <1>6, <2>1, <3>1
  <2> QED BY <2>2, <2>3
<1>7. Cardinality(U \union hits) = Cardinality(U) + Cardinality(hits)
  <2>1. U \intersect hits = {} /\ Cardinality(U \intersect hits) = 0
    BY <1>2, FS_EmptySet
  <2>2. Cardinality(U) \in Nat /\ Cardinality(hits) \in Nat
    BY <1>2, FS_CardinalityType
  <2>3. Cardinality(U \union hits) =
          Cardinality(U) + Cardinality(hits) - Cardinality(U \intersect hits)
    BY <1>2, FS_Union
  <2> QED BY <2>1, <2>2, <2>3
<1>8. CASE hits # {} /\ U \union hits # live
  <2>1. LastToken(more) = Cardinality(PostsOn(more))
    BY <1>2, <1>4, <1>7, <1>8
  <2>2. LastToken(more) # NoToken
    <3>1. Cardinality(U) \in Nat /\ Cardinality(hits) \in Nat /\ Cardinality(hits) # 0
      BY <1>2, <1>8, FS_CardinalityType, FS_EmptySet
    <3> QED BY <1>2, <1>4, <1>8, <3>1 DEF NoToken
  <2> QED BY <1>4, <1>5, <1>6, <2>1, <2>2 DEF CountedOff, more, page
<1>9. CASE ~(hits # {} /\ U \union hits # live)
  <2>1. LastToken(more) = NoToken
    BY <1>2, <1>4, <1>9
  <2>2. live \subseteq PostsOn(more)
    BY <1>1, <1>3, <1>4, <1>9
  <2> QED BY <1>4, <1>5, <1>6, <2>1, <2>2 DEF CountedOff, more, page
<1> QED BY <1>8, <1>9

LEMMA RunsKeep ==
  ASSUME FeedIInv, FeedMount \/ LoadMore \/ Refetch \/ PagesSettled \/ PageFails
  PROVE  FeedIInv'
<1>1. UNCHANGED <<live, adding, deleting, lasting, shifted>>
  BY DEF FeedMount, LoadMore, Refetch, PagesSettled, PageFails
<1>2. feedBudget' \in FeedBudgets /\ feedBudget'.later = feedBudget.later
  BY DEF FeedMount, LoadMore, Refetch, PagesSettled, PageFails, FeedIInv, FeedTyped, FeedBudgets
<1>3. /\ pages \in Seq(PageType) /\ Len(pages) \in Nat /\ fetch.built \in Seq(PageType)
      /\ pages # <<>> => Len(pages) > 0
  BY DEF FeedIInv, FeedTyped, FeedRuns
<1>4. feed = "none" => pages = <<>> /\ fetch.kind = "none" /\ ~HasNext(pages)
  BY DEF FeedIInv, ListsApart, HasNext
<1>5. /\ feed' \in Lists
      /\ feed' = feed \/ feed = "none"
      /\ fetch' \in FeedRuns
      /\ fetch'.kind = "none" => fetch'.built = <<>>
      /\ fetch'.kind # "none" => fetch'.pages > 0
      /\ \/ pages' = pages /\ fetch'.built \in {<<>>, pages}
         \/ pages' = fetch.built /\ fetch.built # <<>> /\ fetch'.built = <<>>
  <2>1. CASE FeedMount
    <3>1. /\ fetch' = [kind |-> "all", built |-> <<>>, pages |-> 1]
          /\ pages' = pages /\ feed' \in Lists
      BY <2>1 DEF FeedMount, AllRun
    <3>2. fetch' \in FeedRuns /\ fetch'.kind = "all" /\ fetch'.built = <<>> /\ fetch'.pages = 1
      BY <3>1 DEF FeedRuns
    <3> QED BY <2>1, <3>1, <3>2 DEF FeedMount
  <2>2. CASE LoadMore
    <3>1. /\ fetch' = [kind |-> "next", built |-> pages, pages |-> Len(pages) + 1]
          /\ pages' = pages /\ feed' = feed /\ HasNext(pages)
      BY <2>2 DEF LoadMore, NextRun, HasNextPage
    <3> QED BY <1>3, <1>4, <3>1 DEF FeedRuns, FeedIInv, FeedTyped
  <2>3. CASE Refetch
    <3>1. /\ fetch' = [kind |-> "all", built |-> <<>>, pages |-> Len(pages)]
          /\ pages' = pages /\ feed' = feed /\ pages # <<>>
      BY <2>3 DEF Refetch, AllRun
    <3>2. /\ fetch' \in FeedRuns /\ fetch'.kind = "all"
          /\ fetch'.built = <<>> /\ fetch'.pages = Len(pages)
      BY <1>3, <3>1 DEF FeedRuns
    <3>3. feed \in Lists
      BY <1>4, <3>1 DEF FeedIInv, FeedTyped
    <3> QED BY <1>3, <3>1, <3>2, <3>3
  <2>4. CASE PagesSettled
    <3>1. fetch' = NoRun /\ pages' = fetch.built /\ feed' = feed /\ fetch.kind # "none"
          /\ RunFinished(fetch)
      BY <2>4 DEF PagesSettled
    <3>2. fetch.built # <<>>
      BY <3>1 DEF RunFinished, FeedIInv, FeedTyped
    <3> QED BY <1>4, <3>1, <3>2, NoRunOfFeed DEF FeedIInv, FeedTyped
  <2>5. CASE PageFails
    <3>1. fetch' = NoRun /\ pages' = pages /\ feed' = feed /\ fetch.kind # "none"
      BY <2>5 DEF PageFails
    <3> QED BY <1>4, <3>1, NoRunOfFeed DEF FeedIInv, FeedTyped
  <2> QED BY <2>1, <2>2, <2>3, <2>4, <2>5
<1>6. FeedTyped'
  BY <1>1, <1>2, <1>3, <1>5 DEF FeedIInv, FeedTyped
<1>7. NothingIsAhead' /\ RemovedStays'
  BY <1>1, <1>2, <1>5, NoPages DEF FeedIInv, NothingIsAhead, RemovedStays
<1>8. ListsApart'
  <2>1. feed' # "none"
    BY <1>5 DEF Lists
  <2> QED BY <1>1, <1>5, <2>1 DEF FeedIInv, ListsApart
<1>9. PagesGoBack'
  <2>1. CASE feed = "none"
    <3>1. pages = <<>> /\ fetch.built = <<>>
      BY <2>1 DEF FeedIInv, ListsApart, FeedTyped
    <3>2. pages' = <<>> /\ fetch'.built = <<>>
      BY <1>5, <3>1
    <3> QED BY <3>2, NoPages DEF PagesGoBack
  <2>2. CASE feed # "none"
    BY <1>1, <1>5, <2>2, NoPages DEF FeedIInv, PagesGoBack
  <2> QED BY <2>1, <2>2
<1>10. AddedStays'
  BY <1>1, <1>2, <1>5 DEF FeedIInv, AddedStays, CrowdedOut
<1> QED BY <1>6, <1>7, <1>8, <1>9, <1>10 DEF FeedIInv

\* Whatever is asked for, the answer is a page of posts that are there.
LEMMA ServerPageTyped ==
  ASSUME FeedTyped, feed \in Lists, NEW token \in Nat
  PROVE  /\ ServerPage(FeedRequest(token)) \in PageType
         /\ ServerPage(FeedRequest(token)).posts \subseteq live
<1>1. CASE feed # "search"
  BY <1>1, ListPage DEF Newest
<1>2. CASE feed = "search"
  <2> DEFINE request == FeedRequest(token)
             before  == {p \in live : Cardinality({q \in live : q > p}) < request.data}
             hits    == FirstPage(live \ before)
             at      == IF hits # {} /\ before \union hits # live
                        THEN request.data + Cardinality(hits) ELSE NoToken
  <2>1. request.path = "search/posts" /\ request.data = token
    BY <1>2, RequestFacts DEF Lists
  <2>2. ServerPage(request) = [posts |-> hits, token |-> at]
    BY <2>1 DEF ServerPage
  <2>3. hits \subseteq live
    BY DEF FirstPage
  <2> HIDE DEF request, hits, before
  <2>4. Cardinality(hits) \in Nat
    BY <2>3, FeedBounds, FS_Subset, FS_CardinalityType DEF FeedTyped
  <2>5. at \in Nat
    BY <2>1, <2>4 DEF NoToken
  <2> HIDE DEF at
  <2>6. ServerPage(request) \in PageType /\ ServerPage(request).posts = hits
    BY <2>2, <2>3, <2>5 DEF PageType, FeedTyped
  <2> QED BY <2>3, <2>6 DEF request
<1> QED BY <1>1, <1>2

\* What the newest posts of the server leave out is crowded out.
LEMMA FirstPageCrowds ==
  ASSUME FeedIInv, NEW p \in live, p \notin Newest(live, PageSize)
  PROVE  CrowdedOut(p)
<1> DEFINE above == {q \in live : q > p}
           all   == {q \in Posts \ feedBudget.later : q > p}
<1>1. above \in SUBSET all /\ all \in SUBSET Posts
  BY DEF FeedIInv, FeedTyped, NothingIsAhead
<1>2. ~(Cardinality(above) < PageSize)
  BY DEF Newest
<1>3. CrowdedOut(p) <=> Cardinality(all) >= PageSize
  BY DEF CrowdedOut
<1> HIDE DEF above, all
<1>4. IsFiniteSet(all) /\ IsFiniteSet(above) /\ Cardinality(above) <= Cardinality(all)
  BY <1>1, FeedBounds, FS_Subset
<1>5. Cardinality(all) \in Nat /\ Cardinality(above) \in Nat
  BY <1>4, FS_CardinalityType
<1> QED BY <1>2, <1>3, <1>4, <1>5, FeedBounds

LEMMA PageServedKeeps == FeedIInv /\ PageServed => FeedIInv'
<1> SUFFICES ASSUME FeedIInv, PageServed PROVE FeedIInv'
  OBVIOUS
<1> DEFINE token == LastToken(fetch.built)
           page  == ServerPage(FeedRequest(token))
           more  == Append(fetch.built, page)
<1>1. /\ fetch' = [fetch EXCEPT !.built = more] /\ fetch.kind # "none"
      /\ UNCHANGED <<feed, live, pages, adding, deleting, lasting, shifted, feedBudget>>
      /\ ~RunFinished(fetch)
  BY DEF PageServed
<1>2. feed \in Lists /\ fetch.built \in Seq(PageType) /\ fetch \in FeedRuns
  BY <1>1 DEF FeedIInv, FeedTyped, FeedRuns, ListsApart
<1>3. token \in Nat /\ (fetch.built = <<>> \/ token # NoToken)
  BY <1>1, <1>2, LastTokenOfFeed DEF RunFinished
<1>4. page \in PageType /\ page.posts \subseteq live
  BY <1>2, <1>3, ServerPageTyped DEF FeedIInv
<1>5. feed # "search" => Reached(live, more)
  BY <1>2, ReachedFurther DEF FeedIInv, PagesGoBack
<1>6. feed = "search" /\ ~shifted => CountedOff(live, more)
  BY <1>2, <1>3, CountedFurther DEF FeedIInv, PagesGoBack
<1>7. ASSUME fetch.built = <<>>, NEW p \in lasting.added \intersect live
      PROVE  p \in page.posts \/ CrowdedOut(p)
  <2>1. feed # "search"
    BY DEF FeedIInv, ListsApart
  <2>2. token = NoToken
    BY <1>7 DEF LastToken
  <2>3. page.posts = Newest({q \in live : token = NoToken \/ Second[q] < token}, PageSize)
    BY <1>2, <1>3, <2>1, ListPage DEF FeedIInv
  <2>4. page.posts = Newest(live, PageSize)
    <3>1. {q \in live : token = NoToken \/ Second[q] < token} = live
      BY <2>2
    <3> HIDE DEF token, page
    <3> QED BY <2>3, <3>1
  <2> HIDE DEF page
  <2>5. p \in live /\ (p \notin Newest(live, PageSize) => CrowdedOut(p))
    BY FirstPageCrowds
  <2> QED BY <2>4, <2>5
<1> HIDE DEF page, token
<1>8. /\ more \in Seq(PageType) /\ more # <<>>
      /\ PostsOn(more) = PostsOn(fetch.built) \union page.posts
  BY <1>2, <1>4, MorePages
<1> HIDE DEF more
<1>9. /\ fetch' \in FeedRuns /\ fetch'.built = more /\ fetch'.kind = fetch.kind
      /\ fetch'.pages = fetch.pages
  BY <1>1, <1>2, <1>8 DEF FeedRuns
<1>10. FeedTyped'
  BY <1>1, <1>9 DEF FeedIInv, FeedTyped
<1>11. NothingIsAhead' /\ RemovedStays'
  BY <1>1, <1>4, <1>8, <1>9 DEF FeedIInv, NothingIsAhead, RemovedStays
<1>12. ListsApart' /\ PagesGoBack'
  BY <1>1, <1>5, <1>6, <1>9 DEF FeedIInv, ListsApart, PagesGoBack
<1>13. AddedStays'
  BY <1>1, <1>7, <1>8, <1>9 DEF FeedIInv, AddedStays, CrowdedOut
<1> QED BY <1>10, <1>11, <1>12, <1>13 DEF FeedIInv

LEMMA PostedKeeps == ASSUME FeedIInv, NEW p \in Posts, Posted(p) PROVE FeedIInv'
<1>1. /\ feed \in {"posts", "comments"} /\ p \in feedBudget.later
      /\ live' = live \union {p}
      /\ DOMAIN adding' = DOMAIN adding \union {p}
      /\ feedBudget' = [feedBudget EXCEPT !.later = feedBudget.later \ {p}]
      /\ UNCHANGED <<feed, pages, fetch, deleting, lasting, shifted>>
  BY DEF Posted
<1>2. feedBudget' \in FeedBudgets /\ feedBudget'.later = feedBudget.later \ {p}
  BY <1>1 DEF FeedIInv, FeedTyped, FeedBudgets
<1>3. p \in Later /\ p \notin lasting.added \union lasting.removed \union DOMAIN deleting
  BY <1>1 DEF FeedIInv, NothingIsAhead, FeedTyped, FeedBudgets
<1>4. FeedTyped'
  BY <1>1, <1>2 DEF FeedIInv, FeedTyped
<1>5. NothingIsAhead' /\ RemovedStays'
  BY <1>1, <1>2, <1>3 DEF FeedIInv, NothingIsAhead, RemovedStays
<1>6. ListsApart'
  BY <1>1, <1>3 DEF FeedIInv, ListsApart
<1>7. PagesGoBack'
  <2>1. \A ps : Reached(live, ps) => Reached(live', ps)
    BY <1>1, <1>3 DEF Reached
  <2> QED BY <1>1, <2>1 DEF FeedIInv, PagesGoBack
<1>8. \A q \in Posts : CrowdedOut(q) => CrowdedOut(q)'
  <2> TAKE q \in Posts
  <2> DEFINE before == {r \in Posts \ feedBudget.later : r > q}
             after  == {r \in Posts \ feedBudget'.later : r > q}
  <2>1. before \in SUBSET after /\ after \in SUBSET Posts
    BY <1>2
  <2>2. /\ CrowdedOut(q) <=> Cardinality(before) >= PageSize
        /\ CrowdedOut(q)' <=> Cardinality(after) >= PageSize
    BY DEF CrowdedOut
  <2> HIDE DEF before, after
  <2>3. IsFiniteSet(after) /\ IsFiniteSet(before) /\ Cardinality(before) <= Cardinality(after)
    BY <2>1, FeedBounds, FS_Subset
  <2>4. Cardinality(after) \in Nat /\ Cardinality(before) \in Nat
    BY <2>3, FS_CardinalityType
  <2> QED BY <2>2, <2>3, <2>4, FeedBounds
<1>9. AddedStays'
  <2>1. lasting.added \subseteq Posts
    BY DEF FeedIInv, FeedTyped
  <2> QED BY <1>1, <1>3, <1>8, <2>1 DEF FeedIInv, AddedStays
<1> QED BY <1>4, <1>5, <1>6, <1>7, <1>9 DEF FeedIInv

\* Steps that do no more than ask, or give up.
LEMMA FeedAskingKeeps ==
  ASSUME FeedIInv, NEW p \in Posts,
         PostServed(p) \/ PostFails(p) \/ DeletePost(p) \/ DeletionUnheard(p)
  PROVE  FeedIInv'
<1>1. UNCHANGED <<feed, live, pages, fetch, lasting, shifted>>
  BY DEF PostServed, PostFails, DeletePost, DeletionUnheard
<1>2. feedBudget' \in FeedBudgets /\ feedBudget'.later = feedBudget.later
  BY DEF PostServed, PostFails, DeletePost, DeletionUnheard, FeedIInv, FeedTyped, FeedBudgets
<1>3. DOMAIN adding' \subseteq DOMAIN adding
  BY DEF PostServed, PostFails, DeletePost, DeletionUnheard
<1>4. DOMAIN deleting' \subseteq DOMAIN deleting \union PostsOn(pages)
  BY DEF PostServed, PostFails, DeletePost, DeletionUnheard, Shown, PostsOn
<1>5. \A q \in DOMAIN deleting' :
        deleting'[q] = "deleted" => q \in DOMAIN deleting /\ deleting[q] = "deleted"
  BY DEF PostServed, PostFails, DeletePost, DeletionUnheard
<1>6. DOMAIN deleting' \subseteq Posts
  BY DEF PostServed, PostFails, DeletePost, DeletionUnheard, FeedIInv, FeedTyped
<1>7. FeedTyped'
  BY <1>1, <1>2, <1>3, <1>6 DEF FeedIInv, FeedTyped
<1>8. NothingIsAhead' /\ RemovedStays'
  BY <1>1, <1>2, <1>3, <1>4 DEF FeedIInv, NothingIsAhead, RemovedStays
<1>9. ListsApart'
  BY <1>1, <1>3, <1>5 DEF FeedIInv, ListsApart
<1>10. PagesGoBack' /\ AddedStays'
  BY <1>1, <1>2 DEF FeedIInv, PagesGoBack, AddedStays, CrowdedOut
<1>11. FeedIInv'
  BY <1>7, <1>8, <1>9, <1>10 DEF FeedIInv
<1> QED BY <1>11

LEMMA PostDeletedKeeps == ASSUME FeedIInv, NEW p \in Posts, PostDeleted(p) PROVE FeedIInv'
<1>1. /\ live' = live \ {p} /\ shifted' = TRUE /\ p \in DOMAIN deleting
      /\ deleting' = IF p \in live THEN [deleting EXCEPT ![p] = "deleted"]
                     ELSE [q \in DOMAIN deleting \ {p} |-> deleting[q]]
      /\ UNCHANGED <<feed, pages, fetch, adding, lasting, feedBudget>>
  BY DEF PostDeleted, commentServiceDeleteComment, postServiceDeletePost, Request
<1>2. /\ DOMAIN deleting' \subseteq DOMAIN deleting
      /\ \A q \in DOMAIN deleting' : deleting'[q] = "deleted" => q = p \/ deleting[q] = "deleted"
  BY <1>1
<1>3. FeedTyped'
  BY <1>1, <1>2 DEF FeedIInv, FeedTyped
<1>4. NothingIsAhead' /\ RemovedStays' /\ AddedStays'
  BY <1>1, <1>2 DEF FeedIInv, NothingIsAhead, RemovedStays, AddedStays, CrowdedOut
<1>5. ListsApart'
  BY <1>1, <1>2 DEF FeedIInv, ListsApart
<1>6. PagesGoBack'
  <2>1. \A ps : Reached(live, ps) => Reached(live', ps)
    BY <1>1 DEF Reached
  <2> QED BY <1>1, <2>1 DEF FeedIInv, PagesGoBack
<1> QED BY <1>3, <1>4, <1>5, <1>6 DEF FeedIInv

LEMMA PageChanged ==
  ASSUME NEW page \in PageType, NEW S \in SUBSET Posts
  PROVE  /\ [page EXCEPT !.posts = S] \in PageType
         /\ [page EXCEPT !.posts = S].posts = S
         /\ [page EXCEPT !.posts = S].token = page.token
BY DEF PageType

\* Pages that differ in their posts only ask for the same.
LEMMA SameTokens ==
  ASSUME NEW ps \in Seq(PageType), NEW qs \in Seq(PageType), DOMAIN qs = DOMAIN ps,
         \A i \in DOMAIN ps : qs[i].token = ps[i].token
  PROVE  /\ qs = <<>> <=> ps = <<>>
         /\ LastToken(qs) = LastToken(ps)
         /\ \A posts : Reached(posts, ps) /\ posts \intersect PostsOn(ps) \subseteq PostsOn(qs)
              => Reached(posts, qs)
<1>1. Len(qs) = Len(ps) /\ (qs = <<>> <=> ps = <<>>)
  OBVIOUS
<1>2. LastToken(qs) = LastToken(ps)
  <2>1. CASE ps = <<>>
    BY <1>1, <2>1 DEF LastToken
  <2>2. CASE ps # <<>>
    BY <1>1, <2>2, LastTokenOfFeed
  <2> QED BY <2>1, <2>2
<1>3. ASSUME NEW posts, Reached(posts, ps), posts \intersect PostsOn(ps) \subseteq PostsOn(qs)
      PROVE  Reached(posts, qs)
  BY <1>1, <1>2, <1>3 DEF Reached
<1> QED BY <1>1, <1>2, <1>3

LEMMA AddedPages ==
  ASSUME NEW ps \in Seq(PageType), ps # <<>>, NEW p \in Posts
  PROVE  LET qs == [ps EXCEPT ![1].posts = @ \union {p}]
         IN  /\ qs \in Seq(PageType) /\ DOMAIN qs = DOMAIN ps
             /\ \A i \in DOMAIN ps : qs[i].token = ps[i].token
             /\ PostsOn(qs) = PostsOn(ps) \union {p}
<1> DEFINE qs == [ps EXCEPT ![1].posts = @ \union {p}]
           q1 == [ps[1] EXCEPT !.posts = @ \union {p}]
<1>1. 1 \in DOMAIN ps /\ ps[1] \in PageType
  OBVIOUS
<1>2. ps[1].posts \union {p} \in SUBSET Posts
  BY <1>1 DEF PageType
<1>3. q1 \in PageType /\ q1.posts = ps[1].posts \union {p} /\ q1.token = ps[1].token
  BY <1>1, <1>2, PageChanged, Zenon
<1>4. qs = [ps EXCEPT ![1] = q1]
  BY Zenon
<1> HIDE DEF q1, qs
<1>5. /\ qs \in Seq(PageType) /\ DOMAIN qs = DOMAIN ps
      /\ \A i \in DOMAIN ps : qs[i] = IF i = 1 THEN q1 ELSE ps[i]
  BY <1>1, <1>3, <1>4
<1>6. \A i \in DOMAIN ps :
        /\ qs[i].token = ps[i].token
        /\ qs[i].posts = IF i = 1 THEN ps[1].posts \union {p} ELSE ps[i].posts
  BY <1>3, <1>5
<1>7. PostsOn(qs) = PostsOn(ps) \union {p}
  BY <1>1, <1>5, <1>6 DEF PostsOn
<1> QED BY <1>5, <1>6, <1>7 DEF qs

LEMMA RemovedPages ==
  ASSUME NEW ps \in Seq(PageType), NEW p
  PROVE  LET qs == [i \in DOMAIN ps |-> [ps[i] EXCEPT !.posts = @ \ {p}]]
         IN  /\ qs \in Seq(PageType) /\ DOMAIN qs = DOMAIN ps
             /\ \A i \in DOMAIN ps : qs[i].token = ps[i].token
             /\ PostsOn(qs) = PostsOn(ps) \ {p}
<1> DEFINE page(i) == [ps[i] EXCEPT !.posts = @ \ {p}]
           qs == [i \in DOMAIN ps |-> page(i)]
<1>1. \A i \in DOMAIN ps : ps[i] \in PageType
  OBVIOUS
<1>2. \A i \in DOMAIN ps : ps[i].posts \ {p} \in SUBSET Posts
  BY <1>1 DEF PageType
<1>3. \A i \in DOMAIN ps : /\ page(i) \in PageType
                           /\ page(i).posts = ps[i].posts \ {p}
                           /\ page(i).token = ps[i].token
  BY <1>1, <1>2, PageChanged, Zenon
<1> HIDE DEF page
<1>4. /\ qs \in Seq(PageType) /\ DOMAIN qs = DOMAIN ps
      /\ \A i \in DOMAIN ps : qs[i] = page(i)
  BY <1>3
<1> HIDE DEF qs
<1>5. PostsOn(qs) = PostsOn(ps) \ {p}
  BY <1>3, <1>4 DEF PostsOn
<1>6. \A i \in DOMAIN ps : qs[i].token = ps[i].token
  BY <1>3, <1>4
<1> QED BY <1>4, <1>5, <1>6 DEF qs, page

LEMMA AddPostLocalKeeps == ASSUME FeedIInv, NEW p \in Posts, AddPostLocal(p) PROVE FeedIInv'
<1>1. /\ p \in DOMAIN adding
      /\ DOMAIN adding' = DOMAIN adding \ {p}
      /\ UNCHANGED <<feed, live, fetch, deleting, shifted, feedBudget>>
  BY DEF AddPostLocal
<1>2. /\ pages \in Seq(PageType)
      /\ feed # "search" /\ feed # "none"
      /\ p \notin feedBudget.later /\ p \notin lasting.removed
  BY <1>1 DEF FeedIInv, FeedTyped, ListsApart, NothingIsAhead, RemovedStays
<1>3. /\ pages' \in Seq(PageType)
      /\ PostsOn(pages) \subseteq PostsOn(pages')
      /\ PostsOn(pages') \subseteq PostsOn(pages) \union {p}
      /\ pages # <<>> => p \in PostsOn(pages')
      /\ Reached(live, pages) => Reached(live, pages')
  <2>1. CASE pages = <<>>
    <3>1. pages' = pages
      BY <2>1 DEF AddPostLocal
    <3> QED BY <1>2, <2>1, <3>1
  <2>2. CASE pages # <<>>
    <3>1. pages' = [pages EXCEPT ![1].posts = @ \union {p}]
      BY <2>2 DEF AddPostLocal
    <3>2. /\ pages' \in Seq(PageType) /\ DOMAIN pages' = DOMAIN pages
          /\ \A i \in DOMAIN pages : pages'[i].token = pages[i].token
          /\ PostsOn(pages') = PostsOn(pages) \union {p}
      BY <1>2, <2>2, <3>1, AddedPages
    <3> QED BY <1>2, <3>2, SameTokens
  <2> QED BY <2>1, <2>2
<1>4. /\ lasting' \in [added : SUBSET Posts, removed : SUBSET Posts]
      /\ lasting'.removed = lasting.removed
      /\ \/ lasting'.added = lasting.added
         \/ fetch.kind = "none" /\ pages # <<>> /\ lasting'.added = lasting.added \union {p}
  BY DEF AddPostLocal, FeedIInv, FeedTyped
<1>5. FeedTyped'
  BY <1>1, <1>3, <1>4 DEF FeedIInv, FeedTyped
<1>6. NothingIsAhead' /\ RemovedStays'
  BY <1>1, <1>2, <1>3, <1>4 DEF FeedIInv, NothingIsAhead, RemovedStays
<1>7. ListsApart'
  BY <1>1, <1>2, <1>4 DEF FeedIInv, ListsApart
<1>8. PagesGoBack'
  BY <1>1, <1>2, <1>3 DEF FeedIInv, PagesGoBack
<1>9. AddedStays'
  <2>1. fetch.kind = "none" => fetch.built = <<>>
    BY DEF FeedIInv, FeedTyped
  <2> QED BY <1>1, <1>3, <1>4, <2>1 DEF FeedIInv, AddedStays, CrowdedOut
<1> QED BY <1>5, <1>6, <1>7, <1>8, <1>9 DEF FeedIInv

LEMMA RemovePostLocalKeeps == ASSUME FeedIInv, NEW p \in Posts, RemovePostLocal(p) PROVE FeedIInv'
<1>1. /\ p \in DOMAIN deleting /\ deleting[p] = "deleted"
      /\ pages' = [i \in DOMAIN pages |-> [pages[i] EXCEPT !.posts = @ \ {p}]]
      /\ deleting' = [q \in DOMAIN deleting \ {p} |-> deleting[q]]
      /\ UNCHANGED <<feed, live, fetch, adding, shifted, feedBudget>>
  BY DEF RemovePostLocal
<1>2. /\ pages \in Seq(PageType) /\ p \notin live /\ shifted /\ p \notin feedBudget.later
  BY <1>1 DEF FeedIInv, FeedTyped, ListsApart, NothingIsAhead
<1>3. /\ pages' \in Seq(PageType) /\ DOMAIN pages' = DOMAIN pages
      /\ \A i \in DOMAIN pages : pages'[i].token = pages[i].token
      /\ PostsOn(pages') = PostsOn(pages) \ {p}
  <2> DEFINE qs == [i \in DOMAIN pages |-> [pages[i] EXCEPT !.posts = @ \ {p}]]
  <2>1. pages' = qs
    BY <1>1
  <2>2. /\ qs \in Seq(PageType) /\ DOMAIN qs = DOMAIN pages
        /\ \A i \in DOMAIN pages : qs[i].token = pages[i].token
        /\ PostsOn(qs) = PostsOn(pages) \ {p}
    BY <1>2, RemovedPages
  <2> HIDE DEF qs
  <2> QED BY <2>1, <2>2
<1>4. Reached(live, pages) => Reached(live, pages')
  BY <1>2, <1>3, SameTokens
<1>5. /\ lasting' \in [added : SUBSET Posts, removed : SUBSET Posts]
      /\ lasting'.added = lasting.added
      /\ \/ lasting'.removed = lasting.removed
         \/ /\ fetch.kind = "none" /\ p \notin DOMAIN adding
            /\ lasting'.removed = lasting.removed \union {p}
  BY DEF RemovePostLocal, FeedIInv, FeedTyped
<1>6. FeedTyped'
  BY <1>1, <1>3, <1>5 DEF FeedIInv, FeedTyped
<1>7. NothingIsAhead'
  <2>1. NothingIsAhead
    BY DEF FeedIInv
  <2>2. DOMAIN deleting' \subseteq DOMAIN deleting
    BY <1>1
  <2>3. PostsOn(pages') \subseteq PostsOn(pages)
    BY <1>3
  <2>4. lasting'.added \union lasting'.removed \subseteq lasting.added \union lasting.removed \union {p}
    BY <1>5
  <2>5. UNCHANGED <<live, adding, fetch, feedBudget>>
    BY <1>1
  <2>6. PostsOn(fetch'.built) = PostsOn(fetch.built)
    BY <2>5
  <2> QED BY <1>2, <2>1, <2>2, <2>3, <2>4, <2>5, <2>6 DEF NothingIsAhead
<1>8. RemovedStays'
  <2>1. fetch.kind = "none" => PostsOn(fetch.built) = {}
    BY NoPages DEF FeedIInv, FeedTyped
  <2> QED BY <1>1, <1>2, <1>3, <1>5, <2>1 DEF FeedIInv, RemovedStays
<1>9. ListsApart'
  <2>1. pages = <<>> => pages' = <<>>
    BY <1>2, <1>3, SameTokens
  <2> QED BY <1>1, <1>2, <1>5, <2>1 DEF FeedIInv, ListsApart
<1>10. PagesGoBack'
  BY <1>1, <1>2, <1>4 DEF FeedIInv, PagesGoBack
<1>11. AddedStays'
  BY <1>1, <1>2, <1>3, <1>5 DEF FeedIInv, AddedStays, CrowdedOut
<1> QED BY <1>6, <1>7, <1>8, <1>9, <1>10, <1>11 DEF FeedIInv

LEMMA FeedNextKeeps == FeedIInv /\ [FeedNext]_feedVars => FeedIInv'
<1> SUFFICES ASSUME FeedIInv, [FeedNext]_feedVars PROVE FeedIInv'
  OBVIOUS
<1>1. CASE UNCHANGED feedVars
  BY <1>1 DEF FeedIInv, FeedTyped, NothingIsAhead, ListsApart, PagesGoBack, AddedStays,
              RemovedStays, CrowdedOut, feedVars
<1>2. CASE FeedNext
  <2>1. CASE FeedMount \/ LoadMore \/ Refetch \/ PagesSettled \/ PageFails
    BY <2>1, RunsKeep
  <2>2. CASE PageServed
    BY <2>2, PageServedKeeps
  <2>3. CASE \E p \in Posts : Posted(p)
    BY <2>3, PostedKeeps
  <2>4. CASE \E p \in Posts :
               PostServed(p) \/ PostFails(p) \/ DeletePost(p) \/ DeletionUnheard(p)
    BY <2>4, FeedAskingKeeps
  <2>5. CASE \E p \in Posts : PostDeleted(p)
    BY <2>5, PostDeletedKeeps
  <2>6. CASE \E p \in Posts : AddPostLocal(p)
    BY <2>6, AddPostLocalKeeps
  <2>7. CASE \E p \in Posts : RemovePostLocal(p)
    BY <2>7, RemovePostLocalKeeps
  <2> QED BY <1>2, <2>1, <2>2, <2>3, <2>4, <2>5, <2>6, <2>7 DEF FeedNext, FeedProgress
<1> QED BY <1>1, <1>2

LEMMA ListsFollow == FeedIInv => ListsAreFaithful
<1> SUFFICES ASSUME FeedIInv PROVE ListsAreFaithful
  OBVIOUS
<1>1. Shown = PostsOn(pages)
  BY DEF Shown, PostsOn
<1>2. EndOfListIsComplete
  <2> SUFFICES ASSUME feed # "none", pages # <<>>, ~HasNextPage,
                      NEW p \in (live \ Later) \ Shown
               PROVE  IF feed = "search" THEN shifted
                      ELSE \E i \in DOMAIN pages : pages[i].token = Second[p]
    BY DEF EndOfListIsComplete
  <2>1. LastToken(pages) = 0
    BY LastTokenOfFeed DEF FeedIInv, FeedTyped, HasNextPage, NoToken
  <2>2. CASE feed = "search"
    <3>1. ~shifted => live \subseteq PostsOn(pages)
      BY <2>1, <2>2 DEF FeedIInv, PagesGoBack, CountedOff, NoToken
    <3> QED BY <1>1, <2>2, <3>1
  <2>3. CASE feed # "search"
    <3>1. ~(Second[p] < LastToken(pages))
      BY <2>1, FeedBounds DEF FeedIInv, FeedTyped
    <3> QED BY <1>1, <2>3, <3>1 DEF FeedIInv, PagesGoBack, Reached
  <2> QED BY <2>2, <2>3
<1>3. LocalChangesLast
  BY <1>1 DEF FeedIInv, AddedStays, RemovedStays, LocalChangesLast
<1> QED BY <1>2, <1>3 DEF ListsAreFaithful

\* A list read to its end lacks an older post only for a token of the same
\* second or, in a search, for a deletion; and a post added or removed while no
\* run was under way stays so: for any posts, page size and number of calls.
THEOREM ListsCorrect == ClientSpec => []ListsAreFaithful
BY ListsFollow, PartsImplemented, FeedInitIInv, FeedNextKeeps, PTL

-----------------------------------------------------------------------------
(***************************************************************************)
(* Comment threads.  A page that the server has served holds the replies of *)
(* its rank, so that what the calls take from it or add to it can be        *)
(* counted against the replies that are there.                              *)
(***************************************************************************)
ReplySteps(steps) ==
  [step : steps, page : Nat \ {0}, count : Nat, reply : Replies \union {0}]
ReplyPages == [comments : SUBSET Replies, total : Nat, counted : SUBSET Replies]

\* The replies that are still to come.
ToCome == threadBudget.later

ListRuns == [step : {"none", "asked", "served", "next"}, count : Nat]
Afloat   == [posts : Nat, deletions : SUBSET Replies]

\* Each turn goes one page further at most, so that the pages suffice.
ThreadTyped ==
  /\ replies \in SUBSET Replies /\ replies \intersect ToCome = {}
  /\ replyCount \in Nat
  /\ view \in [show : BOOLEAN, page : Nat \ {0}]
  /\ view.page + threadBudget.turns <= MaxTurns + 1
  /\ \A p \in Pages : cache[p] = Absent \/ cache[p] \in ReplyPages
  /\ cache = [p \in Pages |-> cache[p]]
  /\ kept \in ReplyPages
  /\ listing \in [step : {"none", "asked", "served"}, page : Nat \ {0}, value : ReplyPages]
  /\ posting \in [Composers -> ReplySteps({"none", "sent", "created"})]
  /\ \A c \in Composers : posting[c].step = "created" => posting[c].reply \in Replies
  /\ loading \subseteq [reply : Replies, page : Nat \ {0}, count : Nat]
  /\ removal \in [step : {"none", "sent", "deleted", "error"}, reply : Replies \union {0},
                  page : Nat \ {0}, count : Nat, alone : BOOLEAN]
  /\ removal.step # "none" => removal.reply \in Replies
  /\ threadBudget \in [turns : Nat, calls : Nat, faults : Nat, later : SUBSET Replies]
  /\ listRun \in ListRuns /\ adrift \in Afloat
  /\ Cardinality(Sending) + adrift.posts <= Cardinality(ToCome)

\* The pages are turned one at a time, and what is asked for is the page of
\* the view; a hidden thread is on its first page.
PageOfView ==
  /\ listing.step # "none" => listing.page = view.page
  /\ ~view.show => view.page = 1

\* What a page has counted is not to come.
CountedHasCome ==
  /\ \A p \in Pages : cache[p].counted \intersect ToCome = {}
  /\ kept.counted \intersect ToCome = {}
  /\ listing.value.counted \intersect ToCome = {}

\* One call of the viewer at a time.
CallsApart ==
  /\ \A c, d \in Composers : posting[c].step # "none" /\ posting[d].step # "none" => c = d
  /\ \A l, m \in loading : l = m
  /\ \A c \in Composers : posting[c].step # "none" => loading = {} /\ removal.step = "none"
  /\ loading # {} => removal.step = "none"

\* What a call has done to the counter at each of its steps.
CounterFollows ==
  LET n == Cardinality(replies) IN
    /\ \A c \in Composers :
         /\ posting[c].step = "sent" => posting[c].count = n
         /\ posting[c].step = "created" => posting[c].count + 1 = n
    /\ removal.step = "sent" => removal.count = n /\ replyCount = Least0(n - 1)
    /\ removal.step = "error" => removal.count = n
    /\ (\A c \in Composers : posting[c].step # "created") /\ removal.step \in {"none", "deleted"} =>
         replyCount = n

\* The page has a row that it shows, of replies rows.
Before(page) == (page - 1) * RepliesPerPage
InRange(page, rows) == page = 1 \/ Before(page) < Cardinality(rows)

\* data is a page of these rows that does not strand the reader.
Shows(data, page, rows) ==
  /\ data \in ReplyPages /\ data.comments \subseteq rows
  /\ data.total = Cardinality(rows)
  /\ data.comments = {} => rows = {}
  /\ rows \subseteq data.comments \/ Cardinality(rows) > RepliesPerPage
  /\ page # 1 => Before(page) + Cardinality(data.comments) <= Cardinality(rows)

\* The replies that data should show: one just created is not there unless it
\* has been counted, one just deleted still is.
Unlisted(data) ==
  {r \in replies \ data.counted :
     \/ \E c \in Composers : posting[c].step = "created" /\ posting[c].reply = r
     \/ \E l \in loading : l.reply = r}
JustDeleted    == {r \in Replies : removal.step = "deleted" /\ removal.reply = r}
Expected(data) == (replies \ Unlisted(data)) \union JustDeleted

\* The page of the view shows what it should, or is asked for.
PageShows ==
  LET data == cache[view.page] IN
    /\ InRange(view.page, replies \union JustDeleted)
    /\ view.show /\ listing.step = "none" => Shows(data, view.page, Expected(data))
    /\ listing.step = "served" => Shows(listing.value, listing.page, listing.value.counted)

\* What the calls have kept of their render is still so.
RendersHold ==
  /\ \A c \in Composers :
       /\ posting[c].step # "none" => posting[c].page = view.page
       /\ posting[c].step = "created" => posting[c].reply \in replies
  /\ \A l \in loading : l.page = view.page /\ l.reply \in replies /\ view.show
  /\ removal.step # "none" =>
       /\ view.show /\ listing.step = "none" /\ removal.page = view.page
       /\ removal.reply \in cache[view.page].comments
       /\ removal.alone = (cache[view.page].comments = {removal.reply})
       /\ removal.step = "deleted" => removal.reply \notin replies

ThreadPlain == ThreadTyped /\ PageOfView /\ CountedHasCome

ThreadIInv ==
  /\ ThreadPlain
  /\ tangled \intersect {"overlap", "foreign", "lost", "listed"} = {} => CallsApart /\ CounterFollows
  /\ tangled = {} => PageShows /\ RendersHold

\* Pages by number: page p of a list has the rows of rank Before(p) and up.
LEMMA Division ==
  ASSUME NEW n \in Nat, NEW d \in Nat \ {0}
  PROVE  /\ n \div d \in Nat
         /\ d * (n \div d) <= n /\ n < d * (n \div d) + d
OBVIOUS

LEMMA Multiples ==
  ASSUME NEW a \in Nat, NEW b \in Nat, NEW d \in Nat \ {0}
  PROVE  /\ d * a \in Nat
         /\ a <= b => d * a <= d * b
         /\ d * (a + 1) = d * a + d
OBVIOUS

LEMMA BeforeFacts ==
  ASSUME NEW p \in Nat \ {0}
  PROVE  /\ RepliesPerPage \in Nat \ {0} /\ Before(p) \in Nat /\ Before(1) = 0
         /\ Before(p) = RepliesPerPage * (p - 1)
         /\ Before(p + 1) = Before(p) + RepliesPerPage
         /\ p > 1 => Before(p - 1) + RepliesPerPage = Before(p)
<1>1. RepliesPerPage \in Nat \ {0} /\ p - 1 \in Nat
  BY ThreadAssumption
<1>2. Before(p) = RepliesPerPage * (p - 1) /\ Before(p + 1) = RepliesPerPage * p
  BY <1>1 DEF Before
<1>3. RepliesPerPage * (p - 1) \in Nat /\ RepliesPerPage * p = RepliesPerPage * (p - 1) + RepliesPerPage
  BY <1>1, Multiples
<1>4. p > 1 => Before(p - 1) + RepliesPerPage = Before(p)
  <2> SUFFICES ASSUME p > 1 PROVE Before(p - 1) + RepliesPerPage = Before(p)
    OBVIOUS
  <2>1. p - 2 \in Nat /\ (p - 2) + 1 = p - 1 /\ (p - 1) - 1 = p - 2
    OBVIOUS
  <2>2. RepliesPerPage * ((p - 2) + 1) = RepliesPerPage * (p - 2) + RepliesPerPage
    BY <1>1, <2>1, Multiples
  <2>3. Before(p - 1) = RepliesPerPage * (p - 2)
    BY <1>1, <2>1 DEF Before
  <2> QED BY <1>2, <2>1, <2>2, <2>3
<1> QED BY <1>1, <1>2, <1>3, <1>4 DEF Before

\* A page has a row just if it is not past the last page.
LEMMA CeilFacts ==
  ASSUME NEW n \in Nat, NEW p \in Nat \ {0}
  PROVE  /\ Ceil(n) \in Nat
         /\ p <= Ceil(n) <=> Before(p) < n
<1>1. RepliesPerPage \in Nat \ {0} /\ Before(p) = RepliesPerPage * (p - 1) /\ p - 1 \in Nat
  BY BeforeFacts
<1>2. PICK q : q = (n + RepliesPerPage - 1) \div RepliesPerPage
  OBVIOUS
<1>3. /\ q \in Nat /\ RepliesPerPage * q <= n + RepliesPerPage - 1
      /\ n + RepliesPerPage - 1 < RepliesPerPage * q + RepliesPerPage
  <2>1. n + RepliesPerPage - 1 \in Nat
    BY <1>1
  <2> QED BY <1>1, <1>2, <2>1, Division
<1>4. ASSUME p <= q PROVE RepliesPerPage * (p - 1) < n
  <2>1. q - 1 \in Nat /\ p - 1 <= q - 1 /\ (q - 1) + 1 = q
    BY <1>3, <1>4
  <2>2. /\ RepliesPerPage * (p - 1) <= RepliesPerPage * (q - 1)
        /\ RepliesPerPage * ((q - 1) + 1) = RepliesPerPage * (q - 1) + RepliesPerPage
        /\ RepliesPerPage * (q - 1) \in Nat /\ RepliesPerPage * (p - 1) \in Nat
    BY <1>1, <2>1, Multiples
  <2> QED BY <1>1, <1>3, <2>1, <2>2
<1>5. ASSUME ~(p <= q) PROVE ~(RepliesPerPage * (p - 1) < n)
  <2>1. q <= p - 1
    BY <1>3, <1>5
  <2>2. /\ RepliesPerPage * q <= RepliesPerPage * (p - 1)
        /\ RepliesPerPage * q \in Nat /\ RepliesPerPage * (p - 1) \in Nat
    BY <1>1, <1>3, <2>1, Multiples
  <2> QED BY <1>1, <1>3, <2>2
<1> QED BY <1>1, <1>2, <1>3, <1>4, <1>5 DEF Ceil

\* The rows of a rank, and the ranks of a page.
Rank(F, m) == Cardinality({n \in F : n < m})

LEMMA RankTyped ==
  ASSUME NEW F \in SUBSET Nat, IsFiniteSet(F), NEW m \in F
  PROVE  /\ Rank(F, m) \in Nat
         /\ \A n \in F : m <= n => Rank(F, m) <= Rank(F, n)
         /\ Rank(F, m) < Cardinality(F)
<1> DEFINE Below(k) == {n \in F : n < k}
<1>1. \A k \in F : Below(k) \in SUBSET F /\ IsFiniteSet(Below(k)) /\ Cardinality(Below(k)) \in Nat
  BY FS_Subset, FS_CardinalityType
<1>2. ASSUME NEW n \in F, m <= n PROVE Cardinality(Below(m)) <= Cardinality(Below(n))
  <2>1. \A k \in F : k \in Nat
    OBVIOUS
  <2>2. \A k \in F : k < m => k < n
    BY <1>2, <2>1
  <2>3. Below(m) \in SUBSET Below(n)
    BY <2>2
  <2> QED BY <1>1, <2>3, FS_Subset
<1>3. Cardinality(Below(m)) < Cardinality(F)
  <2>1. m \notin Below(m) /\ Below(m) \in SUBSET (F \ {m})
    OBVIOUS
  <2>2. IsFiniteSet(F \ {m}) /\ Cardinality(F \ {m}) = Cardinality(F) - 1 /\ Cardinality(F) \in Nat
    BY FS_RemoveElement, FS_CardinalityType
  <2>3. Cardinality(Below(m)) <= Cardinality(F \ {m})
    BY <2>1, <2>2, FS_Subset
  <2> HIDE DEF Below
  <2> QED BY <1>1, <2>2, <2>3
<1> QED BY <1>1, <1>2, <1>3 DEF Rank

\* Those of less than a rank are as many, if there are so many.
LEMMA RanksCount ==
  ASSUME NEW F \in SUBSET Nat, IsFiniteSet(F), NEW k \in Nat, k < Cardinality(F)
  PROVE  /\ Cardinality({m \in F : Rank(F, m) < k}) = k
         /\ \E m \in F : Rank(F, m) = k
<1> DEFINE B == {m \in F : Rank(F, m) < k}
           A == F \ B
<1>1. /\ IsFiniteSet(B) /\ B \in SUBSET F /\ Cardinality(B) \in Nat /\ Cardinality(F) \in Nat
      /\ IsFiniteSet(A) /\ A \in SUBSET Nat
  BY FS_Subset, FS_CardinalityType
<1>2. Cardinality(B) <= k
  <2> SUFFICES ASSUME B # {} PROVE Cardinality(B) <= k
    <3>1. B = {} => Cardinality(B) = 0
      BY FS_EmptySet
    <3> QED BY <3>1
  <2>1. PICK b \in B : \A y \in B : y <= b
    BY <1>1, HasGreatest
  <2>2. /\ b \in F /\ Rank(F, b) < k /\ b \in Nat
        /\ IsFiniteSet({n \in F : n < b}) /\ Rank(F, b) \in Nat
    BY <2>1, RankTyped, FS_Subset
  <2>3. B \in SUBSET ({n \in F : n < b} \union {b})
    <3>1. \A y \in B : y \in F /\ y \in Nat /\ y <= b
      BY <2>1
    <3> HIDE DEF B
    <3> QED BY <2>2, <3>1
  <2>4. /\ IsFiniteSet({n \in F : n < b} \union {b})
        /\ Cardinality({n \in F : n < b} \union {b}) = Rank(F, b) + 1
    <3>1. b \notin {n \in F : n < b}
      BY <2>2
    <3> QED BY <2>2, <3>1, FS_AddElement DEF Rank
  <2>5. Cardinality(B) <= Rank(F, b) + 1
    BY <2>3, <2>4, FS_Subset
  <2> HIDE DEF B
  <2> QED BY <1>1, <2>2, <2>5
<1>3. A # {}
  <2>1. A = {} => B = F
    OBVIOUS
  <2> HIDE DEF A, B
  <2> QED BY <1>1, <1>2, <2>1
<1>4. PICK m \in A : \A y \in A : m <= y
  BY <1>1, <1>3, HasLeast
<1>5. m \in F /\ m \in Nat /\ ~(Rank(F, m) < k) /\ Rank(F, m) \in Nat
  BY <1>4, RankTyped
<1>6. {n \in F : n < m} = B
  <2>1. ASSUME NEW n \in F, n < m PROVE n \in B
    <3>1. n \in Nat
      OBVIOUS
    <3>2. n \notin A
      BY <1>4, <1>5, <2>1, <3>1
    <3> QED BY <3>2
  <2>2. ASSUME NEW n \in B PROVE n < m
    <3>1. n \in F /\ n \in Nat /\ Rank(F, n) < k /\ Rank(F, n) \in Nat
      BY RankTyped
    <3>2. ~(m <= n)
      <4>1. m <= n => Rank(F, m) <= Rank(F, n)
        BY <1>5, <3>1, RankTyped
      <4> QED BY <1>5, <3>1, <4>1
    <3> QED BY <1>5, <3>1, <3>2
  <2> QED BY <2>1, <2>2
<1>7. Rank(F, m) = Cardinality(B)
  BY <1>6 DEF Rank
<1> HIDE DEF A, B
<1>8. Cardinality(B) = k /\ Rank(F, m) = k
  BY <1>1, <1>2, <1>5, <1>7
<1> QED BY <1>5, <1>8 DEF B

LEMMA ThreadBounds ==
  /\ IsFiniteSet(Replies) /\ Replies \in SUBSET (Nat \ {0}) /\ IsFiniteSet(Composers)
  /\ OldReplies \in SUBSET Replies /\ RepliesPerPage \in Nat \ {0}
  /\ MaxTurns \in Nat /\ MaxReplyCalls \in Nat /\ MaxThreadFaults \in Nat
  /\ \A s \in SUBSET Replies : IsFiniteSet(s) /\ Cardinality(s) \in Nat /\ s \in SUBSET Nat
<1>1. \A s \in SUBSET Replies : IsFiniteSet(s) /\ Cardinality(s) \in Nat
  BY ThreadAssumption, FS_Subset, FS_CardinalityType
<1> QED BY <1>1, ThreadAssumption

LEMMA RanksOfPage ==
  ASSUME NEW p \in Nat \ {0}, NEW rank \in Nat
  PROVE  (rank \div RepliesPerPage = p - 1)
           <=> (Before(p) <= rank /\ rank < Before(p) + RepliesPerPage)
<1>1. /\ RepliesPerPage \in Nat \ {0} /\ Before(p) = RepliesPerPage * (p - 1) /\ p - 1 \in Nat
      /\ Before(p) \in Nat
  BY BeforeFacts
<1>2. PICK q : q = rank \div RepliesPerPage
  OBVIOUS
<1>3. q \in Nat /\ RepliesPerPage * q <= rank /\ rank < RepliesPerPage * q + RepliesPerPage
  BY <1>1, <1>2, Division
<1>4. ASSUME q < p - 1 PROVE ~(Before(p) <= rank)
  <2>1. /\ RepliesPerPage * (q + 1) <= RepliesPerPage * (p - 1)
        /\ RepliesPerPage * (q + 1) = RepliesPerPage * q + RepliesPerPage
        /\ RepliesPerPage * q \in Nat
    BY <1>1, <1>3, <1>4, Multiples
  <2> QED BY <1>1, <1>3, <2>1
<1>5. ASSUME p - 1 < q PROVE ~(rank < Before(p) + RepliesPerPage)
  <2>1. /\ RepliesPerPage * ((p - 1) + 1) <= RepliesPerPage * q
        /\ RepliesPerPage * ((p - 1) + 1) = RepliesPerPage * (p - 1) + RepliesPerPage
        /\ RepliesPerPage * q \in Nat
    BY <1>1, <1>3, <1>5, Multiples
  <2> QED BY <1>1, <1>3, <2>1
<1>6. q = p - 1 \/ q < p - 1 \/ p - 1 < q
  BY <1>1, <1>3
<1> QED BY <1>1, <1>2, <1>3, <1>4, <1>5, <1>6

\* What the server answers is a page of its replies; in range it has a row.
LEMMA ServedShows ==
  ASSUME replies \in SUBSET Replies, NEW p \in Nat \ {0}
  PROVE  /\ ServedReplies(p) \in ReplyPages /\ ServedReplies(p).counted = replies
         /\ InRange(p, replies) => Shows(ServedReplies(p), p, replies)
<1> DEFINE rows == {r \in replies : Rank(replies, r) \div RepliesPerPage = p - 1}
           n    == Cardinality(replies)
<1>1. ServedReplies(p) = [comments |-> rows, counted |-> replies,
                          total |-> IF rows = {} THEN 0 ELSE n]
  BY DEF ServedReplies, Rank
<1>2. /\ IsFiniteSet(replies) /\ n \in Nat /\ replies \in SUBSET Nat /\ rows \in SUBSET replies
      /\ IsFiniteSet(rows) /\ Cardinality(rows) \in Nat
  BY ThreadBounds
<1>3. /\ RepliesPerPage \in Nat \ {0} /\ Before(p) \in Nat /\ Before(1) = 0
  BY BeforeFacts
<1>4. rows = {r \in replies : /\ Before(p) <= Rank(replies, r)
                              /\ Rank(replies, r) < Before(p) + RepliesPerPage}
  <2>1. \A r \in replies : Rank(replies, r) \in Nat
    BY <1>2, RankTyped
  <2> QED BY <2>1, RanksOfPage
<1>5. ASSUME Before(p) < n
      PROVE  rows # {} /\ Before(p) + Cardinality(rows) <= n
  <2>1. /\ Cardinality({m \in replies : Rank(replies, m) < Before(p)}) = Before(p)
        /\ \E m \in replies : Rank(replies, m) = Before(p)
    BY <1>2, <1>3, <1>5, RanksCount
  <2>2. rows # {}
    BY <1>3, <1>4, <2>1
  <2> DEFINE earlier == {m \in replies : Rank(replies, m) < Before(p)}
  <2>3. /\ earlier \intersect rows = {} /\ earlier \in SUBSET replies
        /\ IsFiniteSet(earlier)
    <3>1. earlier \in SUBSET replies /\ IsFiniteSet(earlier)
      BY <1>2, FS_Subset
    <3>2. \A r \in rows : r \notin earlier
      <4>1. \A r \in replies : Rank(replies, r) \in Nat
        BY <1>2, RankTyped
      <4> QED BY <1>3, <1>4, <4>1
    <3> QED BY <3>1, <3>2
  <2> HIDE DEF earlier, rows
  <2>4. Cardinality(earlier \union rows) = Cardinality(earlier) + Cardinality(rows)
    <3>1. Cardinality(earlier \intersect rows) = 0
      BY <2>3, FS_EmptySet
    <3>2. Cardinality(earlier) \in Nat
      BY <2>3, FS_CardinalityType
    <3>3. Cardinality(earlier \union rows)
            = Cardinality(earlier) + Cardinality(rows) - Cardinality(earlier \intersect rows)
      BY <1>2, <2>3, FS_Union
    <3> QED BY <1>2, <3>1, <3>2, <3>3
  <2>5. Cardinality(earlier \union rows) <= n
    <3>1. earlier \union rows \in SUBSET replies
      BY <1>2, <2>3
    <3> QED BY <1>2, <3>1, FS_Subset
  <2> QED BY <2>1, <2>2, <2>4, <2>5 DEF earlier
<1>6. ASSUME p = 1, n <= RepliesPerPage PROVE rows = replies
  <2>1. \A r \in replies : Rank(replies, r) \in Nat /\ Rank(replies, r) < n
    BY <1>2, RankTyped
  <2>2. Before(p) = 0
    BY <1>3, <1>6
  <2>3. \A r \in replies : Before(p) <= Rank(replies, r) /\ Rank(replies, r) < Before(p) + RepliesPerPage
    BY <1>2, <1>3, <1>6, <2>1, <2>2
  <2> HIDE DEF rows, n
  <2> QED BY <1>4, <2>3
<1> HIDE DEF rows
<1>7. ServedReplies(p) \in ReplyPages /\ ServedReplies(p).counted = replies
  BY <1>1, <1>2 DEF ReplyPages
<1>8. ASSUME InRange(p, replies) PROVE Shows(ServedReplies(p), p, replies)
  <2>1. rows = {} => replies = {} /\ n = 0
    <3>1. replies = {} => n = 0
      BY FS_EmptySet
    <3>2. n = 0 => replies = {}
      BY <1>2, FS_EmptySet
    <3>3. rows = {} => p = 1 /\ ~(0 < n)
      BY <1>3, <1>5, <1>8 DEF InRange
    <3> QED BY <1>2, <3>1, <3>2, <3>3
  <2>2. replies \subseteq rows \/ n > RepliesPerPage
    <3>1. CASE p = 1
      BY <1>2, <1>3, <1>6, <3>1
    <3>2. CASE p # 1
      <4>1. p - 1 \in Nat \ {0} /\ Before(p - 1) + RepliesPerPage = Before(p) /\ Before(p - 1) \in Nat
        <5>1. p - 1 \in Nat \ {0} /\ p > 1
          BY <3>2
        <5> QED BY <5>1, BeforeFacts
      <4>2. Before(p) < n
        BY <1>8, <3>2 DEF InRange
      <4> QED BY <1>2, <1>3, <4>1, <4>2
    <3> QED BY <3>1, <3>2
  <2>3. p # 1 => Before(p) + Cardinality(rows) <= n
    BY <1>5, <1>8 DEF InRange
  <2> QED BY <1>1, <1>2, <1>7, <2>1, <2>2, <2>3 DEF Shows
<1> QED BY <1>7, <1>8

LEMMA ThreadInitIInv == ThreadInit => ThreadIInv
<1> SUFFICES ASSUME ThreadInit PROVE ThreadIInv
  OBVIOUS
<1>1. /\ NoPage \in ReplyPages /\ NoListing.step = "none" /\ NoListing.page = 1
      /\ NoListing.value = NoPage /\ NoPage.counted = {}
      /\ NoListing \in [step : {"none", "asked", "served"}, page : Nat \ {0}, value : ReplyPages]
  BY DEF NoPage, NoListing, ReplyPages
<1>2. /\ NoPosting \in ReplySteps({"none", "sent", "created"}) /\ NoPosting.step = "none"
      /\ NoRemoval \in [step : {"none", "sent", "deleted", "error"}, reply : Replies \union {0},
                        page : Nat \ {0}, count : Nat, alone : BOOLEAN]
      /\ NoRemoval.step = "none"
  BY DEF NoPosting, NoRemoval, ReplySteps
<1>3. /\ replies \in SUBSET Replies /\ Cardinality(replies) \in Nat
      /\ ToCome \in SUBSET Replies /\ Cardinality(ToCome) \in Nat /\ replies \intersect ToCome = {}
      /\ Sending = {} /\ Cardinality({}) = 0
  BY <1>2, ThreadBounds, FS_EmptySet DEF ThreadInit, ToCome, Sending
<1>4. ThreadTyped
  <2>1. listRun \in ListRuns /\ adrift \in Afloat /\ adrift.posts = 0
    BY DEF ThreadInit, NoListRun, NoneAdrift, ListRuns, Afloat
  <2> QED BY <1>1, <1>2, <1>3, <2>1, ThreadBounds DEF ThreadInit, ThreadTyped, ToCome, Pages
<1>5. PageOfView /\ CountedHasCome
  BY <1>1 DEF ThreadInit, PageOfView, CountedHasCome, Absent
<1>6. CallsApart /\ CounterFollows
  BY <1>2, <1>3 DEF ThreadInit, CallsApart, CounterFollows
<1>7. RendersHold
  BY <1>2 DEF ThreadInit, RendersHold
<1>8. PageShows
  BY <1>1, <1>2 DEF ThreadInit, PageShows, InRange
<1> QED BY <1>4, <1>5, <1>6, <1>7, <1>8 DEF ThreadIInv, ThreadPlain

LEMMA DataTyped ==
  ASSUME ThreadPlain
  PROVE  /\ view.page \in Pages /\ Data \in ReplyPages /\ Data.counted \intersect ToCome = {}
         /\ Ceil(Data.total) \in Nat
<1>1. view.page \in Pages
  BY ThreadBounds DEF ThreadPlain, ThreadTyped, Pages
<1>2. Data \in ReplyPages
  BY <1>1 DEF ThreadPlain, ThreadTyped, Data
<1>3. Data.counted \intersect ToCome = {}
  BY <1>1 DEF ThreadPlain, CountedHasCome, Data
<1>4. Data.total \in Nat
  BY <1>2 DEF ReplyPages
<1> QED BY <1>1, <1>2, <1>3, <1>4, CeilFacts

Listings == [step : {"none", "asked", "served"}, page : Nat \ {0}, value : ReplyPages]

\* Whatever is asked for is the page of the view.
LEMMA ListingFollows ==
  ASSUME ThreadPlain, NEW page \in Nat \ {0}, NEW show \in BOOLEAN, ListReplies(page, show)
  PROVE  /\ listing' \in Listings
         /\ listing'.step # "none" => listing'.page = page
         /\ show => listing'.step # "none"
         /\ listing'.step = "served" => listing' = listing
         /\ listing'.value.counted \intersect ToCome = {}
<1>1. /\ NoListing \in Listings /\ NoListing.step = "none" /\ NoListing.value.counted = {}
      /\ [NoListing EXCEPT !.step = "asked", !.page = page] \in Listings
      /\ [NoListing EXCEPT !.step = "asked", !.page = page].value = NoListing.value
      /\ [NoListing EXCEPT !.step = "asked", !.page = page].page = page
      /\ [NoListing EXCEPT !.step = "asked", !.page = page].step = "asked"
  <2>1. NoPage \in ReplyPages /\ NoPage.counted = {}
    BY DEF NoPage, ReplyPages
  <2>2. /\ NoListing \in Listings /\ NoListing.step = "none" /\ NoListing.value = NoPage
    BY <2>1 DEF NoListing, Listings
  <2>3. /\ [NoListing EXCEPT !.step = "asked", !.page = page] \in Listings
        /\ [NoListing EXCEPT !.step = "asked", !.page = page].value = NoListing.value
        /\ [NoListing EXCEPT !.step = "asked", !.page = page].page = page
        /\ [NoListing EXCEPT !.step = "asked", !.page = page].step = "asked"
    <3> HIDE DEF NoListing
    <3> QED BY <2>2 DEF Listings
  <2> QED BY <2>1, <2>2, <2>3
<1>2. listing' = IF show /\ (listing.step = "none" \/ listing.page # page)
                 THEN [NoListing EXCEPT !.step = "asked", !.page = page]
                 ELSE IF listing.page # page THEN NoListing ELSE listing
  BY DEF ListReplies, useCommentServiceListReplies, commentServiceListReplies, Query, Get, Request
<1>3. listing \in Listings /\ listing.value.counted \intersect ToCome = {}
  BY DEF ThreadPlain, ThreadTyped, CountedHasCome, Listings
<1> QED BY <1>1, <1>2, <1>3

LEMMA TurnFollows ==
  ASSUME ThreadPlain, NEW page \in Nat \ {0}, NEW show \in BOOLEAN, Turn(page, show)
  PROVE  /\ view' = [show |-> show, page |-> page]
         /\ view'.page = page /\ (view'.show => listing'.step # "none")
         /\ kept' \in ReplyPages /\ kept'.counted \intersect ToCome = {}
         /\ listing' \in Listings
         /\ listing'.step # "none" => listing'.page = page
         /\ show => listing'.step # "none"
         /\ listing'.step = "served" => listing' = listing
         /\ listing'.value.counted \intersect ToCome = {}
<1>1. /\ view' = [show |-> show, page |-> page] /\ kept' = Data /\ ListReplies(page, show)
  BY DEF Turn
<1>2. CASE show = TRUE
  BY <1>1, <1>2, DataTyped, ListingFollows
<1>3. CASE show = FALSE
  <2>1. view'.page = page /\ view'.show = FALSE
    BY <1>1, <1>3
  <2> QED BY <1>1, <1>3, <2>1, DataTyped, ListingFollows
<1> QED BY <1>2, <1>3

ReplyBudgets  == [turns : Nat, calls : Nat, faults : Nat, later : SUBSET Replies]
ReplyRemovals == [step : {"none", "sent", "deleted", "error"}, reply : Replies \union {0},
                  page : Nat \ {0}, count : Nat, alone : BOOLEAN]

LEMMA ThreadSpends ==
  ASSUME ThreadPlain, NEW what \in {"turns", "calls", "faults"}, ThreadSpend(what)
  PROVE  /\ threadBudget' \in ReplyBudgets /\ ToCome' = ToCome
         /\ threadBudget'.turns = IF what = "turns" THEN threadBudget.turns - 1
                                                    ELSE threadBudget.turns
BY DEF ThreadPlain, ThreadTyped, ThreadSpend, ReplyBudgets, ToCome

\* The thread is shown, hidden, or turned.
LEMMA TurnsPlain ==
  ASSUME ThreadPlain, handleShowReplies \/ TurnPage
  PROVE  ThreadPlain'
<1>1. PICK page \in Nat \ {0}, show \in BOOLEAN :
        Turn(page, show) /\ page <= view.page + 1 /\ (~show => page = 1)
  <2>1. view \in [show : BOOLEAN, page : Nat \ {0}]
    BY DEF ThreadPlain, ThreadTyped
  <2>2. CASE handleShowReplies
    <3>1. Turn(1, ~view.show)
      BY <2>2, Zenon DEF handleShowReplies
    <3>2. (~view.show) \in BOOLEAN
      OBVIOUS
    <3>3. 1 \in Nat \ {0} /\ 1 <= view.page + 1
      BY <2>1
    <3> QED BY <3>1, <3>2, <3>3, Zenon
  <2>3. CASE TurnPage
    <3>1. \/ Turn(view.page + 1, TRUE)
          \/ view.page > 1 /\ Turn(view.page - 1, TRUE)
      BY <2>3 DEF TurnPage
    <3>2. CASE Turn(view.page + 1, TRUE)
      <4>1. view.page + 1 \in Nat \ {0} /\ view.page + 1 <= view.page + 1
        BY <2>1
      <4> QED BY <3>2, <4>1
    <3>3. CASE view.page > 1 /\ Turn(view.page - 1, TRUE)
      <4>1. view.page - 1 \in Nat \ {0} /\ view.page - 1 <= view.page + 1
        BY <2>1, <3>3
      <4> QED BY <3>3, <4>1
    <3> QED BY <3>1, <3>2, <3>3
  <2> QED BY <2>2, <2>3
<1>2. /\ threadBudget' \in ReplyBudgets /\ ToCome' = ToCome
      /\ threadBudget'.turns = threadBudget.turns - 1 /\ threadBudget'.turns \in Nat
  <2>1. ThreadSpend("turns")
    BY DEF handleShowReplies, TurnPage
  <2> QED BY <2>1, ThreadSpends DEF ReplyBudgets
<1>3. UNCHANGED <<replies, replyCount, cache, posting, loading, removal, listRun, adrift>>
  BY DEF handleShowReplies, TurnPage
<1>4. /\ view' = [show |-> show, page |-> page]
      /\ kept' \in ReplyPages /\ kept'.counted \intersect ToCome = {}
      /\ listing' \in Listings
      /\ listing'.step # "none" => listing'.page = page
      /\ listing'.value.counted \intersect ToCome = {}
  BY <1>1, TurnFollows
<1>5. view'.page + threadBudget'.turns <= MaxTurns + 1
  BY <1>1, <1>2, <1>4, ThreadBounds DEF ThreadPlain, ThreadTyped
<1>6. ThreadTyped'
  BY <1>2, <1>3, <1>4, <1>5 DEF ThreadPlain, ThreadTyped, Listings, ReplyBudgets, Sending
<1>7. PageOfView' /\ CountedHasCome'
  BY <1>1, <1>2, <1>3, <1>4 DEF ThreadPlain, PageOfView, CountedHasCome
<1> QED BY <1>6, <1>7 DEF ThreadPlain

\* The list is answered, or its answer shown.
LEMMA ListPlain ==
  ASSUME ThreadPlain, RepliesServed \/ RepliesShown
  PROVE  ThreadPlain'
<1>1. /\ UNCHANGED <<replies, replyCount, view, kept, posting, loading, removal, threadBudget, listRun,
                  adrift>>
      /\ ToCome' = ToCome
  BY DEF RepliesServed, RepliesShown, ToCome
<1>2. CASE RepliesServed
  <2>1. /\ listing \in Listings /\ listing.page \in Nat \ {0} /\ replies \in SUBSET Replies
        /\ replies \intersect ToCome = {}
    BY DEF ThreadPlain, ThreadTyped, Listings
  <2>2. /\ ServedReplies(listing.page) \in ReplyPages
        /\ ServedReplies(listing.page).counted = replies
    BY <2>1, ServedShows
  <2>3. /\ listing' = [listing EXCEPT !.step = "served", !.value = ServedReplies(listing.page)]
        /\ listing.step = "asked" /\ UNCHANGED cache
    BY <1>2 DEF RepliesServed
  <2>4. /\ listing' \in Listings /\ listing'.page = listing.page
        /\ listing'.value.counted = replies
    BY <2>1, <2>2, <2>3 DEF Listings
  <2>5. ThreadTyped'
    BY <1>1, <2>3, <2>4 DEF ThreadPlain, ThreadTyped, Listings, Sending
  <2> QED BY <1>1, <2>1, <2>3, <2>4, <2>5 DEF ThreadPlain, PageOfView, CountedHasCome
<1>3. CASE RepliesShown
  <2>1. /\ cache' = [cache EXCEPT ![listing.page] = listing.value] /\ listing' = NoListing
        /\ listing.value \in ReplyPages /\ listing.value.counted \intersect ToCome = {}
    BY <1>3 DEF RepliesShown, ThreadPlain, ThreadTyped, CountedHasCome
  <2>2. NoListing \in Listings /\ NoListing.step = "none" /\ NoListing.value.counted = {}
    <3>1. NoPage \in ReplyPages /\ NoPage.counted = {}
      BY DEF NoPage, ReplyPages
    <3> QED BY <3>1 DEF NoListing, Listings
  <2>3. /\ cache' = [p \in Pages |-> cache'[p]]
        /\ \A p \in Pages : cache'[p] = cache[p] \/ cache'[p] = listing.value
    BY <2>1 DEF ThreadPlain, ThreadTyped
  <2>4. ThreadTyped'
    BY <1>1, <2>1, <2>2, <2>3 DEF ThreadPlain, ThreadTyped, Listings, Sending
  <2> QED BY <1>1, <2>1, <2>2, <2>3, <2>4 DEF ThreadPlain, PageOfView, CountedHasCome
<1> QED BY <1>2, <1>3

LEMMA NewPosting ==
  /\ NoPosting \in ReplySteps({"none", "sent", "created"}) /\ NoPosting.step = "none"
  /\ NoRemoval \in ReplyRemovals /\ NoRemoval.step = "none"
BY DEF NoPosting, NoRemoval, ReplySteps, ReplyRemovals

\* A dialog sends a reply: one more.
LEMMA SubmitPlain ==
  ASSUME ThreadPlain, NEW c \in Composers, SubmitReply(c)
  PROVE  /\ ThreadPlain'
         /\ posting' = [posting EXCEPT ![c] = posting'[c]]
         /\ posting'[c].step = "sent" /\ posting'[c].page = view.page
         /\ posting'[c].count = replyCount
<1> DEFINE asked == [NoPosting EXCEPT !.step = "sent", !.page = view.page, !.count = replyCount]
<1>1. /\ posting' = [posting EXCEPT ![c] = asked] /\ posting[c].step = "none"
      /\ Cardinality(ToCome) > Cardinality(Sending) + adrift.posts /\ ThreadSpend("calls")
      /\ UNCHANGED <<replies, replyCount, view, cache, kept, listing, loading, removal, listRun,
                     adrift>>
  BY DEF SubmitReply, ToCome
<1>2. /\ view.page \in Nat \ {0} /\ replyCount \in Nat
      /\ posting \in [Composers -> ReplySteps({"none", "sent", "created"})]
  BY DEF ThreadPlain, ThreadTyped
<1>3. /\ asked \in ReplySteps({"none", "sent", "created"}) /\ asked.step = "sent"
      /\ asked.page = view.page /\ asked.count = replyCount
  <2> HIDE DEF NoPosting
  <2> QED BY <1>2, NewPosting DEF ReplySteps
<1> HIDE DEF asked
<1>4. /\ threadBudget' \in ReplyBudgets /\ ToCome' = ToCome
      /\ threadBudget'.turns = threadBudget.turns
  BY <1>1, ThreadSpends
<1>5. /\ posting' \in [Composers -> ReplySteps({"none", "sent", "created"})]
      /\ posting'[c] = asked /\ \A d \in Composers \ {c} : posting'[d] = posting[d]
  BY <1>1, <1>2, <1>3
<1>6. Cardinality(Sending') + adrift'.posts <= Cardinality(ToCome')
  <2>1. Sending' = Sending \union {c} /\ c \notin Sending
    BY <1>1, <1>3, <1>5 DEF Sending
  <2>2. IsFiniteSet(Sending)
    <3>1. Sending \in SUBSET Composers
      BY DEF Sending
    <3> QED BY <3>1, ThreadBounds, FS_Subset
  <2>3. Cardinality(Sending') = Cardinality(Sending) + 1 /\ Cardinality(Sending) \in Nat
    BY <2>1, <2>2, FS_AddElement, FS_CardinalityType
  <2>4. Cardinality(ToCome) \in Nat /\ adrift.posts \in Nat /\ adrift' = adrift
    BY <1>1, ThreadBounds DEF ThreadPlain, ThreadTyped, ToCome, Afloat
  <2> QED BY <1>1, <1>4, <2>3, <2>4
<1>7. ThreadTyped'
  BY <1>1, <1>3, <1>4, <1>5, <1>6 DEF ThreadPlain, ThreadTyped, ReplyBudgets
<1>8. PageOfView' /\ CountedHasCome'
  BY <1>1, <1>4 DEF ThreadPlain, PageOfView, CountedHasCome
<1> QED BY <1>1, <1>3, <1>5, <1>7, <1>8 DEF ThreadPlain

\* The server creates the oldest reply that is to come.
LEMMA CreatedPlain ==
  ASSUME ThreadPlain, NEW c \in Composers, ReplyCreated(c)
  PROVE  /\ ThreadPlain'
         /\ \E r \in ToCome :
              /\ replies' = replies \union {r} /\ r \notin replies /\ r # 0
              /\ posting'[c].reply = r
         /\ posting[c].step = "sent" /\ posting'[c].step = "created"
         /\ posting'[c].page = posting[c].page /\ posting'[c].count = posting[c].count
         /\ \A d \in Composers \ {c} : posting'[d] = posting[d]
<1> DEFINE r == Min(ToCome)
<1>1. /\ posting[c].step = "sent" /\ replies' = replies \union {r}
      /\ threadBudget' = [threadBudget EXCEPT !.later = @ \ {r}]
      /\ posting' = [posting EXCEPT ![c].step = "created", ![c].reply = r]
      /\ UNCHANGED <<replyCount, view, cache, kept, listing, loading, removal, listRun, adrift>>
  BY DEF ReplyCreated, commentServiceCreateReply, Post, Request, ToCome
<1>2. /\ replies \in SUBSET Replies /\ replies \intersect ToCome = {}
      /\ ToCome \in SUBSET Replies /\ adrift.posts \in Nat
      /\ Cardinality(Sending) + adrift.posts <= Cardinality(ToCome)
      /\ posting \in [Composers -> ReplySteps({"none", "sent", "created"})]
      /\ threadBudget \in ReplyBudgets
  BY DEF ThreadPlain, ThreadTyped, ToCome, ReplyBudgets, Afloat
<1>3. /\ IsFiniteSet(Sending) /\ Cardinality(Sending) \in Nat
      /\ IsFiniteSet(ToCome) /\ Cardinality(ToCome) \in Nat /\ ToCome \in SUBSET Nat
  <2>1. Sending \in SUBSET Composers
    BY DEF Sending
  <2> QED BY <1>2, <2>1, ThreadBounds, FS_Subset, FS_CardinalityType
<1>4. c \in Sending /\ Cardinality(Sending \ {c}) = Cardinality(Sending) - 1
  <2>1. c \in Sending
    BY <1>1 DEF Sending
  <2> QED BY <1>3, <2>1, FS_RemoveElement
<1>5. Cardinality(Sending \ {c}) \in Nat /\ Cardinality(ToCome) > 0
  <2>1. IsFiniteSet(Sending \ {c})
    BY <1>3, FS_Subset
  <2>2. Cardinality(Sending \ {c}) \in Nat
    BY <2>1, FS_CardinalityType
  <2> QED BY <1>2, <1>3, <1>4, <2>2
<1>6. r \in ToCome /\ r \notin replies /\ r \in Replies /\ r # 0
  <2>1. ToCome # {}
    BY <1>5, FS_EmptySet
  <2>2. r \in ToCome
    BY <1>3, <2>1, HasLeast
  <2> QED BY <1>2, <2>2, ThreadBounds
<1> HIDE DEF r
<1>7. ToCome' = ToCome \ {r} /\ threadBudget' \in ReplyBudgets /\ threadBudget'.turns = threadBudget.turns
  BY <1>1, <1>2 DEF ToCome, ReplyBudgets
<1>8. /\ posting' \in [Composers -> ReplySteps({"none", "sent", "created"})]
      /\ posting'[c].step = "created" /\ posting'[c].reply = r
      /\ posting'[c].page = posting[c].page /\ posting'[c].count = posting[c].count
      /\ \A d \in Composers \ {c} : posting'[d] = posting[d]
  BY <1>1, <1>2, <1>6 DEF ReplySteps
<1>9. Cardinality(Sending') + adrift'.posts <= Cardinality(ToCome')
  <2>1. Sending' = Sending \ {c}
    BY <1>8 DEF Sending
  <2>2. Cardinality(ToCome \ {r}) = Cardinality(ToCome) - 1
    BY <1>3, <1>6, FS_RemoveElement
  <2>3. adrift' = adrift
    BY <1>1
  <2> QED BY <1>2, <1>3, <1>4, <1>7, <2>1, <2>2, <2>3
<1>10. ThreadTyped'
  BY <1>1, <1>2, <1>6, <1>7, <1>8, <1>9 DEF ThreadPlain, ThreadTyped, ReplyBudgets
<1>11. PageOfView' /\ CountedHasCome'
  BY <1>1, <1>7 DEF ThreadPlain, PageOfView, CountedHasCome
<1> QED BY <1>1, <1>6, <1>8, <1>10, <1>11 DEF ThreadPlain

\* The dialog's answer opens the thread and asks for the reply.
LEMMA PostedPlain ==
  ASSUME ThreadPlain, NEW c \in Composers, handleReplyPosted(c)
  PROVE  /\ ThreadPlain'
         /\ posting'[c].step = "none" /\ \A d \in Composers \ {c} : posting'[d] = posting[d]
         /\ view' = [show |-> TRUE, page |-> view.page]
         /\ view.show => listing' = listing
         /\ ~view.show => listing'.step # "none"
         /\ listing'.step = "served" => listing' = listing
<1>1. /\ posting[c].step = "created" /\ posting' = [posting EXCEPT ![c] = NoPosting]
      /\ replyCount' = posting[c].count + 1
      /\ loading' = loading \union {[reply |-> posting[c].reply, page |-> posting[c].page,
                                     count |-> posting[c].count]}
      /\ view' = [view EXCEPT !.show = TRUE]
      /\ IF view.show THEN UNCHANGED listing ELSE ListReplies(view.page, TRUE)
      /\ UNCHANGED <<replies, cache, kept, removal, threadBudget, listRun, adrift>> /\ ToCome' = ToCome
  BY DEF handleReplyPosted, ToCome
<1>2. /\ view \in [show : BOOLEAN, page : Nat \ {0}] /\ listing \in Listings
      /\ posting \in [Composers -> ReplySteps({"none", "sent", "created"})]
      /\ posting[c].reply \in Replies /\ posting[c].count \in Nat /\ posting[c].page \in Nat \ {0}
  BY <1>1 DEF ThreadPlain, ThreadTyped, ReplySteps, Listings
<1>3. view' = [show |-> TRUE, page |-> view.page]
  BY <1>1, <1>2
<1>4. /\ posting' \in [Composers -> ReplySteps({"none", "sent", "created"})]
      /\ posting'[c].step = "none" /\ \A d \in Composers \ {c} : posting'[d] = posting[d]
  BY <1>1, <1>2, NewPosting
<1>5. Sending' = Sending
  BY <1>1, <1>4 DEF Sending
<1>6. /\ listing' \in Listings
      /\ listing'.step # "none" => listing'.page = view.page
      /\ listing'.value.counted \intersect ToCome = {}
      /\ view.show => listing' = listing
      /\ ~view.show => listing'.step # "none"
      /\ listing'.step = "served" => listing' = listing
  <2>1. CASE view.show
    BY <1>1, <1>2, <2>1 DEF ThreadPlain, PageOfView, CountedHasCome
  <2>2. CASE ~view.show
    <3>1. ListReplies(view.page, TRUE) /\ TRUE \in BOOLEAN /\ view.page \in Nat \ {0}
      BY <1>1, <1>2, <2>2
    <3> QED BY <2>2, <3>1, ListingFollows
  <2> QED BY <2>1, <2>2
<1>7. loading' \subseteq [reply : Replies, page : Nat \ {0}, count : Nat]
  BY <1>1, <1>2 DEF ThreadPlain, ThreadTyped
<1>8. ThreadTyped'
  <2>1. UNCHANGED <<replies, cache, kept, removal, threadBudget, listRun, adrift>> /\ ToCome' = ToCome
    BY <1>1
  <2>2. replyCount' \in Nat
    BY <1>1, <1>2
  <2>3. view' \in [show : BOOLEAN, page : Nat \ {0}] /\ view'.page = view.page
    BY <1>2, <1>3
  <2>4. \A d \in Composers : posting'[d].step = "created" => posting'[d].reply \in Replies
    BY <1>4 DEF ThreadPlain, ThreadTyped
  <2> QED BY <1>4, <1>5, <1>6, <1>7, <2>1, <2>2, <2>3, <2>4 DEF ThreadPlain, ThreadTyped, Listings
<1>9. PageOfView' /\ CountedHasCome'
  BY <1>1, <1>3, <1>6 DEF ThreadPlain, PageOfView, CountedHasCome
<1> QED BY <1>3, <1>4, <1>6, <1>8, <1>9 DEF ThreadPlain

\* The page that a reply is put on.
LEMMA LoadedPage ==
  ASSUME ThreadPlain, NEW l \in loading, ReplyLoaded(l)
  PROVE  /\ \A p \in Pages : p # l.page => cache'[p] = cache[p]
         /\ l.page \in Pages =>
              LET old == cache[l.page]  new == cache'[l.page] IN
                /\ old = Absent => new \in ReplyPages /\ new.counted = {}
                /\ old # Absent /\ l.reply \in old.comments => new = old
                /\ old # Absent /\ l.reply \notin old.comments =>
                     /\ new \in ReplyPages /\ new.counted = old.counted
                     /\ new.comments = old.comments \union {l.reply} /\ new.total = old.total + 1
         /\ cache' = [p \in Pages |-> cache'[p]]
<1>1. cache = [p \in Pages |-> cache[p]] /\ \A p \in Pages : cache[p] = Absent \/ cache[p] \in ReplyPages
  BY DEF ThreadPlain, ThreadTyped
<1>2. l.reply \in Replies /\ l.page \in Nat \ {0} /\ l.count \in Nat
  BY DEF ThreadPlain, ThreadTyped
<1> DEFINE old == cache[l.page]
           first == [comments |-> {l.reply}, total |-> Max({1, l.count + 1}), counted |-> {}]
           more == [comments |-> old.comments \union {l.reply}, total |-> old.total + 1,
                    counted |-> old.counted]
<1>3. cache' = [cache EXCEPT ![l.page] = IF old = Absent THEN first
                                         ELSE IF l.reply \in old.comments THEN old ELSE more]
  BY DEF ReplyLoaded
<1>4. first \in ReplyPages
  <2>1. Max({1, l.count + 1}) \in {1, l.count + 1}
    <3>1. l.count + 1 >= 1 /\ l.count + 1 \in Nat /\ l.count + 1 >= l.count + 1
      BY <1>2
    <3>2. \E x \in {1, l.count + 1} : \A y \in {1, l.count + 1} : x >= y
      BY <3>1
    <3> QED BY <3>2 DEF Max
  <2> QED BY <1>2, <2>1 DEF ReplyPages
<1>5. l.page \in Pages /\ old # Absent => more \in ReplyPages
  BY <1>1, <1>2 DEF ReplyPages
<1> HIDE DEF first
<1>6. first.counted = {}
  BY DEF first
<1> QED BY <1>1, <1>3, <1>4, <1>5, <1>6

LEMMA LoadedPlain ==
  ASSUME ThreadPlain, NEW l \in loading, ReplyLoaded(l)
  PROVE  ThreadPlain'
<1>1. /\ loading' = loading \ {l} /\ ToCome' = ToCome
      /\ UNCHANGED <<replies, replyCount, view, kept, listing, posting, removal, threadBudget,
                    listRun, adrift>>
  BY DEF ReplyLoaded, ToCome
<1>2. /\ cache' = [p \in Pages |-> cache'[p]]
      /\ \A p \in Pages : \/ cache'[p] = cache[p]
                          \/ /\ cache'[p] \in ReplyPages
                             /\ cache'[p].counted = {} \/ cache'[p].counted = cache[p].counted
  BY LoadedPage
<1>3. \A p \in Pages : cache'[p] = Absent \/ cache'[p] \in ReplyPages
  BY <1>2 DEF ThreadPlain, ThreadTyped
<1>4. loading' \subseteq [reply : Replies, page : Nat \ {0}, count : Nat]
  BY <1>1 DEF ThreadPlain, ThreadTyped
<1>5. Sending' = Sending
  BY <1>1 DEF Sending
<1>6. ThreadTyped'
  BY <1>1, <1>2, <1>3, <1>4, <1>5 DEF ThreadPlain, ThreadTyped
<1> QED BY <1>1, <1>2, <1>6 DEF ThreadPlain, PageOfView, CountedHasCome

\* A deletion is asked for, executed, and answered.
LEMMA RemovePlain ==
  ASSUME ThreadPlain, NEW r \in Replies, handleRemoveReply(r)
  PROVE  /\ ThreadPlain'
         /\ removal' = [step |-> "sent", reply |-> r, page |-> view.page, count |-> replyCount,
                        alone |-> Data.comments = {r}]
<1>1. /\ removal' = [step |-> "sent", reply |-> r, page |-> view.page, count |-> replyCount,
                     alone |-> Data.comments = {r}]
      /\ replyCount' = Least0(replyCount - 1) /\ ThreadSpend("calls")
      /\ UNCHANGED <<replies, view, cache, kept, listing, posting, loading, listRun, adrift>>
  BY DEF handleRemoveReply
<1>2. view.page \in Nat \ {0} /\ replyCount \in Nat
  BY DEF ThreadPlain, ThreadTyped
<1>3. replyCount' \in Nat
  BY <1>1, <1>2 DEF Least0
<1>4. removal' \in ReplyRemovals
  <2>1. (Data.comments = {r}) \in BOOLEAN
    OBVIOUS
  <2> QED BY <1>1, <1>2, <2>1 DEF ReplyRemovals
<1>5. /\ threadBudget' \in ReplyBudgets /\ ToCome' = ToCome
      /\ threadBudget'.turns = threadBudget.turns
  BY <1>1, ThreadSpends
<1>6. Sending' = Sending
  BY <1>1 DEF Sending
<1>7. ThreadTyped'
  BY <1>1, <1>3, <1>4, <1>5, <1>6 DEF ThreadPlain, ThreadTyped, ReplyRemovals, ReplyBudgets
<1> QED BY <1>1, <1>5, <1>7 DEF ThreadPlain, PageOfView, CountedHasCome

LEMMA DeletedPlain ==
  ASSUME ThreadPlain, ReplyDeleted
  PROVE  /\ ThreadPlain'
         /\ replies' = replies \ {removal.reply}
         /\ removal'.step = IF removal.reply \in replies THEN "deleted" ELSE "error"
         /\ removal'.reply = removal.reply /\ removal'.page = removal.page
         /\ removal'.count = removal.count /\ removal'.alone = removal.alone
<1>1. /\ replies' = replies \ {removal.reply}
      /\ removal' = [removal EXCEPT !.step = IF removal.reply \in replies THEN "deleted" ELSE "error"]
      /\ UNCHANGED <<replyCount, view, cache, kept, listing, posting, loading, threadBudget, listRun,
                    adrift>>
      /\ ToCome' = ToCome
  BY DEF ReplyDeleted, commentServiceDeleteComment, Request, ToCome
<1>2. removal \in ReplyRemovals
  BY DEF ThreadPlain, ThreadTyped, ReplyRemovals
<1>3. /\ removal' \in ReplyRemovals
      /\ removal'.step = IF removal.reply \in replies THEN "deleted" ELSE "error"
      /\ removal'.reply = removal.reply /\ removal'.page = removal.page
      /\ removal'.count = removal.count /\ removal'.alone = removal.alone
  BY <1>1, <1>2 DEF ReplyRemovals
<1>4. Sending' = Sending
  BY <1>1 DEF Sending
<1>5. removal'.step # "none" => removal'.reply \in Replies
  BY <1>1, <1>3 DEF ReplyDeleted, ThreadPlain, ThreadTyped
<1>6. ThreadTyped'
  BY <1>1, <1>3, <1>4, <1>5 DEF ThreadPlain, ThreadTyped, ReplyRemovals
<1> QED BY <1>1, <1>3, <1>6 DEF ThreadPlain, PageOfView, CountedHasCome

LEMMA LeastOne ==
  ASSUME NEW n \in Nat, n >= 1
  PROVE  Max({1, n - 1}) = IF n = 1 THEN 1 ELSE n - 1
<1>1. \A x \in {1, n - 1} : (\A y \in {1, n - 1} : x >= y) <=> x = IF n = 1 THEN 1 ELSE n - 1
  OBVIOUS
<1>2. (IF n = 1 THEN 1 ELSE n - 1) \in {1, n - 1}
  OBVIOUS
<1> QED BY <1>1, <1>2 DEF Max

\* The page that loses a reply.
LEMMA RemovedPage ==
  ASSUME ThreadPlain, ReplyRemoved
  PROVE  /\ \A p \in Pages : p # removal.page => cache'[p] = cache[p]
         /\ removal.page \in Pages =>
              LET old == cache[removal.page]  new == cache'[removal.page] IN
                /\ removal.reply \notin old.comments => new = old
                /\ removal.reply \in old.comments =>
                     /\ new \in ReplyPages /\ new.counted = old.counted
                     /\ new.comments = old.comments \ {removal.reply}
                     /\ new.total = Least0(old.total - 1)
         /\ cache' = [p \in Pages |-> cache'[p]]
<1> DEFINE old == cache[removal.page]
           less == [old EXCEPT !.comments = @ \ {removal.reply}, !.total = Least0(@ - 1)]
<1>1. cache = [p \in Pages |-> cache[p]] /\ \A p \in Pages : cache[p] = Absent \/ cache[p] \in ReplyPages
  BY DEF ThreadPlain, ThreadTyped
<1>2. cache' = [cache EXCEPT ![removal.page] = IF removal.reply \in old.comments THEN less ELSE old]
  BY DEF ReplyRemoved
<1>3. ASSUME removal.page \in Pages, removal.reply \in old.comments
      PROVE  /\ less \in ReplyPages /\ less.counted = old.counted
             /\ less.comments = old.comments \ {removal.reply} /\ less.total = Least0(old.total - 1)
  <2>1. old # Absent
    BY <1>3 DEF Absent
  <2>2. old \in ReplyPages
    BY <1>1, <1>3, <2>1
  <2>3. Least0(old.total - 1) \in Nat
    BY <2>2 DEF ReplyPages, Least0
  <2> HIDE DEF old
  <2> QED BY <2>2, <2>3 DEF ReplyPages
<1> HIDE DEF less
<1> QED BY <1>1, <1>2, <1>3

LEMMA RemovedPlain ==
  ASSUME ThreadPlain, ReplyRemoved
  PROVE  ThreadPlain'
<1>1. /\ removal' = NoRemoval /\ ToCome' = ToCome
      /\ UNCHANGED <<replies, replyCount, posting, loading, threadBudget, listRun, adrift>>
      /\ IF removal.page > 1 /\ removal.alone
         THEN Turn(Max({1, view.page - 1}), view.show)
         ELSE UNCHANGED <<view, kept, listing>>
  BY DEF ReplyRemoved, ToCome
<1>2. /\ \A p \in Pages : \/ cache'[p] = cache[p]
                          \/ cache'[p] \in ReplyPages /\ cache'[p].counted = cache[p].counted
      /\ cache' = [p \in Pages |-> cache'[p]]
  BY RemovedPage
<1>3. \A p \in Pages : cache'[p] = Absent \/ cache'[p] \in ReplyPages
  BY <1>2 DEF ThreadPlain, ThreadTyped
<1>4. /\ view' \in [show : BOOLEAN, page : Nat \ {0}] /\ view'.page <= view.page
      /\ kept' \in ReplyPages /\ kept'.counted \intersect ToCome = {}
      /\ listing' \in Listings /\ listing'.value.counted \intersect ToCome = {}
      /\ listing'.step # "none" => listing'.page = view'.page
      /\ ~view'.show => view'.page = 1
  <2>1. view \in [show : BOOLEAN, page : Nat \ {0}] /\ (~view.show => view.page = 1)
    BY DEF ThreadPlain, ThreadTyped, PageOfView
  <2>2. CASE removal.page > 1 /\ removal.alone
    <3>1. /\ Max({1, view.page - 1}) \in Nat \ {0} /\ Max({1, view.page - 1}) <= view.page
          /\ view.page = 1 => Max({1, view.page - 1}) = 1
      <4>1. view.page \in Nat /\ view.page >= 1
        BY <2>1
      <4> QED BY <4>1, LeastOne
    <3>2. Turn(Max({1, view.page - 1}), view.show) /\ view.show \in BOOLEAN
      BY <1>1, <2>1, <2>2
    <3>3. /\ view' = [show |-> view.show, page |-> Max({1, view.page - 1})]
          /\ kept' \in ReplyPages /\ kept'.counted \intersect ToCome = {}
          /\ listing' \in Listings /\ listing'.value.counted \intersect ToCome = {}
          /\ listing'.step # "none" => listing'.page = Max({1, view.page - 1})
      BY <3>1, <3>2, TurnFollows
    <3> QED BY <2>1, <3>1, <3>3
  <2>3. CASE ~(removal.page > 1 /\ removal.alone)
    BY <1>1, <2>1, <2>3 DEF ThreadPlain, ThreadTyped, PageOfView, CountedHasCome, Listings
  <2> QED BY <2>2, <2>3
<1>5. view'.page + threadBudget'.turns <= MaxTurns + 1
  BY <1>1, <1>4, ThreadBounds DEF ThreadPlain, ThreadTyped
<1>6. Sending' = Sending
  BY <1>1 DEF Sending
<1>7. ThreadTyped'
  BY <1>1, <1>2, <1>3, <1>4, <1>5, <1>6, NewPosting
     DEF ThreadPlain, ThreadTyped, Listings, ReplyRemovals
<1>8. PageOfView' /\ CountedHasCome'
  BY <1>1, <1>2, <1>4 DEF ThreadPlain, PageOfView, CountedHasCome
<1> QED BY <1>7, <1>8 DEF ThreadPlain

LEMMA FailedPlain ==
  ASSUME ThreadPlain, RemovalFailed \/ ForeignDeletion
  PROVE  ThreadPlain'
<1>1. /\ replies' \in SUBSET Replies /\ replies' \intersect ToCome = {} /\ replyCount' \in Nat
      /\ removal' \in ReplyRemovals /\ (removal'.step # "none" => removal'.reply \in Replies)
      /\ UNCHANGED <<view, cache, kept, listing, posting, loading, listRun, adrift>>
  <2>1. CASE RemovalFailed
    BY <2>1, NewPosting DEF RemovalFailed, ThreadPlain, ThreadTyped
  <2>2. CASE ForeignDeletion
    BY <2>2 DEF ForeignDeletion, ThreadPlain, ThreadTyped, ReplyRemovals
  <2> QED BY <2>1, <2>2
<1>2. /\ threadBudget' \in ReplyBudgets /\ ToCome' = ToCome
      /\ threadBudget'.turns = threadBudget.turns
  <2>1. CASE RemovalFailed
    BY <2>1 DEF RemovalFailed, ThreadPlain, ThreadTyped, ReplyBudgets, ToCome
  <2>2. CASE ForeignDeletion
    BY <2>2, ThreadSpends DEF ForeignDeletion
  <2> QED BY <2>1, <2>2
<1>3. Sending' = Sending
  BY <1>1 DEF Sending
<1>4. ThreadTyped'
  BY <1>1, <1>2, <1>3 DEF ThreadPlain, ThreadTyped, ReplyRemovals, ReplyBudgets
<1> QED BY <1>1, <1>2, <1>4 DEF ThreadPlain, PageOfView, CountedHasCome

\* Something that fails is forgotten, or stands for an error.
LEMMA FaultPlain ==
  ASSUME ThreadPlain, ThreadFault
  PROVE  ThreadPlain'
<1>1. UNCHANGED <<replies, replyCount, view, cache, kept>> /\ ThreadSpend("faults")
  BY DEF ThreadFault
<1>2. /\ threadBudget' \in ReplyBudgets /\ ToCome' = ToCome
      /\ threadBudget'.turns = threadBudget.turns
  BY <1>1, ThreadSpends
<1>3. /\ listing \in Listings /\ removal \in ReplyRemovals
      /\ posting \in [Composers -> ReplySteps({"none", "sent", "created"})]
      /\ NoListing \in Listings /\ NoListing.step = "none" /\ NoListing.value.counted = {}
  <2>1. NoPage \in ReplyPages /\ NoPage.counted = {}
    BY DEF NoPage, ReplyPages
  <2> QED BY <2>1 DEF ThreadPlain, ThreadTyped, Listings, ReplyRemovals, NoListing
<1>4. /\ listing' = listing \/ listing' = NoListing
      /\ removal' = removal \/ removal' = [removal EXCEPT !.step = "error"]
      /\ loading' = loading \/ loading' = {}
      /\ posting' = posting \/ \E c \in Composers : posting' = [posting EXCEPT ![c] = NoPosting]
      /\ listRun' = listRun \/ listRun' = NoListRun
      /\ adrift' = adrift \/ adrift' = NoneAdrift
  BY DEF ThreadFault
<1>5. /\ listing' \in Listings /\ removal' \in ReplyRemovals /\ loading' \subseteq loading
      /\ listRun' \in ListRuns /\ adrift' \in Afloat /\ adrift.posts \in Nat
      /\ adrift'.posts = adrift.posts \/ adrift'.posts = 0
  <2>1. listRun \in ListRuns /\ adrift \in Afloat
    BY DEF ThreadPlain, ThreadTyped
  <2>2. listRun' \in ListRuns
    BY <1>4, <2>1 DEF ListRuns, NoListRun
  <2>3. /\ adrift' \in Afloat /\ adrift.posts \in Nat
        /\ adrift'.posts = adrift.posts \/ adrift'.posts = 0
    BY <1>4, <2>1 DEF Afloat, NoneAdrift
  <2> QED BY <1>3, <1>4, <2>2, <2>3 DEF ReplyRemovals
<1>6. /\ posting' \in [Composers -> ReplySteps({"none", "sent", "created"})]
      /\ \A c \in Composers : posting'[c] = posting[c] \/ posting'[c] = NoPosting
  BY <1>3, <1>4, NewPosting
<1>7. Cardinality(Sending') + adrift'.posts <= Cardinality(ToCome')
  <2>1. Sending' \in SUBSET Sending /\ Sending \in SUBSET Composers
    BY <1>6, NewPosting DEF Sending
  <2>2. /\ IsFiniteSet(Sending) /\ Cardinality(Sending) \in Nat
        /\ Cardinality(Sending') <= Cardinality(Sending) /\ Cardinality(Sending') \in Nat
    BY <2>1, ThreadBounds, FS_Subset, FS_CardinalityType
  <2>3. Cardinality(ToCome) \in Nat /\ Cardinality(Sending) + adrift.posts <= Cardinality(ToCome)
    BY ThreadBounds DEF ThreadPlain, ThreadTyped, ToCome
  <2> QED BY <1>2, <1>5, <2>2, <2>3
<1>8. \A c \in Composers : posting'[c].step = "created" => posting'[c].reply \in Replies
  BY <1>6, NewPosting DEF ThreadPlain, ThreadTyped
<1>9. removal'.step # "none" => removal'.reply \in Replies
  <2>1. removal.step # "none" => removal.reply \in Replies
    BY DEF ThreadPlain, ThreadTyped
  <2>2. /\ removal'.reply = removal.reply
        /\ removal'.step = removal.step \/ removal.step # "none"
    BY <1>3 DEF ThreadFault, ReplyRemovals
  <2> QED BY <2>1, <2>2
<1>10. ThreadTyped'
  BY <1>1, <1>2, <1>5, <1>6, <1>7, <1>8, <1>9
     DEF ThreadPlain, ThreadTyped, Listings, ReplyRemovals, ReplyBudgets
<1>11. PageOfView' /\ CountedHasCome'
  BY <1>1, <1>2, <1>3, <1>4 DEF ThreadPlain, PageOfView, CountedHasCome
<1> QED BY <1>10, <1>11 DEF ThreadPlain

\* The list of replies is asked for again, or a run of the list of comments
\* goes on: all but the counter and the runs is as it was.
LEMMA RunsPlain ==
  ASSUME ThreadPlain, ThreadFocus \/ ListAsked \/ ListNextAsked \/ ListServed \/ ListShown
  PROVE  ThreadPlain'
<1>1. UNCHANGED <<replies, view, cache, kept, posting, loading, removal, adrift>>
  BY DEF ThreadFocus, ListAsked, ListNextAsked, ListServed, ListShown
<1>2. /\ replies \in SUBSET Replies /\ Cardinality(replies) \in Nat /\ replyCount \in Nat
      /\ listRun \in ListRuns /\ view.page \in Nat \ {0} /\ listing \in Listings
      /\ listing.value.counted \intersect ToCome = {}
  BY ThreadBounds DEF ThreadPlain, ThreadTyped, Listings, CountedHasCome
<1>3. replyCount' \in Nat /\ listRun' \in ListRuns
  <2>1. CASE ThreadFocus
    BY <1>2, <2>1 DEF ThreadFocus
  <2>2. CASE ListAsked
    <3>1. replyCount' = replyCount /\ listRun' = [NoListRun EXCEPT !.step = "asked"]
      BY <2>2 DEF ListAsked
    <3> QED BY <1>2, <3>1 DEF NoListRun, ListRuns
  <2>3. CASE ListNextAsked
    <3>1. replyCount' = replyCount /\ listRun' = [step |-> "next", count |-> replyCount]
      BY <2>3 DEF ListNextAsked
    <3> QED BY <1>2, <3>1 DEF ListRuns
  <2>4. CASE ListServed
    BY <1>2, <2>4 DEF ListServed, ListRuns
  <2>5. CASE ListShown
    <3>1. replyCount' = listRun.count /\ listRun' = NoListRun
      BY <2>5 DEF ListShown
    <3> QED BY <1>2, <3>1 DEF NoListRun, ListRuns
  <2> QED BY <2>1, <2>2, <2>3, <2>4, <2>5
<1>4. /\ listing' \in Listings /\ listing'.value.counted \intersect ToCome = {}
      /\ listing'.step # "none" => listing'.page = view.page
  <2>1. CASE ThreadFocus
    <3>1. ListReplies(view.page, TRUE) /\ TRUE \in BOOLEAN
      BY <2>1 DEF ThreadFocus
    <3> QED BY <1>2, <3>1, ListingFollows
  <2>2. CASE ~ThreadFocus
    BY <1>2, <2>2 DEF ListAsked, ListNextAsked, ListServed, ListShown, ThreadPlain, PageOfView
  <2> QED BY <2>1, <2>2
<1>5. /\ threadBudget' \in ReplyBudgets /\ ToCome' = ToCome
      /\ threadBudget'.turns = threadBudget.turns
  <2>1. \/ ThreadSpend("calls")
        \/ threadBudget' = threadBudget
    BY DEF ThreadFocus, ListAsked, ListNextAsked, ListServed, ListShown
  <2>2. threadBudget \in ReplyBudgets
    BY DEF ThreadPlain, ThreadTyped, ReplyBudgets
  <2>3. CASE ThreadSpend("calls")
    BY <2>3, ThreadSpends
  <2>4. CASE threadBudget' = threadBudget
    BY <2>2, <2>4 DEF ToCome
  <2> QED BY <2>1, <2>3, <2>4
<1>6. Sending' = Sending
  BY <1>1 DEF Sending
<1>7. ThreadTyped'
  BY <1>1, <1>3, <1>4, <1>5, <1>6 DEF ThreadPlain, ThreadTyped, Listings, ReplyBudgets
<1>8. PageOfView' /\ CountedHasCome'
  BY <1>1, <1>4, <1>5 DEF ThreadPlain, PageOfView, CountedHasCome
<1> QED BY <1>7, <1>8 DEF ThreadPlain

\* The replies on their way are counted once more, as those nobody awaits.
LEMMA LeftPlain ==
  ASSUME ThreadPlain, CommentLeft
  PROVE  ThreadPlain'
<1>1. /\ view' = [show |-> FALSE, page |-> 1] /\ kept' = NoPage /\ listing' = NoListing
      /\ posting' = [c \in Composers |-> NoPosting] /\ removal' = NoRemoval
      /\ adrift' = [posts |-> adrift.posts + Cardinality(Sending),
                    deletions |-> adrift.deletions \union
                                  (IF removal.step = "sent" THEN {removal.reply} ELSE {})]
      /\ listRun' \in {listRun, NoListRun} /\ ThreadSpend("turns")
      /\ UNCHANGED <<replies, replyCount, cache, loading>>
  BY DEF CommentLeft
<1>2. /\ NoPage \in ReplyPages /\ NoPage.counted = {} /\ NoListing \in Listings
      /\ NoListing.step = "none" /\ NoListing.value.counted = {}
  <2>1. NoPage \in ReplyPages /\ NoPage.counted = {}
    BY DEF NoPage, ReplyPages
  <2> QED BY <2>1 DEF NoListing, Listings
<1>3. /\ threadBudget' \in ReplyBudgets /\ ToCome' = ToCome
      /\ threadBudget'.turns = threadBudget.turns - 1 /\ threadBudget.turns \in Nat
      /\ threadBudget.turns > 0
  <2>1. threadBudget.turns \in Nat /\ threadBudget.turns > 0
    BY <1>1 DEF ThreadPlain, ThreadTyped, ThreadSpend
  <2> QED BY <1>1, <2>1, ThreadSpends
<1>4. /\ listRun \in ListRuns /\ adrift.posts \in Nat /\ adrift.deletions \in SUBSET Replies
      /\ removal \in ReplyRemovals
      /\ Cardinality(Sending) \in Nat /\ Cardinality(Sending) + adrift.posts <= Cardinality(ToCome)
  <2>1. IsFiniteSet(Sending)
    <3>1. Sending \in SUBSET Composers
      BY DEF Sending
    <3> QED BY <3>1, ThreadBounds, FS_Subset
  <2> QED BY <2>1, FS_CardinalityType DEF ThreadPlain, ThreadTyped, Afloat, ReplyRemovals
<1>5. listRun' \in ListRuns
  BY <1>1, <1>4 DEF NoListRun, ListRuns
<1>6. removal.step = "sent" => removal.reply \in Replies
  BY DEF ThreadPlain, ThreadTyped
<1>7. adrift' \in Afloat /\ adrift'.posts = adrift.posts + Cardinality(Sending)
  BY <1>1, <1>4, <1>6 DEF Afloat
<1>8. \A c \in Composers : posting'[c] = NoPosting
  BY <1>1
<1>9. Cardinality(Sending') = 0
  <2>1. Sending' = {}
    BY <1>8, NewPosting DEF Sending
  <2> QED BY <2>1, FS_EmptySet
<1>10. view' \in [show : BOOLEAN, page : Nat \ {0}] /\ view'.page = 1 /\ ~view'.show
  BY <1>1
<1>11. 1 + threadBudget'.turns <= MaxTurns + 1
  <2>1. view.page + threadBudget.turns <= MaxTurns + 1 /\ view.page \in Nat \ {0}
    BY DEF ThreadPlain, ThreadTyped
  <2> QED BY <1>3, <2>1, ThreadBounds
<1>12. ThreadTyped'
  <2>1. Cardinality(Sending') + adrift'.posts <= Cardinality(ToCome')
    BY <1>3, <1>4, <1>7, <1>9
  <2>2. posting' \in [Composers -> ReplySteps({"none", "sent", "created"})]
    BY <1>1, NewPosting
  <2>3. \A c \in Composers : posting'[c].step = "created" => posting'[c].reply \in Replies
    BY <1>8, NewPosting
  <2> QED BY <1>1, <1>2, <1>3, <1>5, <1>7, <1>10, <1>11, <2>1, <2>2, <2>3, NewPosting
          DEF ThreadPlain, ThreadTyped, Listings, ReplyRemovals, ReplyBudgets
<1>13. PageOfView' /\ CountedHasCome'
  BY <1>1, <1>2, <1>3, <1>10 DEF ThreadPlain, PageOfView, CountedHasCome
<1> QED BY <1>12, <1>13 DEF ThreadPlain

\* A reply nobody awaits any more is created, or deleted.
LEMMA AdriftPlain ==
  ASSUME ThreadPlain, AdriftServed
  PROVE  ThreadPlain'
<1>1. UNCHANGED <<replyCount, view, cache, kept, listing, posting, loading, removal, listRun>>
  BY DEF AdriftServed
<1>2. /\ replies \in SUBSET Replies /\ replies \intersect ToCome = {}
      /\ ToCome \in SUBSET Replies /\ adrift \in Afloat /\ threadBudget \in ReplyBudgets
      /\ Cardinality(Sending) + adrift.posts <= Cardinality(ToCome)
  BY DEF ThreadPlain, ThreadTyped, ToCome, ReplyBudgets
<1>3. /\ Cardinality(Sending) \in Nat /\ IsFiniteSet(ToCome) /\ Cardinality(ToCome) \in Nat
      /\ ToCome \in SUBSET Nat
  <2>1. Sending \in SUBSET Composers
    BY DEF Sending
  <2> QED BY <1>2, <2>1, ThreadBounds, FS_Subset, FS_CardinalityType
<1>4. /\ replies' \in SUBSET Replies /\ replies' \intersect ToCome' = {}
      /\ ToCome' \in SUBSET ToCome /\ threadBudget' \in ReplyBudgets
      /\ threadBudget'.turns = threadBudget.turns /\ adrift' \in Afloat
      /\ Cardinality(Sending) + adrift'.posts <= Cardinality(ToCome')
  <2>1. CASE \E r \in adrift.deletions : /\ replies' = replies \ {r} /\ UNCHANGED threadBudget
                                         /\ adrift' = [adrift EXCEPT !.deletions = @ \ {r}]
    <3> PICK r \in adrift.deletions : /\ replies' = replies \ {r} /\ UNCHANGED threadBudget
                                      /\ adrift' = [adrift EXCEPT !.deletions = @ \ {r}]
      BY <2>1
    <3>1. adrift' \in Afloat /\ adrift'.posts = adrift.posts
      BY <1>2 DEF Afloat
    <3>2. ToCome' = ToCome
      BY DEF ToCome
    <3> QED BY <1>2, <3>1, <3>2
  <2> DEFINE r == Min(ToCome)
  <2>2. CASE /\ adrift.posts > 0 /\ replies' = replies \union {r}
             /\ threadBudget' = [threadBudget EXCEPT !.later = @ \ {r}]
             /\ adrift' = [adrift EXCEPT !.posts = @ - 1]
    <3>1. adrift.posts \in Nat /\ adrift' \in Afloat /\ adrift'.posts = adrift.posts - 1
      BY <1>2, <2>2 DEF Afloat
    <3>2. Cardinality(ToCome) > 0
      BY <1>2, <1>3, <2>2, <3>1
    <3>3. r \in ToCome
      <4>1. ToCome # {}
        BY <3>2, FS_EmptySet
      <4> QED BY <1>3, <4>1, HasLeast
    <3> HIDE DEF r
    <3>4. /\ ToCome' = ToCome \ {r} /\ threadBudget' \in ReplyBudgets
          /\ threadBudget'.turns = threadBudget.turns
      BY <1>2, <2>2 DEF ToCome, ReplyBudgets
    <3>5. Cardinality(ToCome') = Cardinality(ToCome) - 1
      BY <1>3, <3>3, <3>4, FS_RemoveElement
    <3>6. Cardinality(Sending) + adrift'.posts <= Cardinality(ToCome')
      BY <1>2, <1>3, <3>1, <3>5
    <3> QED BY <1>2, <2>2, <3>1, <3>3, <3>4, <3>6
  <2> QED BY <2>1, <2>2 DEF AdriftServed, commentServiceCreateReply, commentServiceDeleteComment,
                            Post, Request, ToCome
<1>5. Sending' = Sending
  BY <1>1 DEF Sending
<1>6. ThreadTyped'
  BY <1>1, <1>4, <1>5 DEF ThreadPlain, ThreadTyped, ReplyBudgets
<1>7. PageOfView' /\ CountedHasCome'
  BY <1>1, <1>4 DEF ThreadPlain, PageOfView, CountedHasCome
<1> QED BY <1>6, <1>7 DEF ThreadPlain

LEMMA PlainKept == ThreadPlain /\ [ThreadNext]_threadVars => ThreadPlain'
<1> SUFFICES ASSUME ThreadPlain, [ThreadNext]_threadVars PROVE ThreadPlain'
  OBVIOUS
<1>1. CASE UNCHANGED threadVars
  BY <1>1 DEF threadVars, ThreadPlain, ThreadTyped, PageOfView, CountedHasCome, ToCome, Sending
<1>2. CASE ThreadNext
  <2>1. CASE RepliesServed \/ RepliesShown
    BY <2>1, ListPlain
  <2>2. CASE \E c \in Composers : ReplyCreated(c) \/ handleReplyPosted(c) \/ SubmitReply(c)
    BY <2>2, CreatedPlain, PostedPlain, SubmitPlain
  <2>3. CASE \E l \in loading : ReplyLoaded(l)
    BY <2>3, LoadedPlain
  <2>4. CASE ReplyDeleted \/ ReplyRemoved
    BY <2>4, DeletedPlain, RemovedPlain
  <2>5. CASE RemovalFailed \/ ForeignDeletion
    BY <2>5, FailedPlain
  <2>6. CASE handleShowReplies \/ TurnPage
    BY <2>6, TurnsPlain
  <2>7. CASE \E r \in Replies : handleRemoveReply(r)
    BY <2>7, RemovePlain
  <2>8. CASE ThreadFault
    BY <2>8, FaultPlain
  <2>9. CASE ThreadFocus \/ ListAsked \/ ListNextAsked \/ ListServed \/ ListShown
    BY <2>9, RunsPlain
  <2>10. CASE CommentLeft \/ AdriftServed
    BY <2>10, LeftPlain, AdriftPlain
  <2> QED BY <1>2, <2>1, <2>2, <2>3, <2>4, <2>5, <2>6, <2>7, <2>8, <2>9, <2>10
          DEF ThreadNext, ThreadProgress
<1> QED BY <1>1, <1>2

-----------------------------------------------------------------------------
\* The counter.
LEMMA RepliesCounted ==
  ASSUME ThreadPlain
  PROVE  /\ IsFiniteSet(replies) /\ Cardinality(replies) \in Nat /\ replies \in SUBSET Replies
         /\ \A r \in replies : /\ Cardinality(replies \ {r}) = Cardinality(replies) - 1
                               /\ Cardinality(replies) > 0
         /\ \A r : r \notin replies =>
              Cardinality(replies \union {r}) = Cardinality(replies) + 1
         /\ Cardinality(replies) = 0 <=> replies = {}
<1>1. IsFiniteSet(replies) /\ Cardinality(replies) \in Nat /\ replies \in SUBSET Replies
  BY ThreadBounds DEF ThreadPlain, ThreadTyped
<1>2. Cardinality(replies) = 0 <=> replies = {}
  BY <1>1, FS_EmptySet
<1>3. \A r \in replies : Cardinality(replies \ {r}) = Cardinality(replies) - 1
  BY <1>1, FS_RemoveElement
<1>4. \A r \in replies : Cardinality(replies) > 0
  BY <1>1, <1>2
<1>5. \A r : r \notin replies => Cardinality(replies \union {r}) = Cardinality(replies) + 1
  BY <1>1, FS_AddElement
<1> QED BY <1>1, <1>2, <1>3, <1>4, <1>5

CallsCounted == CallsApart /\ CounterFollows
Disturbing   == {"overlap", "foreign", "lost", "listed"}

LEMMA TangledGrows == [ThreadNext]_threadVars => tangled \subseteq tangled'
BY DEF ThreadNext, ThreadProgress, threadVars, RepliesServed, RepliesShown, ReplyCreated,
       handleReplyPosted, ReplyLoaded, ReplyDeleted, ReplyRemoved, RemovalFailed,
       handleShowReplies, TurnPage, SubmitReply, handleRemoveReply, ThreadFault, ForeignDeletion,
       ThreadFocus, ListAsked, ListNextAsked, ListServed, ListShown, CommentLeft, AdriftServed

\* A call starts when none is under way.
LEMMA SubmitCounts ==
  ASSUME ThreadPlain, CallsCounted, NEW c \in Composers, SubmitReply(c), "overlap" \notin tangled'
  PROVE  CallsCounted' /\ ~Busy
<1>1. /\ ~Busy /\ UNCHANGED <<replies, replyCount, loading, removal>>
  BY DEF SubmitReply
<1>2. /\ posting'[c].step = "sent" /\ posting'[c].count = replyCount
      /\ \A d \in Composers \ {c} : posting'[d] = posting[d]
  BY SubmitPlain DEF ThreadPlain, ThreadTyped
<1>3. loading = {} /\ removal.step = "none" /\ \A d \in Composers : posting[d].step = "none"
  BY <1>1 DEF Busy
<1>4. CallsApart'
  BY <1>1, <1>2, <1>3 DEF CallsApart
<1>5. CounterFollows'
  BY <1>1, <1>2, <1>3 DEF CallsCounted, CounterFollows
<1> QED BY <1>1, <1>4, <1>5 DEF CallsCounted

LEMMA CreatedCounts ==
  ASSUME ThreadPlain, CallsCounted, NEW c \in Composers, ReplyCreated(c)
  PROVE  CallsCounted'
<1>1. UNCHANGED <<replyCount, loading, removal>>
  BY DEF ReplyCreated
<1>2. /\ posting[c].step = "sent" /\ posting'[c].step = "created"
      /\ posting'[c].count = posting[c].count
      /\ \A d \in Composers \ {c} : posting'[d] = posting[d]
  BY CreatedPlain
<1>3. Cardinality(replies') = Cardinality(replies) + 1 /\ Cardinality(replies) \in Nat
  BY CreatedPlain, RepliesCounted
<1>4. \A d \in Composers \ {c} : posting[d].step = "none"
  BY <1>2 DEF CallsCounted, CallsApart
<1>5. loading = {} /\ removal.step = "none"
  BY <1>2 DEF CallsCounted, CallsApart
<1>6. CallsApart'
  BY <1>1, <1>2, <1>4, <1>5 DEF CallsApart
<1>7. posting[c].count = Cardinality(replies)
  BY <1>2 DEF CallsCounted, CounterFollows
<1>8. CounterFollows'
  BY <1>1, <1>2, <1>3, <1>4, <1>5, <1>7 DEF CounterFollows
<1> QED BY <1>6, <1>8 DEF CallsCounted

LEMMA PostedCounts ==
  ASSUME ThreadPlain, CallsCounted, NEW c \in Composers, handleReplyPosted(c)
  PROVE  CallsCounted'
<1>1. /\ posting[c].step = "created" /\ replyCount' = posting[c].count + 1
      /\ UNCHANGED <<replies, removal>>
      /\ loading' = loading \union {[reply |-> posting[c].reply, page |-> posting[c].page,
                                     count |-> posting[c].count]}
  BY DEF handleReplyPosted
<1>2. posting'[c].step = "none" /\ \A d \in Composers \ {c} : posting'[d] = posting[d]
  BY PostedPlain
<1>3. \A d \in Composers \ {c} : posting[d].step = "none"
  BY <1>1 DEF CallsCounted, CallsApart
<1>4. loading = {} /\ removal.step = "none"
  BY <1>1 DEF CallsCounted, CallsApart
<1>5. \A d \in Composers : posting'[d].step = "none"
  BY <1>2, <1>3
<1>6. CallsApart'
  BY <1>1, <1>4, <1>5 DEF CallsApart
<1>7. posting[c].count + 1 = Cardinality(replies)
  BY <1>1 DEF CallsCounted, CounterFollows
<1>8. CounterFollows'
  BY <1>1, <1>4, <1>5, <1>7 DEF CounterFollows
<1> QED BY <1>6, <1>8 DEF CallsCounted

LEMMA RemoveCounts ==
  ASSUME ThreadPlain, CallsCounted, NEW r \in Replies, handleRemoveReply(r), "overlap" \notin tangled'
  PROVE  CallsCounted' /\ ~Busy
<1>1. /\ ~Busy /\ UNCHANGED <<replies, posting, loading>>
      /\ replyCount' = Least0(replyCount - 1)
  BY DEF handleRemoveReply
<1>2. removal'.step = "sent" /\ removal'.count = replyCount
  BY RemovePlain
<1>3. loading = {} /\ removal.step = "none" /\ \A d \in Composers : posting[d].step = "none"
  BY <1>1 DEF Busy
<1>4. CallsApart'
  BY <1>1, <1>3 DEF CallsApart
<1>5. replyCount = Cardinality(replies)
  BY <1>3 DEF CallsCounted, CounterFollows
<1>6. CounterFollows'
  BY <1>1, <1>2, <1>3, <1>5 DEF CounterFollows
<1> QED BY <1>1, <1>4, <1>6 DEF CallsCounted

LEMMA DeletedCounts ==
  ASSUME ThreadPlain, CallsCounted, ReplyDeleted
  PROVE  CallsCounted'
<1>1. removal.step = "sent" /\ UNCHANGED <<replyCount, posting, loading>>
  BY DEF ReplyDeleted
<1>2. /\ replies' = replies \ {removal.reply} /\ removal'.count = removal.count
      /\ removal'.step = IF removal.reply \in replies THEN "deleted" ELSE "error"
  BY DeletedPlain
<1>3. /\ loading = {} /\ \A d \in Composers : posting[d].step = "none"
      /\ removal.count = Cardinality(replies) /\ replyCount = Least0(Cardinality(replies) - 1)
  BY <1>1 DEF CallsCounted, CallsApart, CounterFollows
<1>4. CallsApart'
  BY <1>1, <1>3 DEF CallsApart
<1>5. CASE removal.reply \in replies
  <2>1. /\ Cardinality(replies') = Cardinality(replies) - 1 /\ Cardinality(replies) > 0
        /\ Cardinality(replies) \in Nat
    BY <1>2, <1>5, RepliesCounted
  <2>2. replyCount = Cardinality(replies')
    BY <1>3, <2>1 DEF Least0
  <2> QED BY <1>1, <1>2, <1>3, <1>4, <1>5, <2>2 DEF CallsCounted, CounterFollows
<1>6. CASE removal.reply \notin replies
  <2>1. replies' = replies
    BY <1>2, <1>6
  <2> QED BY <1>1, <1>2, <1>3, <1>4, <1>6, <2>1 DEF CallsCounted, CounterFollows
<1> QED BY <1>5, <1>6

\* Steps that change no counter: an answer shown, a page turned, a call over.
LEMMA OverCounts ==
  ASSUME ThreadPlain, CallsCounted,
         \/ RepliesServed \/ RepliesShown \/ handleShowReplies \/ TurnPage
         \/ ThreadFocus \/ ListAsked \/ ListNextAsked \/ ListServed
         \/ (\E l \in loading : ReplyLoaded(l)) \/ ReplyRemoved \/ RemovalFailed
  PROVE  CallsCounted'
<1>1. UNCHANGED <<replies, posting>> /\ loading' \subseteq loading
  BY DEF RepliesServed, RepliesShown, handleShowReplies, TurnPage, ReplyLoaded, ReplyRemoved,
         RemovalFailed, ThreadFocus, ListAsked, ListNextAsked, ListServed
<1>2. \/ UNCHANGED <<removal, replyCount>>
      \/ removal.step = "deleted" /\ removal'.step = "none" /\ replyCount' = replyCount
      \/ removal.step = "error" /\ removal'.step = "none" /\ replyCount' = removal.count
  BY NewPosting DEF RepliesServed, RepliesShown, handleShowReplies, TurnPage, ReplyLoaded,
                    ReplyRemoved, RemovalFailed, ThreadFocus, ListAsked, ListNextAsked, ListServed
<1>3. CallsApart'
  BY <1>1, <1>2 DEF CallsCounted, CallsApart
<1>4. CounterFollows'
  BY <1>1, <1>2 DEF CallsCounted, CallsApart, CounterFollows
<1> QED BY <1>3, <1>4 DEF CallsCounted

\* A run of the list of comments that no call has overtaken puts the counter
\* where it is, or leaves it to the answer of a call.
LEMMA ListCounts ==
  ASSUME ThreadPlain, CallsCounted, ListShown, "listed" \notin tangled'
  PROVE  CallsCounted'
<1>1. replyCount' = listRun.count /\ UNCHANGED <<replies, posting, loading, removal>>
  BY DEF ListShown
<1>2. CallsApart'
  BY <1>1 DEF CallsCounted, CallsApart
<1>3. CASE removal.step = "error" \/ \E c \in Composers : posting[c].step = "created"
  <2>1. (\E c \in Composers : posting[c].step = "created") => removal.step = "none"
    BY DEF CallsCounted, CallsApart
  <2> QED BY <1>1, <1>2, <1>3, <2>1 DEF CallsCounted, CounterFollows
<1>4. CASE ~(removal.step = "error" \/ \E c \in Composers : posting[c].step = "created")
  <2>1. listRun.count = IF removal.step = "sent" THEN Least0(Cardinality(replies) - 1)
                                                ELSE Cardinality(replies)
    BY <1>4 DEF ListShown
  <2> QED BY <1>1, <1>2, <1>4, <2>1 DEF CallsCounted, CounterFollows
<1> QED BY <1>3, <1>4

\* A comment that leaves with none of its answers awaited leaves the counter.
LEMMA LeftCounts ==
  ASSUME ThreadPlain, CallsCounted, CommentLeft, "lost" \notin tangled'
  PROVE  CallsCounted' /\ removal.step = "none" /\ \A c \in Composers : posting[c].step = "none"
<1>1. /\ posting' = [c \in Composers |-> NoPosting] /\ removal' = NoRemoval
      /\ UNCHANGED <<replies, replyCount, loading>>
      /\ removal.step = "none" /\ \A c \in Composers : posting[c].step = "none"
  BY DEF CommentLeft
<1>2. removal'.step = "none" /\ \A c \in Composers : posting'[c].step = "none"
  BY <1>1, NewPosting
<1>3. replyCount = Cardinality(replies)
  BY <1>1 DEF CallsCounted, CounterFollows
<1>4. CallsApart' /\ CounterFollows'
  BY <1>1, <1>2, <1>3 DEF CallsCounted, CallsApart, CounterFollows
<1> QED BY <1>1, <1>4 DEF CallsCounted

\* What fails without having been executed leaves the counter.
LEMMA FaultCounts ==
  ASSUME ThreadPlain, CallsCounted, ThreadFault, "lost" \notin tangled'
  PROVE  /\ CallsCounted' /\ UNCHANGED <<replies, loading, listing>>
         /\ \/ UNCHANGED removal /\ \E c \in Composers :
                 /\ posting[c].step = "sent" /\ posting'[c].step = "none"
                 /\ \A d \in Composers \ {c} : posting'[d] = posting[d]
            \/ /\ UNCHANGED posting /\ removal.step = "sent"
               /\ removal' = [removal EXCEPT !.step = "error"]
            \/ UNCHANGED <<posting, removal>>
<1>1. /\ UNCHANGED <<replies, replyCount, loading, listing>>
      /\ \/ /\ UNCHANGED removal
            /\ \E c \in Composers : /\ posting[c].step = "sent"
                                    /\ posting' = [posting EXCEPT ![c] = NoPosting]
         \/ /\ UNCHANGED posting /\ removal.step = "sent"
            /\ removal' = [removal EXCEPT !.step = "error"]
         \/ UNCHANGED <<posting, removal>>
  <2>1. \A c \in Composers : posting[c].step \in {"none", "sent", "created"}
    BY DEF ThreadPlain, ThreadTyped, ReplySteps
  <2> QED BY <2>1 DEF ThreadFault
<1>2. CASE UNCHANGED removal /\ \E c \in Composers : posting[c].step = "sent"
                                                    /\ posting' = [posting EXCEPT ![c] = NoPosting]
  <2>1. PICK c \in Composers : /\ posting[c].step = "sent"
                               /\ posting' = [posting EXCEPT ![c] = NoPosting]
    BY <1>2
  <2>2. posting'[c].step = "none" /\ \A d \in Composers \ {c} : posting'[d] = posting[d]
    BY <2>1, NewPosting DEF ThreadPlain, ThreadTyped
  <2>3. /\ loading = {} /\ removal.step = "none"
        /\ \A d \in Composers \ {c} : posting[d].step = "none"
    BY <2>1 DEF CallsCounted, CallsApart
  <2>4. replyCount = Cardinality(replies)
    BY <2>1, <2>3 DEF CallsCounted, CounterFollows
  <2>5. \A d \in Composers : posting'[d].step = "none"
    BY <2>2, <2>3
  <2>6. CallsCounted'
    BY <1>1, <1>2, <2>3, <2>4, <2>5 DEF CallsCounted, CallsApart, CounterFollows
  <2> QED BY <1>1, <1>2, <2>1, <2>2, <2>6
<1>3. CASE UNCHANGED posting /\ removal.step = "sent" /\ removal' = [removal EXCEPT !.step = "error"]
  <2>1. removal'.step = "error" /\ removal'.count = removal.count
    BY <1>3 DEF ThreadPlain, ThreadTyped
  <2>2. CallsCounted'
    BY <1>1, <1>3, <2>1 DEF CallsCounted, CallsApart, CounterFollows
  <2> QED BY <1>1, <1>3, <2>2
<1>4. CASE UNCHANGED <<posting, removal>>
  <2>1. CallsCounted'
    BY <1>1, <1>4 DEF CallsCounted, CallsApart, CounterFollows
  <2> QED BY <1>1, <1>4, <2>1
<1> QED BY <1>1, <1>2, <1>3, <1>4

LEMMA CountsKept ==
  ASSUME ThreadPlain, CallsCounted, ThreadNext, tangled' \intersect Disturbing = {}
  PROVE  CallsCounted'
<1>1. /\ "overlap" \notin tangled' /\ "lost" \notin tangled' /\ "foreign" \notin tangled'
      /\ "listed" \notin tangled'
  BY DEF Disturbing
<1>2. ~ForeignDeletion /\ ~AdriftServed
  BY <1>1 DEF ForeignDeletion, AdriftServed
<1> QED BY <1>1, <1>2, SubmitCounts, CreatedCounts, PostedCounts, RemoveCounts, DeletedCounts,
           OverCounts, ListCounts, LeftCounts, FaultCounts DEF ThreadNext, ThreadProgress

-----------------------------------------------------------------------------
\* The page of the view.
PagesShow == PageShows /\ RendersHold

\* Nothing is under way: the page of a thread that is shown, if it has been
\* read, shows the replies.
LEMMA NothingUnderWay ==
  ASSUME ThreadPlain, ~Busy
  PROVE  /\ loading = {} /\ removal.step = "none" /\ \A c \in Composers : posting[c].step = "none"
         /\ JustDeleted = {} /\ replies \union JustDeleted = replies
         /\ \A data : Expected(data) = replies
<1>1. loading = {} /\ removal.step = "none" /\ \A c \in Composers : posting[c].step = "none"
  BY DEF Busy
<1>2. JustDeleted = {} /\ \A data : Unlisted(data) = {}
  BY <1>1 DEF JustDeleted, Unlisted
<1> QED BY <1>1, <1>2 DEF Expected

LEMMA PageShowsNext ==
  ASSUME InRange(view'.page, (replies \union JustDeleted)'),
         view'.show /\ listing'.step = "none" =>
           Shows(cache'[view'.page], view'.page, Expected(cache[view.page])'),
         listing'.step = "served" => Shows(listing'.value, listing'.page, listing'.value.counted)
  PROVE  PageShows'
BY DEF PageShows, InRange, Before, Shows

LEMMA TurnsShow ==
  ASSUME ThreadPlain, PagesShow, handleShowReplies \/ TurnPage, tangled' = {}
  PROVE  PagesShow'
<1>1. ~Busy /\ UNCHANGED <<replies, cache, posting, loading, removal>>
  BY DEF handleShowReplies, TurnPage
<1>2. /\ loading = {} /\ removal.step = "none" /\ \A c \in Composers : posting[c].step = "none"
      /\ replies \union JustDeleted = replies
  BY <1>1, NothingUnderWay
<1>3. JustDeleted' = JustDeleted
  BY <1>1 DEF JustDeleted
<1>4. RendersHold'
  BY <1>1, <1>2 DEF RendersHold
<1>5. view \in [show : BOOLEAN, page : Nat \ {0}] /\ Cardinality(replies) \in Nat
  BY RepliesCounted DEF ThreadPlain, ThreadTyped
<1>6. \E page \in Nat \ {0}, show \in BOOLEAN : Turn(page, show) /\ InRange(page, replies)
  <2>1. CASE handleShowReplies
    <3>1. Turn(1, ~view.show)
      BY <2>1, Zenon DEF handleShowReplies
    <3>2. (~view.show) \in BOOLEAN
      OBVIOUS
    <3>3. 1 \in Nat \ {0} /\ InRange(1, replies)
      BY DEF InRange
    <3> QED BY <3>1, <3>2, <3>3, Zenon
  <2>2. CASE TurnPage
    <3>1. /\ Data.total = Cardinality(replies)
          /\ \/ view.page < Ceil(Data.total) /\ Turn(view.page + 1, TRUE)
             \/ view.page > 1 /\ Turn(view.page - 1, TRUE)
      BY <2>2, <1>1 DEF TurnPage, TotalPage
    <3>2. CASE view.page < Ceil(Data.total) /\ Turn(view.page + 1, TRUE)
      <4>1. view.page + 1 \in Nat \ {0} /\ view.page + 1 <= Ceil(Cardinality(replies))
        BY <1>5, <3>1, <3>2, CeilFacts
      <4>2. InRange(view.page + 1, replies)
        BY <1>5, <4>1, CeilFacts DEF InRange
      <4> QED BY <3>2, <4>1, <4>2
    <3>3. CASE view.page > 1 /\ Turn(view.page - 1, TRUE)
      <4>1. view.page - 1 \in Nat \ {0} /\ view.page \in Nat \ {0}
        BY <1>5, <3>3
      <4>2. /\ Before(view.page - 1) + RepliesPerPage = Before(view.page)
            /\ Before(view.page - 1) \in Nat /\ RepliesPerPage \in Nat
        BY <3>3, <4>1, BeforeFacts
      <4>3. Before(view.page) < Cardinality(replies)
        BY <1>2, <3>3 DEF PagesShow, PageShows, InRange
      <4>4. InRange(view.page - 1, replies)
        BY <1>5, <4>2, <4>3 DEF InRange
      <4> QED BY <3>3, <4>1, <4>4
    <3> QED BY <3>1, <3>2, <3>3
  <2> QED BY <2>1, <2>2
<1>7. PICK page \in Nat \ {0}, show \in BOOLEAN : Turn(page, show) /\ InRange(page, replies)
  BY <1>6
<1>8. /\ view'.page = page /\ (view'.show => listing'.step # "none")
      /\ listing'.step = "served" => listing' = listing
  BY <1>7, TurnFollows
<1>9. InRange(view'.page, (replies \union JustDeleted)')
  BY <1>1, <1>2, <1>3, <1>7, <1>8
<1>10. listing'.step = "served" => Shows(listing'.value, listing'.page, listing'.value.counted)
  BY <1>8 DEF PagesShow, PageShows
<1>11. PageShows'
  BY <1>8, <1>9, <1>10, PageShowsNext
<1> QED BY <1>4, <1>11 DEF PagesShow

LEMMA ListShows ==
  ASSUME ThreadPlain, CallsCounted, PagesShow, RepliesServed \/ RepliesShown, tangled' = {}
  PROVE  PagesShow'
<1>1. UNCHANGED <<replies, view, posting, loading, removal>> /\ listing.step # "none"
  BY DEF RepliesServed, RepliesShown
<1>2. removal.step = "none" /\ JustDeleted = {} /\ JustDeleted' = {}
  BY <1>1 DEF PagesShow, RendersHold, JustDeleted
<1>3. RendersHold'
  BY <1>1, <1>2 DEF PagesShow, RendersHold
<1>4. /\ listing.page = view.page /\ view.page \in Nat \ {0} /\ view.page \in Pages
      /\ replies \in SUBSET Replies
  BY <1>1, DataTyped DEF ThreadPlain, ThreadTyped, PageOfView
<1>5. InRange(view.page, replies) /\ InRange(view'.page, (replies \union JustDeleted)')
  <2>1. replies \union JustDeleted = replies /\ (replies \union JustDeleted)' = replies
    BY <1>1, <1>2
  <2>2. InRange(view.page, replies \union JustDeleted)
    BY DEF PagesShow, PageShows
  <2> QED BY <1>1, <2>1, <2>2
<1>6. CASE RepliesServed
  <2>1. /\ listing' = [listing EXCEPT !.step = "served", !.value = ServedReplies(listing.page)]
        /\ listing \in Listings
    BY <1>6 DEF RepliesServed, ThreadPlain, ThreadTyped, Listings
  <2>2. /\ listing'.step = "served" /\ listing'.page = view.page
        /\ listing'.value = ServedReplies(view.page)
    BY <1>4, <2>1 DEF Listings
  <2>3. /\ Shows(ServedReplies(view.page), view.page, replies)
        /\ ServedReplies(view.page).counted = replies
    BY <1>4, <1>5, ServedShows
  <2>4. PageShows'
    BY <1>5, <2>2, <2>3, PageShowsNext
  <2> QED BY <1>3, <2>4 DEF PagesShow
<1>7. CASE RepliesShown
  <2>1. /\ listing.step = "served" /\ listing' = NoListing /\ NoListing.step = "none"
        /\ cache' = [cache EXCEPT ![listing.page] = listing.value]
        /\ listing.value.counted = replies
    BY <1>7 DEF RepliesShown, NoListing
  <2>2. cache'[view'.page] = listing.value
    BY <1>1, <1>4, <2>1 DEF ThreadPlain, ThreadTyped
  <2>3. Shows(listing.value, view.page, replies)
    BY <1>4, <2>1 DEF PagesShow, PageShows
  <2>4. Expected(cache[view.page])' = replies
    <3>1. (replies \ cache[view.page].counted)' = {}
      BY <1>1, <2>1, <2>2
    <3>2. Unlisted(cache[view.page])' = {}
      BY <3>1 DEF Unlisted
    <3> QED BY <1>1, <1>2, <3>2 DEF Expected
  <2>5. PageShows'
    BY <1>1, <1>5, <2>1, <2>2, <2>3, <2>4, PageShowsNext
  <2> QED BY <1>3, <2>5 DEF PagesShow
<1> QED BY <1>6, <1>7

LEMMA SubmitShows ==
  ASSUME ThreadPlain, PagesShow, NEW c \in Composers, SubmitReply(c), tangled' = {}
  PROVE  PagesShow'
<1>1. ~Busy /\ UNCHANGED <<replies, view, cache, listing, loading, removal>>
  BY DEF SubmitReply
<1>2. /\ posting'[c].step = "sent" /\ posting'[c].page = view.page
      /\ \A d \in Composers \ {c} : posting'[d] = posting[d]
  BY SubmitPlain DEF ThreadPlain, ThreadTyped
<1>3. /\ loading = {} /\ removal.step = "none" /\ \A d \in Composers : posting[d].step = "none"
      /\ replies \union JustDeleted = replies /\ Expected(cache[view.page]) = replies
  BY <1>1, NothingUnderWay
<1>4. RendersHold'
  BY <1>1, <1>2, <1>3 DEF RendersHold
<1>5. (replies \union JustDeleted)' = replies /\ Expected(cache[view.page])' = replies
  <2>1. JustDeleted' = {} /\ Unlisted(cache[view.page])' = {}
    BY <1>1, <1>2, <1>3 DEF JustDeleted, Unlisted
  <2> QED BY <1>1, <2>1 DEF Expected
<1>6. PageShows'
  BY <1>1, <1>3, <1>5, PageShowsNext DEF PagesShow, PageShows
<1> QED BY <1>4, <1>6 DEF PagesShow

\* More rows leave a page in range.
LEMMA StaysInRange ==
  ASSUME NEW p \in Nat \ {0}, NEW rows, NEW more, InRange(p, rows),
         Cardinality(rows) \in Nat, Cardinality(more) \in Nat,
         Cardinality(rows) <= Cardinality(more)
  PROVE  InRange(p, more)
BY BeforeFacts DEF InRange

LEMMA CreatedShows ==
  ASSUME ThreadPlain, CallsCounted, PagesShow, NEW c \in Composers, ReplyCreated(c), tangled' = {}
  PROVE  PagesShow'
<1>1. UNCHANGED <<view, cache, listing, loading, removal>> /\ listing.step # "served"
  BY DEF ReplyCreated
<1>2. PICK r \in ToCome :
        /\ replies' = replies \union {r} /\ r \notin replies
        /\ posting'[c].reply = r
        /\ posting[c].step = "sent" /\ posting'[c].step = "created"
        /\ posting'[c].page = posting[c].page
        /\ \A d \in Composers \ {c} : posting'[d] = posting[d]
  BY CreatedPlain
<1>3. /\ loading = {} /\ removal.step = "none"
      /\ \A d \in Composers \ {c} : posting[d].step = "none"
  BY <1>2 DEF CallsCounted, CallsApart
<1>4. JustDeleted = {} /\ JustDeleted' = {} /\ Expected(cache[view.page]) = replies
  <2>1. JustDeleted = {} /\ JustDeleted' = {} /\ Unlisted(cache[view.page]) = {}
    BY <1>1, <1>2, <1>3 DEF JustDeleted, Unlisted
  <2> QED BY <2>1 DEF Expected
<1>5. RendersHold'
  BY <1>1, <1>2, <1>3 DEF PagesShow, RendersHold
<1>6. view.page \in Pages /\ view.page \in Nat \ {0} /\ r \notin cache[view.page].counted
  <2>1. view.page \in Pages /\ view.page \in Nat \ {0}
    BY DataTyped DEF ThreadPlain, ThreadTyped
  <2> QED BY <2>1 DEF ThreadPlain, CountedHasCome
<1>7. Expected(cache[view.page])' = replies
  <2>1. Unlisted(cache[view.page])' = {r}
    BY <1>1, <1>2, <1>3, <1>6 DEF Unlisted
  <2> QED BY <1>2, <1>4, <2>1 DEF Expected
<1>8. InRange(view'.page, (replies \union JustDeleted)')
  <2>1. Cardinality(replies') = Cardinality(replies) + 1 /\ Cardinality(replies) \in Nat
    BY <1>2, RepliesCounted
  <2>2. InRange(view.page, replies)
    BY <1>4 DEF PagesShow, PageShows
  <2>3. InRange(view.page, replies')
    BY <1>6, <2>1, <2>2, StaysInRange
  <2>4. (replies \union JustDeleted)' = replies'
    BY <1>4
  <2> QED BY <1>1, <2>3, <2>4
<1>9. PageShows'
  BY <1>1, <1>4, <1>7, <1>8, PageShowsNext DEF PagesShow, PageShows
<1> QED BY <1>5, <1>9 DEF PagesShow

LEMMA PostedShows ==
  ASSUME ThreadPlain, CallsCounted, PagesShow, NEW c \in Composers, handleReplyPosted(c),
         tangled' = {}
  PROVE  PagesShow'
<1>1. /\ posting[c].step = "created" /\ UNCHANGED <<replies, cache, removal>>
      /\ loading' = loading \union {[reply |-> posting[c].reply, page |-> posting[c].page,
                                     count |-> posting[c].count]}
  BY DEF handleReplyPosted
<1>2. /\ posting'[c].step = "none" /\ \A d \in Composers \ {c} : posting'[d] = posting[d]
      /\ view' = [show |-> TRUE, page |-> view.page]
      /\ view.show => listing' = listing
      /\ ~view.show => listing'.step # "none"
      /\ listing'.step = "served" => listing' = listing
  BY PostedPlain
<1>3. /\ loading = {} /\ removal.step = "none"
      /\ \A d \in Composers \ {c} : posting[d].step = "none"
      /\ posting[c].page = view.page /\ posting[c].reply \in replies
  BY <1>1 DEF CallsCounted, CallsApart, PagesShow, RendersHold
<1>4. \A d \in Composers : posting'[d].step = "none"
  BY <1>2, <1>3
<1>5. view'.page = view.page /\ view'.show
  BY <1>2
<1>6. RendersHold'
  BY <1>1, <1>3, <1>4, <1>5 DEF RendersHold
<1>7. JustDeleted' = JustDeleted /\ Expected(cache[view.page])' = Expected(cache[view.page])
  <2>1. JustDeleted' = JustDeleted
    BY <1>1 DEF JustDeleted
  <2>2. cache[view.page]' = cache[view.page]
    BY <1>1, <1>5
  <2>3. \A r : (\E l \in loading' : l.reply = r) <=> posting[c].reply = r
    BY <1>1, <1>3
  <2>4. \A r : (\E d \in Composers : posting[d].step = "created" /\ posting[d].reply = r)
                 <=> posting[c].reply = r
    BY <1>1, <1>3
  <2>5. Unlisted(cache[view.page])' = Unlisted(cache[view.page])
    BY <1>1, <1>3, <1>4, <2>2, <2>3, <2>4 DEF Unlisted
  <2> QED BY <1>1, <2>1, <2>2, <2>5 DEF Expected
<1>8. PageShows'
  <2>1. (replies \union JustDeleted)' = replies \union JustDeleted
    BY <1>1, <1>7
  <2>2. view'.show /\ listing'.step = "none" => view.show /\ listing.step = "none"
    BY <1>2
  <2> QED BY <1>1, <1>2, <1>5, <1>7, <2>1, <2>2, PageShowsNext DEF PagesShow, PageShows
<1> QED BY <1>6, <1>8 DEF PagesShow

LEMMA PageCounted ==
  ASSUME NEW data \in ReplyPages
  PROVE  /\ IsFiniteSet(data.comments) /\ Cardinality(data.comments) \in Nat
         /\ data.comments \in SUBSET Replies /\ data # Absent
BY ThreadBounds DEF ReplyPages, Absent

LEMMA LoadedShows ==
  ASSUME ThreadPlain, CallsCounted, PagesShow, NEW l \in loading, ReplyLoaded(l), tangled' = {}
  PROVE  PagesShow'
<1> DEFINE old == cache[view.page]
           new == cache'[view.page]
<1>1. /\ loading' = loading \ {l} /\ UNCHANGED <<replies, view, listing, posting, removal>>
      /\ ~(l.reply \in cache[l.page].counted \ cache[l.page].comments)
  BY DEF ReplyLoaded
<1>2. /\ loading = {l} /\ loading' = {} /\ removal.step = "none"
      /\ \A d \in Composers : posting[d].step = "none"
      /\ l.page = view.page /\ l.reply \in replies
  <2>1. \A k \in loading : k = l
    BY DEF CallsCounted, CallsApart
  <2>2. loading = {l}
    BY <2>1
  <2> QED BY <1>1, <2>2 DEF CallsCounted, CallsApart, PagesShow, RendersHold
<1>3. RendersHold'
  BY <1>1, <1>2 DEF RendersHold
<1>4. /\ JustDeleted = {} /\ JustDeleted' = {} /\ Expected(cache[view.page])' = replies
  <2>1. JustDeleted = {} /\ JustDeleted' = {} /\ Unlisted(cache[view.page])' = {}
    BY <1>1, <1>2 DEF JustDeleted, Unlisted
  <2> QED BY <1>1, <2>1 DEF Expected
<1>5. ASSUME view.show, listing.step = "none"
      PROVE  Shows(new, view.page, replies)
  <2>1. Shows(old, view.page, Expected(old)) /\ old \in ReplyPages /\ old # Absent
    BY <1>5, PageCounted DEF PagesShow, PageShows, Shows
  <2>2. view.page \in Pages /\ view.page \in Nat \ {0}
    BY DataTyped DEF ThreadPlain, ThreadTyped
  <2>3. Unlisted(old) = IF l.reply \in old.counted THEN {} ELSE {l.reply}
    BY <1>2 DEF Unlisted
  <2>4. CASE l.reply \in old.comments
    <3>1. new = old
      BY <1>2, <2>1, <2>2, <2>4, LoadedPage
    <3>2. l.reply \in Expected(old)
      BY <2>1, <2>4 DEF Shows
    <3>3. Expected(old) = replies
      BY <1>4, <2>3, <3>2 DEF Expected
    <3> QED BY <2>1, <3>1, <3>3
  <2>5. CASE l.reply \notin old.comments
    <3>1. Expected(old) = replies \ {l.reply}
      BY <1>1, <1>2, <1>4, <2>3, <2>5 DEF Expected
    <3>2. /\ new \in ReplyPages /\ new.comments = old.comments \union {l.reply}
          /\ new.total = old.total + 1
      BY <1>2, <2>1, <2>2, <2>5, LoadedPage
    <3>3. /\ Cardinality(replies \ {l.reply}) = Cardinality(replies) - 1
          /\ Cardinality(replies) \in Nat
      BY <1>2, RepliesCounted
    <3>4. /\ Cardinality(new.comments) = Cardinality(old.comments) + 1
          /\ Cardinality(old.comments) \in Nat
      BY <2>1, <2>5, <3>2, PageCounted, FS_AddElement
    <3>8. /\ old.total = Cardinality(replies) - 1 /\ old.comments \subseteq replies
          /\ view.page # 1 =>
               Before(view.page) + Cardinality(old.comments) <= Cardinality(replies) - 1
      BY <2>1, <3>1, <3>3 DEF Shows
    <3>5. new.total = Cardinality(replies) /\ new.comments \subseteq replies /\ new.comments # {}
      <4>1. new.total = Cardinality(replies)
        BY <3>8, <3>2, <3>3
      <4>2. new.comments \subseteq replies /\ new.comments # {}
        BY <1>2, <3>8, <3>2
      <4> QED BY <4>1, <4>2
    <3>6. replies \subseteq new.comments \/ Cardinality(replies) > RepliesPerPage
      BY <2>1, <3>1, <3>2, <3>3, ThreadBounds DEF Shows
    <3>7. view.page # 1 => Before(view.page) + Cardinality(new.comments) <= Cardinality(replies)
      <4>1. Before(view.page) \in Nat
        BY <2>2, BeforeFacts
      <4> QED BY <3>8, <3>3, <3>4, <4>1
    <3> HIDE DEF new, old
    <3> QED BY <3>2, <3>5, <3>6, <3>7 DEF Shows
  <2> QED BY <2>4, <2>5
<1>6. PageShows'
  <2>1. InRange(view.page, replies \union JustDeleted)
    BY DEF PagesShow, PageShows
  <2>2. InRange(view'.page, (replies \union JustDeleted)')
    BY <1>1, <1>4, <2>1
  <2>3. listing'.step = "served" => Shows(listing'.value, listing'.page, listing'.value.counted)
    BY <1>1 DEF PagesShow, PageShows
  <2> QED BY <1>1, <1>4, <1>5, <2>2, <2>3, PageShowsNext
<1> QED BY <1>3, <1>6 DEF PagesShow

LEMMA RemoveShows ==
  ASSUME ThreadPlain, PagesShow, NEW r \in Replies, handleRemoveReply(r), tangled' = {}
  PROVE  PagesShow'
<1>1. /\ ~Busy /\ UNCHANGED <<replies, view, cache, listing, posting, loading>>
      /\ listing.step = "none" /\ view.show /\ r \in Data.comments
  BY DEF handleRemoveReply
<1>2. removal' = [step |-> "sent", reply |-> r, page |-> view.page, count |-> replyCount,
                  alone |-> Data.comments = {r}]
  BY RemovePlain
<1>3. /\ loading = {} /\ \A d \in Composers : posting[d].step = "none"
      /\ replies \union JustDeleted = replies /\ Expected(cache[view.page]) = replies
  BY <1>1, NothingUnderWay
<1>4. Data = cache[view.page]
  <2>1. cache[view.page] # Absent
    BY <1>1, PageCounted DEF PagesShow, PageShows, Shows
  <2> QED BY <2>1 DEF Data
<1>5. RendersHold'
  <2>1. /\ removal'.step = "sent" /\ removal'.page = view.page /\ removal'.reply = r
        /\ removal'.alone = (Data.comments = {r})
    BY <1>2
  <2> QED BY <1>1, <1>3, <1>4, <2>1 DEF RendersHold
<1>6. (replies \union JustDeleted)' = replies /\ Expected(cache[view.page])' = replies
  <2>1. JustDeleted' = {} /\ Unlisted(cache[view.page])' = {}
    BY <1>1, <1>2, <1>3 DEF JustDeleted, Unlisted
  <2> QED BY <1>1, <2>1 DEF Expected
<1>7. PageShows'
  BY <1>1, <1>3, <1>6, PageShowsNext DEF PagesShow, PageShows
<1> QED BY <1>5, <1>7 DEF PagesShow

\* Executed or failed, the page still shows what was deleted.
LEMMA DeletedShows ==
  ASSUME ThreadPlain, CallsCounted, PagesShow, ReplyDeleted
  PROVE  PagesShow'
<1>1. removal.step = "sent" /\ UNCHANGED <<view, cache, listing, posting, loading>>
  BY DEF ReplyDeleted
<1>2. /\ replies' = replies \ {removal.reply}
      /\ removal'.step = IF removal.reply \in replies THEN "deleted" ELSE "error"
      /\ removal'.reply = removal.reply /\ removal'.page = removal.page
      /\ removal'.alone = removal.alone
  BY DeletedPlain
<1>3. loading = {} /\ \A d \in Composers : posting[d].step = "none"
  BY <1>1 DEF CallsCounted, CallsApart
<1>4. RendersHold'
  BY <1>1, <1>2, <1>3 DEF PagesShow, RendersHold
<1>5. (replies \union JustDeleted)' = replies
  <2>1. CASE removal.reply \in replies
    <3>1. removal.reply \in Replies /\ JustDeleted' = {removal.reply}
      BY <1>2, <2>1 DEF JustDeleted, ThreadPlain, ThreadTyped
    <3> QED BY <1>2, <2>1, <3>1
  <2>2. CASE removal.reply \notin replies
    <3>1. JustDeleted' = {}
      BY <1>2, <2>2 DEF JustDeleted
    <3> QED BY <1>2, <2>2, <3>1
  <2> QED BY <2>1, <2>2
<1>6. /\ Expected(cache[view.page])' = replies /\ Expected(cache[view.page]) = replies
      /\ replies \union JustDeleted = replies
  <2>1. Unlisted(cache[view.page])' = {} /\ Unlisted(cache[view.page]) = {} /\ JustDeleted = {}
    BY <1>1, <1>3 DEF Unlisted, JustDeleted
  <2> QED BY <1>5, <2>1 DEF Expected
<1>7. PageShows'
  BY <1>1, <1>5, <1>6, PageShowsNext DEF PagesShow, PageShows
<1> QED BY <1>4, <1>7 DEF PagesShow

\* The deletion of the last row of the last page turns it back; that of another
\* row of the last page leaves it in order.
LEMMA RemovedShows ==
  ASSUME ThreadPlain, CallsCounted, PagesShow, ReplyRemoved, tangled' = {}
  PROVE  PagesShow'
<1> DEFINE r == removal.reply
           p == view.page
           old == cache[p]
           new == cache'[p]
           n == Cardinality(replies)
<1>1. /\ removal.step = "deleted" /\ removal' = NoRemoval
      /\ UNCHANGED <<replies, posting, loading>>
      /\ ~(removal.page < Ceil(cache[removal.page].total))
      /\ IF removal.page > 1 /\ removal.alone
         THEN Turn(Max({1, view.page - 1}), view.show)
         ELSE UNCHANGED <<view, kept, listing>>
  BY DEF ReplyRemoved
<1>2. /\ loading = {} /\ \A d \in Composers : posting[d].step = "none"
      /\ view.show /\ listing.step = "none" /\ removal.page = p
      /\ r \in old.comments /\ removal.alone = (old.comments = {r}) /\ r \notin replies
  BY <1>1 DEF CallsCounted, CallsApart, PagesShow, RendersHold
<1>3. /\ p \in Pages /\ p \in Nat \ {0} /\ view \in [show : BOOLEAN, page : Nat \ {0}]
      /\ n \in Nat /\ IsFiniteSet(replies)
      /\ RepliesPerPage \in Nat \ {0} /\ Before(p) \in Nat /\ Before(1) = 0
  BY DataTyped, RepliesCounted, BeforeFacts DEF ThreadPlain, ThreadTyped
<1>4. RendersHold'
  BY <1>1, <1>2, NewPosting DEF RendersHold
<1>5. /\ JustDeleted = {r} /\ Expected(old) = replies \union {r}
      /\ JustDeleted' = {} /\ Expected(cache[view.page])' = replies
      /\ (replies \union JustDeleted)' = replies
  <2>1. r \in Replies
    <3>1. old \in ReplyPages
      BY <1>2 DEF PagesShow, PageShows, Shows
    <3> QED BY <1>2, <3>1 DEF ReplyPages
  <2>2. JustDeleted = {r} /\ Unlisted(old) = {}
    BY <1>1, <1>2, <2>1 DEF JustDeleted, Unlisted
  <2>3. JustDeleted' = {} /\ Unlisted(cache[view.page])' = {}
    BY <1>1, <1>2, NewPosting DEF JustDeleted, Unlisted
  <2> QED BY <1>1, <2>2, <2>3 DEF Expected
<1>6. /\ Shows(old, p, replies \union {r}) /\ InRange(p, replies \union {r})
      /\ Cardinality(replies \union {r}) = n + 1 /\ old.total = n + 1 /\ old \in ReplyPages
  <2>1. Shows(old, p, replies \union {r}) /\ InRange(p, replies \union {r})
    BY <1>2, <1>5 DEF PagesShow, PageShows
  <2>2. Cardinality(replies \union {r}) = n + 1
    BY <1>2, RepliesCounted
  <2> QED BY <2>1, <2>2 DEF Shows
<1>7. /\ new \in ReplyPages /\ new.comments = old.comments \ {r} /\ new.total = n
  <2>1. /\ new \in ReplyPages /\ new.comments = old.comments \ {r}
        /\ new.total = Least0(old.total - 1)
    BY <1>2, <1>3, RemovedPage
  <2> QED BY <1>3, <1>6, <2>1 DEF Least0
<1>8. ~(p < Ceil(n + 1))
  BY <1>1, <1>2, <1>6
<1>9. CASE p > 1 /\ removal.alone
  <2>1. Max({1, p - 1}) = p - 1 /\ p - 1 \in Nat \ {0}
    BY <1>3, <1>9, LeastOne
  <2>2. view.show \in BOOLEAN /\ Turn(p - 1, view.show)
    BY <1>1, <1>2, <1>3, <1>9, <2>1
  <2>3. /\ view'.page = p - 1 /\ (view'.show => listing'.step # "none")
        /\ listing'.step = "served" => listing' = listing
    BY <2>1, <2>2, TurnFollows
  <2>4. InRange(p - 1, replies)
    <3>1. Before(p - 1) + RepliesPerPage = Before(p) /\ Before(p - 1) \in Nat
      BY <1>3, <1>9, <2>1, BeforeFacts
    <3>2. Before(p) < n + 1
      BY <1>6, <1>9 DEF InRange
    <3> QED BY <1>3, <3>1, <3>2 DEF InRange
  <2>5. PageShows'
    BY <1>2, <1>5, <2>3, <2>4, PageShowsNext
  <2> QED BY <1>4, <2>5 DEF PagesShow
<1>10. CASE ~(p > 1 /\ removal.alone)
  <2>1. view' = view /\ listing' = listing
    BY <1>1, <1>2, <1>10
  <2>2. CASE p = 1
    <3>1. n + 1 <= RepliesPerPage
      <4>1. ~(2 <= Ceil(n + 1)) /\ 2 \in Nat \ {0} /\ n + 1 \in Nat
        BY <1>3, <1>8, <2>2, CeilFacts
      <4>2. ~(Before(2) < n + 1)
        BY <4>1, CeilFacts
      <4>3. Before(2) = RepliesPerPage
        BY <1>3 DEF Before
      <4> QED BY <1>3, <4>2, <4>3
    <3>2. old.comments = replies \union {r}
      BY <1>3, <1>6, <3>1 DEF Shows
    <3>3. new.comments = replies
      BY <1>2, <1>7, <3>2
    <3>4. Shows(new, p, replies) /\ InRange(p, replies)
      <4> HIDE DEF new
      <4> QED BY <1>7, <2>2, <3>3 DEF Shows, InRange
    <3>5. PageShows'
      BY <1>2, <1>5, <2>1, <3>4, PageShowsNext
    <3> QED BY <1>4, <3>5 DEF PagesShow
  <2>3. CASE p > 1 /\ ~removal.alone
    <3>1. /\ Cardinality(new.comments) = Cardinality(old.comments) - 1
          /\ Cardinality(old.comments) \in Nat /\ Cardinality(new.comments) \in Nat
          /\ IsFiniteSet(new.comments)
      <4>1. IsFiniteSet(old.comments) /\ Cardinality(old.comments) \in Nat
        BY <1>6, PageCounted
      <4>2. IsFiniteSet(new.comments) /\ Cardinality(new.comments) \in Nat
        BY <1>7, PageCounted
      <4>3. Cardinality(old.comments \ {r}) = Cardinality(old.comments) - 1
        BY <1>2, <4>1, FS_RemoveElement
      <4> QED BY <1>7, <4>1, <4>2, <4>3
    <3>2. new.comments # {} /\ Cardinality(new.comments) > 0
      <4>1. new.comments # {}
        BY <1>2, <1>7, <2>3
      <4>2. Cardinality(new.comments) # 0
        BY <3>1, <4>1, FS_EmptySet
      <4> QED BY <3>1, <4>1, <4>2
    <3>3. Before(p) + Cardinality(new.comments) <= n
      <4>1. Before(p) + Cardinality(old.comments) <= n + 1
        BY <1>6, <2>3 DEF Shows
      <4> QED BY <1>3, <3>1, <4>1
    <3>4. Before(p) >= RepliesPerPage
      <4>1. Before(p - 1) + RepliesPerPage = Before(p) /\ p - 1 \in Nat \ {0}
        BY <1>3, <2>3, BeforeFacts
      <4>2. Before(p - 1) \in Nat
        BY <4>1, BeforeFacts
      <4> QED BY <1>3, <4>1, <4>2
    <3>5. Before(p) < n /\ n > RepliesPerPage
      BY <1>3, <3>1, <3>2, <3>3, <3>4
    <3>6. new.comments \subseteq replies
      BY <1>6, <1>7 DEF Shows
    <3>7. Shows(new, p, replies) /\ InRange(p, replies)
      <4> HIDE DEF new
      <4> QED BY <1>7, <3>2, <3>3, <3>5, <3>6 DEF Shows, InRange
    <3>8. PageShows'
      BY <1>2, <1>5, <2>1, <3>7, PageShowsNext
    <3> QED BY <1>4, <3>8 DEF PagesShow
  <2> QED BY <1>3, <1>10, <2>2, <2>3
<1> QED BY <1>2, <1>9, <1>10

-----------------------------------------------------------------------------
LEMMA FailedShows ==
  ASSUME ThreadPlain, CallsCounted, PagesShow, RemovalFailed
  PROVE  PagesShow'
<1>1. /\ removal.step = "error" /\ removal' = NoRemoval
      /\ UNCHANGED <<replies, view, cache, listing, posting, loading>>
  BY DEF RemovalFailed
<1>2. JustDeleted = {} /\ JustDeleted' = {}
  BY <1>1, NewPosting DEF JustDeleted
<1>3. Expected(cache[view.page])' = Expected(cache[view.page])
  BY <1>1, <1>2 DEF Expected, Unlisted
<1>4. RendersHold'
  BY <1>1, NewPosting DEF PagesShow, RendersHold
<1>5. PageShows'
  BY <1>1, <1>2, <1>3, PageShowsNext DEF PagesShow, PageShows
<1> QED BY <1>4, <1>5 DEF PagesShow

LEMMA SameShows ==
  ASSUME PagesShow, UNCHANGED <<replies, view, cache, listing, posting, loading, removal>>
  PROVE  PagesShow'
<1>1. JustDeleted' = JustDeleted
  BY DEF JustDeleted
<1>2. Expected(cache[view.page])' = Expected(cache[view.page])
  BY <1>1 DEF Expected, Unlisted
<1>3. RendersHold'
  BY DEF PagesShow, RendersHold
<1>4. PageShows'
  BY <1>1, <1>2, PageShowsNext DEF PagesShow, PageShows
<1> QED BY <1>3, <1>4 DEF PagesShow

\* What is lost before it is executed changes nothing that the page shows.
LEMMA FaultShows ==
  ASSUME ThreadPlain, CallsCounted, PagesShow, ThreadFault, tangled' = {}
  PROVE  PagesShow'
<1>1. /\ UNCHANGED <<replies, loading, listing, view, cache>>
      /\ \/ UNCHANGED removal /\ \E c \in Composers :
              /\ posting[c].step = "sent" /\ posting'[c].step = "none"
              /\ \A d \in Composers \ {c} : posting'[d] = posting[d]
         \/ /\ UNCHANGED posting /\ removal.step = "sent"
            /\ removal' = [removal EXCEPT !.step = "error"]
         \/ UNCHANGED <<posting, removal>>
  <2>1. UNCHANGED <<view, cache>>
    BY DEF ThreadFault
  <2> QED BY <2>1, FaultCounts
<1>2. CASE UNCHANGED removal /\ \E c \in Composers :
             /\ posting[c].step = "sent" /\ posting'[c].step = "none"
             /\ \A d \in Composers \ {c} : posting'[d] = posting[d]
  <2>1. PICK c \in Composers :
          /\ posting[c].step = "sent" /\ posting'[c].step = "none"
          /\ \A d \in Composers \ {c} : posting'[d] = posting[d]
    BY <1>2
  <2>2. JustDeleted' = JustDeleted
    BY <1>2 DEF JustDeleted
  <2>3. Expected(cache[view.page])' = Expected(cache[view.page])
    <3>1. \A r : (\E d \in Composers : posting'[d].step = "created" /\ posting'[d].reply = r)
              <=> (\E d \in Composers : posting[d].step = "created" /\ posting[d].reply = r)
      BY <2>1
    <3>2. Unlisted(cache[view.page])' = Unlisted(cache[view.page])
      BY <1>1, <3>1 DEF Unlisted
    <3> QED BY <1>1, <2>2, <3>2 DEF Expected
  <2>4. RendersHold'
    BY <1>1, <1>2, <2>1 DEF PagesShow, RendersHold
  <2>5. PageShows'
    BY <1>1, <2>2, <2>3, PageShowsNext DEF PagesShow, PageShows
  <2> QED BY <2>4, <2>5 DEF PagesShow
<1>3. CASE /\ UNCHANGED posting /\ removal.step = "sent"
           /\ removal' = [removal EXCEPT !.step = "error"]
  <2>1. /\ removal'.step = "error" /\ removal'.page = removal.page
        /\ removal'.reply = removal.reply /\ removal'.alone = removal.alone
    BY <1>3 DEF ThreadPlain, ThreadTyped
  <2>2. JustDeleted = {} /\ JustDeleted' = {}
    BY <1>3, <2>1 DEF JustDeleted
  <2>3. Expected(cache[view.page])' = Expected(cache[view.page])
    BY <1>1, <1>3, <2>2 DEF Expected, Unlisted
  <2>4. RendersHold'
    BY <1>1, <1>3, <2>1 DEF PagesShow, RendersHold
  <2>5. PageShows'
    BY <1>1, <2>2, <2>3, PageShowsNext DEF PagesShow, PageShows
  <2> QED BY <2>4, <2>5 DEF PagesShow
<1>4. CASE UNCHANGED <<posting, removal>>
  BY <1>1, <1>4, SameShows
<1> QED BY <1>1, <1>2, <1>3, <1>4

\* A refetch and the runs of the list of comments leave the page as it is.
LEMMA RunsShow ==
  ASSUME ThreadPlain, PagesShow, tangled' = {},
         ThreadFocus \/ ListAsked \/ ListNextAsked \/ ListServed \/ ListShown
  PROVE  PagesShow'
<1>1. UNCHANGED <<replies, view, cache, posting, loading, removal>>
  BY DEF ThreadFocus, ListAsked, ListNextAsked, ListServed, ListShown
<1>2. CASE ThreadFocus
  <2>1. /\ listing.step = "none" /\ removal.step = "none" /\ ListReplies(view.page, TRUE)
        /\ view.page \in Nat \ {0} /\ TRUE \in BOOLEAN
    BY <1>2 DEF ThreadFocus, ThreadPlain, ThreadTyped
  <2>2. listing'.step # "none" /\ listing'.step # "served"
    BY <2>1, ListingFollows
  <2>3. RendersHold'
    BY <1>1, <2>1 DEF PagesShow, RendersHold
  <2>4. InRange(view'.page, (replies \union JustDeleted)')
    BY <1>1 DEF PagesShow, PageShows, JustDeleted
  <2>5. PageShows'
    BY <2>2, <2>4, PageShowsNext
  <2> QED BY <2>3, <2>5 DEF PagesShow
<1>3. CASE ~ThreadFocus
  <2>1. UNCHANGED listing
    BY <1>3 DEF ListAsked, ListNextAsked, ListServed, ListShown
  <2> QED BY <1>1, <2>1, SameShows
<1> QED BY <1>2, <1>3

\* A comment that leaves with nothing under way comes back hidden.
LEMMA LeftShows ==
  ASSUME ThreadPlain, CallsCounted, PagesShow, CommentLeft, tangled' = {}
  PROVE  PagesShow'
<1>1. /\ posting' = [c \in Composers |-> NoPosting] /\ removal' = NoRemoval
      /\ view' = [show |-> FALSE, page |-> 1] /\ listing' = NoListing
      /\ loading' = {} /\ NoListing.step = "none"
  BY DEF CommentLeft, NoListing
<1>2. removal'.step = "none" /\ \A c \in Composers : posting'[c].step = "none"
  BY <1>1, NewPosting
<1>3. view'.page = 1 /\ ~view'.show /\ InRange(view'.page, (replies \union JustDeleted)')
  BY <1>1 DEF InRange
<1>4. RendersHold'
  BY <1>1, <1>2 DEF RendersHold
<1>5. PageShows'
  BY <1>1, <1>3, PageShowsNext
<1> QED BY <1>4, <1>5 DEF PagesShow

LEMMA ShowsKept ==
  ASSUME ThreadPlain, CallsCounted, PagesShow, ThreadNext, tangled' = {}
  PROVE  PagesShow'
<1>1. CASE RepliesServed \/ RepliesShown
  BY <1>1, ListShows
<1>2. CASE handleShowReplies \/ TurnPage
  BY <1>2, TurnsShow
<1>3. CASE \E c \in Composers : SubmitReply(c)
  BY <1>3, SubmitShows
<1>4. CASE \E c \in Composers : ReplyCreated(c)
  BY <1>4, CreatedShows
<1>5. CASE \E c \in Composers : handleReplyPosted(c)
  BY <1>5, PostedShows
<1>6. CASE \E l \in loading : ReplyLoaded(l)
  BY <1>6, LoadedShows
<1>7. CASE \E r \in Replies : handleRemoveReply(r)
  BY <1>7, RemoveShows
<1>8. CASE ReplyDeleted
  BY <1>8, DeletedShows
<1>9. CASE ReplyRemoved
  BY <1>9, RemovedShows
<1>10. CASE RemovalFailed
  BY <1>10, FailedShows
<1>11. CASE ThreadFault
  BY <1>11, FaultShows
<1>12. CASE ThreadFocus \/ ListAsked \/ ListNextAsked \/ ListServed \/ ListShown
  BY <1>12, RunsShow
<1>13. CASE CommentLeft
  BY <1>13, LeftShows
<1>14. ~ForeignDeletion /\ ~AdriftServed
  BY DEF ForeignDeletion, AdriftServed
<1> QED BY <1>1, <1>2, <1>3, <1>4, <1>5, <1>6, <1>7, <1>8, <1>9, <1>10, <1>11, <1>12, <1>13, <1>14
        DEF ThreadNext, ThreadProgress

LEMMA ThreadNextKeeps == ThreadIInv /\ [ThreadNext]_threadVars => ThreadIInv'
<1> SUFFICES ASSUME ThreadIInv, [ThreadNext]_threadVars PROVE ThreadIInv'
  OBVIOUS
<1>1. ThreadPlain /\ ThreadPlain'
  BY PlainKept DEF ThreadIInv
<1>2. tangled \subseteq tangled'
  BY TangledGrows
<1>3. CASE UNCHANGED threadVars
  <2>1. CallsCounted' <=> CallsCounted
    BY <1>3 DEF threadVars, CallsCounted, CallsApart, CounterFollows
  <2>2. PagesShow' <=> PagesShow
    BY <1>3 DEF threadVars, PagesShow, PageShows, RendersHold, InRange, Before, Shows, Expected,
                Unlisted, JustDeleted
  <2>3. tangled' = tangled
    BY <1>3 DEF threadVars
  <2> QED BY <1>1, <2>1, <2>2, <2>3 DEF ThreadIInv, CallsCounted, PagesShow
<1>4. CASE ThreadNext
  <2>1. ASSUME tangled' \intersect Disturbing = {} PROVE CallsCounted'
    <3>1. CallsCounted
      BY <1>2, <2>1 DEF ThreadIInv, CallsCounted, Disturbing
    <3> QED BY <1>1, <1>4, <2>1, <3>1, CountsKept
  <2>2. ASSUME tangled' = {} PROVE PagesShow'
    <3>1. CallsCounted /\ PagesShow
      BY <1>2, <2>2 DEF ThreadIInv, CallsCounted, PagesShow
    <3> QED BY <1>1, <1>4, <2>2, <3>1, ShowsKept
  <2> QED BY <1>1, <2>1, <2>2 DEF ThreadIInv, CallsCounted, PagesShow, Disturbing
<1> QED BY <1>3, <1>4

LEMMA ThreadFaithful == ThreadIInv => ThreadIsFaithful
<1> SUFFICES ASSUME ThreadIInv PROVE ThreadIsFaithful
  OBVIOUS
<1>1. ASSUME ~Busy, tangled \intersect {"overlap", "foreign", "lost", "listed"} = {}
      PROVE  replyCount = Cardinality(replies)
  BY <1>1, NothingUnderWay DEF ThreadIInv, CounterFollows
<1>2. ASSUME ~Busy, listing.step = "none", view.show, tangled = {}
      PROVE  /\ Data.comments = {} => replies = {}
             /\ replies \subseteq Data.comments \/ TotalPage > 1
             /\ Data.total = Cardinality(replies)
  <2>1. ThreadPlain /\ Expected(cache[view.page]) = replies
    BY <1>2, NothingUnderWay DEF ThreadIInv
  <2>2. Shows(cache[view.page], view.page, replies)
    BY <1>2, <2>1 DEF ThreadIInv, PageShows
  <2>3. Data = cache[view.page]
    <3>1. cache[view.page] # Absent
      BY <2>2, PageCounted DEF Shows
    <3> QED BY <3>1 DEF Data
  <2>4. Cardinality(replies) > RepliesPerPage => TotalPage > 1
    <3>1. /\ Cardinality(replies) \in Nat /\ RepliesPerPage \in Nat /\ Before(2) = RepliesPerPage
          /\ 2 \in Nat \ {0}
      BY <2>1, RepliesCounted, BeforeFacts DEF Before
    <3>2. Data.total = Cardinality(replies)
      BY <2>2, <2>3 DEF Shows
    <3>3. /\ Ceil(Cardinality(replies)) \in Nat
          /\ 2 <= Ceil(Cardinality(replies)) <=> Before(2) < Cardinality(replies)
      BY <3>1, CeilFacts
    <3> QED BY <3>1, <3>2, <3>3 DEF TotalPage
  <2> QED BY <2>2, <2>3, <2>4 DEF Shows
<1> QED BY <1>1, <1>2 DEF ThreadIsFaithful, ReplyCountExact, RepliesInReach, ThreadAtRest

\* The counter of a thread is the number of its replies, and an opened thread
\* never strands its reader on an empty page or hides a reply from the pager,
\* unless something of what is on record came across: for any replies, page
\* size and dialogs, and any number of calls.
THEOREM ThreadCorrect == ClientSpec => []ThreadIsFaithful
BY ThreadFaithful, PartsImplemented, ThreadInitIInv, ThreadNextKeeps, PTL
-----------------------------------------------------------------------------
(***************************************************************************)
(* The types of every part, and what they need besides the invariants of    *)
(* the parts: what is on record, and enough numbers for the comments.       *)
(***************************************************************************)
LEMMA SessionTypes == SessionIInv => SessionTypeOK
<1> SUFFICES ASSUME SessionIInv PROVE SessionTypeOK
  OBVIOUS
<1>1. SessionTyped /\ MaxPairs \in Nat
  BY SessionBounds DEF SessionIInv
<1>2. 0 .. minted \subseteq Pairs /\ minted \in Pairs
  BY <1>1 DEF SessionTyped, Pairs
<1>3. ASSUME NEW t \in Tabs
      PROVE  /\ tab[t].pc \in TabStates /\ tab[t].got \in 0 .. minted
             /\ exchange[t].step \in {"none", "received", "read"}
  <2>1. tab[t] \in TabRecords /\ exchange[t] \in ExchangeRecords
    BY <1>1 DEF SessionTyped
  <2> QED BY <2>1 DEF TabRecords, ExchangeRecords, NoExchanges, Exchanges
<1> QED BY <1>1, <1>2, <1>3 DEF SessionTypeOK, SessionTyped, TabStates

LEMMA ThemeTypes == ThemeIInv => ThemeTypeOK
BY DEF ThemeIInv, ThemeTyped, ThemeTypeOK

LEMMA PostTypes == PostIInv => PostTypeOK
BY DEF PostIInv, PostTyped, PostTypeOK, PostCalls

LEMMA ComposeTypes == ComposeIInv => ComposeTypeOK
<1> SUFFICES ASSUME ComposeIInv PROVE ComposeTypeOK
  OBVIOUS
<1>1. ComposeTyped /\ MaxDrafts \in Nat
  BY ComposeBounds DEF ComposeIInv
<1>2. draft \in 0 .. MaxDrafts
  BY <1>1 DEF ComposeTyped, ComposeBudgets, Written
<1>3. \A b \in uploads :
        b.step \in {"sent", "put", "saved"} /\ b.rest \subseteq Files /\ b.heard \in BOOLEAN
  BY <1>1 DEF ComposeTyped, Batches
<1>4. \A c \in creating : c.step \in {"sent", "created", "error"} /\ c.heard \in BOOLEAN
  BY <1>1 DEF ComposeTyped, CreateCalls
<1> QED BY <1>1, <1>2, <1>3, <1>4 DEF ComposeTyped, ComposeTypeOK

LEMMA FeedTypes == FeedIInv => FeedTypeOK
<1> SUFFICES ASSUME FeedIInv PROVE FeedTypeOK
  OBVIOUS
<1>1. FeedTyped
  BY DEF FeedIInv
<1>2. \A i \in DOMAIN pages : pages[i] \in PageType
  BY <1>1 DEF FeedTyped
<1>3. fetch.kind \in {"none", "all", "next"} /\ fetch.pages \in Nat
  BY <1>1 DEF FeedTyped, FeedRuns
<1>4. feedBudget.refetches \in Nat /\ feedBudget.faults \in Nat
  BY <1>1 DEF FeedTyped, FeedBudgets
<1> QED BY <1>1, <1>2, <1>3, <1>4 DEF FeedTyped, FeedTypeOK

-----------------------------------------------------------------------------
\* A step of the server turns its edge and its counter together.
LEMMA LikesInStep ==
  ASSUME ThumbIInv, InStep(likes), [ThumbNext]_thumbVars
  PROVE  InStep(likes')
<1>1. likes \in ThumbValues /\ likes.count = Others + Number(likes.on) /\ likes.on \in BOOLEAN
  BY DEF ThumbIInv, ThumbValues, InStep
<1>2. ASSUME NEW action PROVE InStep(Toggled(likes, action))
  <2>1. Toggled(likes, action) = likes \/ Toggled(likes, action) = Turned(likes)
    BY DEF Toggled
  <2> QED BY <1>1, <2>1, SidesInStep
<1>3. \/ likes' = likes \/ \E action : likes' = Toggled(likes, action)
      \/ \E on \in BOOLEAN : likes' = [on |-> on, count |-> Others + Number(on)]
  BY DEF ThumbNext, ThumbProgress, thumbVars, ThumbMount, LikeComment, LikeReply, LikeMessage,
         HandleLike, LikeServed, LikeFails, LikeRefused
<1>4. \A on \in BOOLEAN : InStep([on |-> on, count |-> Others + Number(on)])
  BY DEF InStep
<1> QED BY <1>2, <1>3, <1>4

LEMMA ThumbTypes == ThumbIInv /\ InStep(likes) => ThumbTypeOK
BY DEF ThumbIInv, ThumbValues, LikeCalls, InStep, Number, Others, ThumbTypeOK

-----------------------------------------------------------------------------
Crossings == {"edit", "lost", "unread"}

CrossedTyped == crossed \subseteq Crossings

LEMMA CrossedKept == CrossedTyped /\ [AccountNext]_accountVars => CrossedTyped'
<1> SUFFICES ASSUME [AccountNext]_accountVars
             PROVE  \/ crossed' = crossed
                    \/ \E what \in Crossings : crossed' = crossed \union {what}
  BY DEF CrossedTyped, Crossings
<1> USE DEF Crossings
<1>1. CASE EditNickname \/ ChooseAvatar \/ AvatarShown \/ onResetProfileForm
  BY <1>1 DEF EditNickname, Edit, ChooseAvatar, AvatarShown, onResetProfileForm
<1>2. CASE handleProfileSubmit \/ UpdateServed \/ UpdateFails \/ Saved
  BY <1>2 DEF handleProfileSubmit, UpdateServed, UpdateFails, Saved
<1>3. CASE FocusMe \/ MeServed \/ MeShown \/ MeFails
  BY <1>3 DEF FocusMe, MeServed, MeShown, MeFails
<1>4. CASE SubmitSignUp \/ PutDefaultAvatar \/ CommitUser \/ SignUpFails \/ OpenProfileCenter
  BY <1>4 DEF SubmitSignUp, PutDefaultAvatar, CommitUser, SignUpFails, OpenProfileCenter
<1>5. CASE AvatarStored \/ AvatarFails
  BY <1>5 DEF AvatarStored, AvatarFails
<1>6. CASE UNCHANGED accountVars
  BY <1>6 DEF accountVars
<1> QED BY <1>1, <1>2, <1>3, <1>4, <1>5, <1>6 DEF AccountNext, AccountProgress

LEMMA AccountTypes == AccountIInv /\ CrossedTyped => AccountTypeOK
BY DEF AccountIInv, AccountTyped, AccountTypeOK, CrossedTyped, Crossings

-----------------------------------------------------------------------------
Tangles == {"overlap", "outdated", "recount", "short", "lost", "foreign", "crossed", "listed"}

TangledTyped == tangled \subseteq Tangles

LEMMA TangledKept == TangledTyped /\ [ThreadNext]_threadVars => TangledTyped'
BY DEF TangledTyped, Tangles, ThreadNext, ThreadProgress, threadVars, RepliesServed, RepliesShown,
       ReplyCreated, handleReplyPosted, ReplyLoaded, ReplyDeleted, ReplyRemoved, RemovalFailed,
       handleShowReplies, TurnPage, SubmitReply, handleRemoveReply, ThreadFault, ForeignDeletion,
       ThreadFocus, ListAsked, ListNextAsked, ListServed, ListShown, CommentLeft, AdriftServed

LEMMA ThreadTypes == ThreadIInv /\ TangledTyped => ThreadTypeOK
<1> SUFFICES ASSUME ThreadIInv, TangledTyped PROVE ThreadTypeOK
  OBVIOUS
<1>1. ThreadTyped /\ view.page \in Pages
  BY DataTyped DEF ThreadIInv, ThreadPlain
<1>2. view.show \in BOOLEAN /\ replies \subseteq Replies /\ replyCount \in Nat
  BY <1>1 DEF ThreadTyped
<1>3. ASSUME NEW p \in Pages
      PROVE  cache[p].comments \subseteq Replies /\ cache[p].total \in Nat \union {-1}
  BY <1>1 DEF ThreadTyped, ReplyPages, Absent
<1>4. /\ listRun.step \in {"none", "asked", "served", "next"} /\ listRun.count \in Nat
      /\ adrift.posts \in Nat /\ adrift.deletions \subseteq Replies
  BY <1>1 DEF ThreadTyped, ListRuns, Afloat
<1> QED BY <1>1, <1>2, <1>3, <1>4 DEF ThreadTypeOK, TangledTyped, Tangles

-----------------------------------------------------------------------------
\* What the search boxes ask for and have got are texts.
SuggestionsTyped ==
  /\ open \in BOOLEAN
  /\ got \in [Suggest -> SUBSET Texts] /\ suggested \in [Suggest -> Texts]
  /\ \A k \in Suggest : asking[k].data \in Texts

LEMMA SuggestionsStart == SearchInit => SuggestionsTyped
<1> SUFFICES ASSUME SearchInit PROVE SuggestionsTyped
  OBVIOUS
<1>1. Blank \in Texts /\ NoRequest.data = Blank
  BY Trimmed DEF NoRequest, Get, Request
<1>2. open \in BOOLEAN /\ got \in [Suggest -> SUBSET Texts] /\ suggested \in [Suggest -> Texts]
  BY <1>1 DEF SearchInit
<1>3. \A k \in Suggest : asking[k].data \in Texts
  BY <1>1 DEF SearchInit, Channels
<1> QED BY <1>2, <1>3 DEF SuggestionsTyped

LEMMA SuggestionsKept ==
  ASSUME SearchIInv, SuggestionsTyped, [SearchNext]_searchVars
  PROVE  SuggestionsTyped'
<1> USE DEF SuggestionsTyped
<1>1. /\ SearchTyped /\ Blank \in Texts /\ NoRequest.data = Blank
      /\ \A k \in Suggest : k # "list" /\ k \in Channels
  BY Trimmed DEF SearchIInv, NoRequest, Get, Request, Suggest, Channels
<1>2. ASSUME NEW isOpen, NEW t \in Texts, SuggestFor(isOpen, t)
      PROVE  \A k \in Suggest : asking'[k].data \in Texts
  <2> SUFFICES ASSUME NEW k \in Suggest PROVE asking'[k].data \in Texts
    OBVIOUS
  <2>1. \A enabled : SuggestRequest(k, t, enabled).queryFn.data = t
    BY DEF SuggestRequest, useUserServiceSuggestUsersByPrefix, usePostServiceSuggestTagsByPrefix,
           userServiceSuggestUsersByPrefix, postServiceSuggestTagsByPrefix, Query, Get, Request
  <2>2. asking'[k] = NoRequest \/ \E enabled : asking'[k] = SuggestRequest(k, t, enabled).queryFn
    BY <1>1, <1>2 DEF SuggestFor
  <2> QED BY <1>1, <2>1, <2>2
<1>3. ASSUME NEW u, Navigate(u) PROVE \A k \in Suggest : asking'[k] = asking[k]
  BY <1>1, <1>3 DEF Navigate, SearchTyped
<1>4. CASE SyncQuery \/ (\E t \in Texts : GoBack(t)) \/ (\E to \in RelationTabs : handleTabChange(to))
  <2>1. UNCHANGED <<open, got, suggested>> /\ \E u : Navigate(u)
    BY <1>4 DEF SyncQuery, GoBack, handleTabChange
  <2>2. \A k \in Suggest : asking'[k] = asking[k]
    BY <1>3, <2>1
  <2> QED BY <2>1, <2>2
<1>5. CASE \/ Debounce \/ handleSearch
           \/ \E nextOpen \in BOOLEAN : handleOpenChange(nextOpen)
  <2>1. text \in Texts /\ debounced \in Texts
    BY <1>1 DEF SearchTyped
  <2>2. UNCHANGED <<got, suggested>> /\ open' \in BOOLEAN
    BY <1>5 DEF Debounce, handleSearch, handleOpenChange
  <2>3. UNCHANGED asking \/ \E isOpen, t \in Texts \union BOOLEAN : t \in Texts /\ SuggestFor(isOpen, t)
    BY <1>5, <2>1 DEF Debounce, handleSearch, handleOpenChange
  <2> QED BY <1>2, <2>2, <2>3
<1>6. CASE \E t \in Texts : Type(t)
  BY <1>6 DEF Type
<1>7. CASE SearchMount
  <2>1. \A k \in Suggest : asking'[k] = asking[k]
    BY <1>1, <1>7 DEF SearchMount, SearchTyped
  <2> QED BY <1>7, <2>1 DEF SearchMount
<1>8. ASSUME NEW c \in Channels, SearchAnswered(c) \/ SearchFails(c)
      PROVE  SuggestionsTyped'
  <2>1. open' = open /\ asking' = [asking EXCEPT ![c] = NoRequest]
    BY <1>8 DEF SearchAnswered, SearchFails
  <2>2. \A k \in Suggest : asking'[k] = asking[k] \/ asking'[k] = NoRequest
    BY <1>1, <2>1 DEF SearchTyped
  <2>3. c = "list" \/ (c \in Suggest /\ asking[c].data \in Texts)
    BY DEF Channels
  <2>4. \/ UNCHANGED <<got, suggested>>
        \/ /\ got' = [got EXCEPT ![c] = @ \union {asking[c].data}] /\ c \in Suggest
           /\ suggested' = [suggested EXCEPT ![c] = asking[c].data]
    BY <1>8, <2>3 DEF SearchAnswered, SearchFails
  <2>5. got' \in [Suggest -> SUBSET Texts] /\ suggested' \in [Suggest -> Texts]
    BY <2>3, <2>4
  <2> QED BY <1>1, <2>1, <2>2, <2>5
<1>9. CASE UNCHANGED searchVars
  BY <1>9 DEF searchVars
<1> QED BY <1>4, <1>5, <1>6, <1>7, <1>8, <1>9 DEF SearchNext, SearchProgress

LEMMA SearchTypes == SearchIInv /\ SuggestionsTyped => SearchTypeOK
<1> SUFFICES ASSUME SearchIInv, SuggestionsTyped PROVE SearchTypeOK
  OBVIOUS
<1>1. SearchTyped /\ url.query \in Texts /\ url.tab \in RelationTabs
  BY DEF SearchIInv, SearchTyped
<1>2. \A k \in Suggest : got[k] \subseteq Texts /\ suggested[k] \in Texts
  BY DEF SuggestionsTyped
<1> QED BY <1>1, <1>2 DEF SearchTyped, SearchTypeOK, SuggestionsTyped

-----------------------------------------------------------------------------
\* The history of the messages is about messages.
SeenTyped == seen \subseteq Messages /\ unseen \subseteq Messages

LEMMA RowsTyped == \A ps \in Seq(InboxPages) : Rows(ps) \subseteq Messages
<1> SUFFICES ASSUME NEW ps \in Seq(InboxPages), NEW i \in DOMAIN ps
             PROVE  ps[i].rows \subseteq Messages
  BY DEF Rows
<1>1. ps[i] \in InboxPages
  OBVIOUS
<1> QED BY <1>1 DEF InboxPages

LEMMA SeenKept ==
  ASSUME InboxIInv, InboxIInv', SeenTyped, [InboxNext]_inboxVars
  PROVE  SeenTyped'
<1>1. /\ sent \subseteq Messages /\ isRead' \subseteq Messages
      /\ Rows(inboxRun.built) \subseteq Messages
  <2>1. InboxTyped /\ isRead' \subseteq sent' /\ sent' \subseteq Messages
    BY DEF InboxIInv, InboxTyped
  <2>2. inboxRun.built \in Seq(InboxPages)
    BY <2>1 DEF InboxTyped, InboxRuns
  <2> QED BY <2>1, <2>2, RowsTyped DEF InboxTyped
<1>2. seen' \subseteq seen \union Rows(inboxRun.built)
  BY DEF InboxNext, InboxProgress, inboxVars, InboxLoadMore, MessagesServed, MessagesShown,
         AllMarked, MarkedAll, MessagesMount, InboxFocus, MessagesFail, handleMarkAllAsRead,
         MarkFails, handleCategoryChange, handleStatusChange, Arrive
<1>3. unseen' \subseteq unseen \union isRead' \union Rows(inboxRun.built) \union sent
  BY DEF InboxNext, InboxProgress, inboxVars, InboxLoadMore, MessagesServed, MessagesShown,
         AllMarked, MarkedAll, MessagesMount, InboxFocus, MessagesFail, handleMarkAllAsRead,
         MarkFails, handleCategoryChange, handleStatusChange, Arrive, ShowView, Abandon
<1> QED BY <1>1, <1>2, <1>3 DEF SeenTyped

LEMMA InboxTypes == InboxIInv /\ SeenTyped => InboxTypeOK
<1> SUFFICES ASSUME InboxIInv, SeenTyped PROVE InboxTypeOK
  OBVIOUS
<1>1. InboxTyped
  BY DEF InboxIInv
<1>2. \A k \in InboxKeys : Rows(inbox[k]) \subseteq Messages
  BY <1>1, RowsTyped DEF InboxTyped
<1>3. inboxRun.kind \in {"none", "all", "next"}
  BY <1>1 DEF InboxTyped, InboxRuns
<1> QED BY <1>1, <1>2, <1>3 DEF InboxTyped, InboxTypeOK, SeenTyped
-----------------------------------------------------------------------------
\* Enough numbers for the comments: every comment posted, on its way or still
\* to be posted has one of its own up to the bound.
SentTurns == {c.turn : c \in {d \in commenting : d.step = "sent"}}

NumbersSuffice ==
  /\ previewBudget.posts <= MaxCommentPosts
  /\ SentTurns \subseteq previewBudget.posts + 1 .. MaxCommentPosts
  /\ \A c, d \in commenting : c.step = "sent" /\ d.step = "sent" /\ c.turn = d.turn => c = d
  /\ previewBudget.next + previewBudget.posts + Cardinality(SentTurns)
       <= OldComments + MaxCommentPosts + 1

LEMMA TurnsFinite ==
  ASSUME PreviewTyped, NumbersSuffice
  PROVE  /\ previewBudget.posts \in Nat /\ previewBudget.next \in Nat
         /\ IsFiniteSet(SentTurns) /\ Cardinality(SentTurns) \in Nat
<1>1. previewBudget.posts \in Nat /\ previewBudget.next \in Nat
  BY DEF PreviewTyped, PreviewBudgets
<1>2. IsFiniteSet(previewBudget.posts + 1 .. MaxCommentPosts)
  <2>1. previewBudget.posts + 1 \in Int /\ MaxCommentPosts \in Int
    BY <1>1, PreviewBounds
  <2> QED BY <2>1, FS_Interval
<1>3. IsFiniteSet(SentTurns)
  BY <1>2, FS_Subset DEF NumbersSuffice
<1> QED BY <1>1, <1>3, FS_CardinalityType

LEMMA NumbersStart == PreviewInit => NumbersSuffice
<1> SUFFICES ASSUME PreviewInit PROVE NumbersSuffice
  OBVIOUS
<1>1. SentTurns = {} /\ Cardinality({}) = 0
  BY FS_EmptySet DEF PreviewInit, SentTurns
<1> QED BY <1>1, PreviewBounds DEF PreviewInit, NumbersSuffice

\* A call that is no longer heard keeps its number.
LEMMA UnheardTurns ==
  ASSUME PreviewTyped
  PROVE  /\ \A c \in Unheard(commenting) :
              \E d \in commenting : /\ d.step = "sent" /\ c = [d EXCEPT !.heard = FALSE]
                                    /\ c.step = "sent" /\ c.turn = d.turn
         /\ \A d \in commenting : d.step = "sent" =>
              \E c \in Unheard(commenting) : c.step = "sent" /\ c.turn = d.turn
<1>1. \A d \in commenting : /\ [d EXCEPT !.heard = FALSE].turn = d.turn
                            /\ [d EXCEPT !.heard = FALSE].step = d.step
  BY DEF PreviewTyped, CommentCalls
<1>2. \A d \in commenting : d.step = "sent" => [d EXCEPT !.heard = FALSE] \in Unheard(commenting)
  BY DEF Unheard
<1>3. \A c \in Unheard(commenting) :
        \E d \in commenting : d.step = "sent" /\ c = [d EXCEPT !.heard = FALSE]
  BY DEF Unheard
<1>4. ASSUME NEW c \in Unheard(commenting)
      PROVE  \E d \in commenting : /\ d.step = "sent" /\ c = [d EXCEPT !.heard = FALSE]
                                   /\ c.step = "sent" /\ c.turn = d.turn
  <2>1. PICK d \in commenting : d.step = "sent" /\ c = [d EXCEPT !.heard = FALSE]
    BY <1>3
  <2>2. c.step = "sent" /\ c.turn = d.turn
    BY <1>1, <2>1
  <2> QED BY <2>1, <2>2
<1>5. ASSUME NEW d \in commenting, d.step = "sent"
      PROVE  \E c \in Unheard(commenting) : c.step = "sent" /\ c.turn = d.turn
  <2>1. [d EXCEPT !.heard = FALSE] \in Unheard(commenting)
    BY <1>2, <1>5
  <2>2. [d EXCEPT !.heard = FALSE].step = "sent" /\ [d EXCEPT !.heard = FALSE].turn = d.turn
    BY <1>1, <1>5
  <2> QED BY <2>1, <2>2
<1> QED BY <1>4, <1>5

LEMMA UnheardApart ==
  ASSUME PreviewTyped, NumbersSuffice,
         NEW c \in Unheard(commenting), NEW d \in Unheard(commenting), c.turn = d.turn
  PROVE  c = d
<1>1. PICK e \in commenting : /\ e.step = "sent" /\ c = [e EXCEPT !.heard = FALSE]
                             /\ c.turn = e.turn
  BY UnheardTurns
<1>2. PICK f \in commenting : /\ f.step = "sent" /\ d = [f EXCEPT !.heard = FALSE]
                             /\ d.turn = f.turn
  BY UnheardTurns
<1>3. e = f
  BY <1>1, <1>2 DEF NumbersSuffice
<1> QED BY <1>1, <1>2, <1>3

\* Calls that end, or are no longer heard, leave their numbers.
LEMMA FewerCalls ==
  ASSUME PreviewTyped, NumbersSuffice,
         commenting' \subseteq commenting \/ commenting' = Unheard(commenting),
         previewBudget'.next = previewBudget.next, previewBudget'.posts = previewBudget.posts
  PROVE  NumbersSuffice'
<1>1. \A c \in commenting' : c.step = "sent" =>
        \E d \in commenting : d.step = "sent" /\ d.turn = c.turn
  BY UnheardTurns
<1>2. SentTurns' \subseteq SentTurns
  BY <1>1 DEF SentTurns
<1>3. Cardinality(SentTurns') <= Cardinality(SentTurns) /\ Cardinality(SentTurns') \in Nat
  BY <1>2, TurnsFinite, FS_Subset, FS_CardinalityType
<1>4. \A c, d \in commenting' : c.step = "sent" /\ d.step = "sent" /\ c.turn = d.turn => c = d
  <2>1. CASE commenting' \subseteq commenting
    BY <2>1 DEF NumbersSuffice
  <2>2. CASE commenting' = Unheard(commenting)
    BY <2>2, UnheardApart
  <2> QED BY <2>1, <2>2
<1>5. /\ Cardinality(SentTurns) \in Nat /\ previewBudget.posts \in Nat
      /\ previewBudget.next \in Nat
  BY TurnsFinite
<1> QED BY <1>2, <1>3, <1>4, <1>5, PreviewBounds DEF NumbersSuffice

LEMMA SubmitNumbers ==
  ASSUME PreviewTyped, NumbersSuffice, SubmitComment
  PROVE  NumbersSuffice'
<1> DEFINE turn == previewBudget.posts
           mine == [turn |-> turn, step |-> "sent", heard |-> TRUE, count |-> commentCount,
                    comment |-> 0]
<1>1. /\ commenting' = Unheard(commenting) \union {mine}
      /\ turn > 0 /\ previewBudget'.posts = turn - 1 /\ previewBudget'.next = previewBudget.next
  <2>1. previewBudget' = [previewBudget EXCEPT !.posts = @ - 1] /\ turn > 0
    BY DEF SubmitComment, PreviewSpend
  <2> QED BY <2>1 DEF SubmitComment, PreviewTyped, PreviewBudgets
<1>2. mine.turn = turn /\ mine.step = "sent"
  OBVIOUS
<1> HIDE DEF mine
<1>3. \A c \in Unheard(commenting) :
        \E d \in commenting : d.step = "sent" /\ d.turn = c.turn /\ c.step = "sent"
  BY UnheardTurns
<1>4. SentTurns' = SentTurns \union {turn}
  <2>1. \A d \in commenting : d.step = "sent" =>
          \E c \in Unheard(commenting) : c.step = "sent" /\ c.turn = d.turn
    BY UnheardTurns
  <2> QED BY <1>1, <1>2, <1>3, <2>1 DEF SentTurns
<1>5. /\ turn \in Nat /\ previewBudget.next \in Nat /\ IsFiniteSet(SentTurns)
      /\ Cardinality(SentTurns) \in Nat
  BY TurnsFinite
<1>6. turn \notin SentTurns /\ \A c \in commenting : c.step = "sent" => c.turn # turn
  BY <1>5, PreviewBounds DEF NumbersSuffice, SentTurns
<1>7. Cardinality(SentTurns') = Cardinality(SentTurns) + 1
  BY <1>4, <1>5, <1>6, FS_AddElement
<1>8. SentTurns' \subseteq previewBudget'.posts + 1 .. MaxCommentPosts
  <2>1. SentTurns \subseteq turn + 1 .. MaxCommentPosts /\ turn <= MaxCommentPosts
    BY DEF NumbersSuffice
  <2>2. \A n \in turn + 1 .. MaxCommentPosts : n \in turn .. MaxCommentPosts
    BY <1>5, PreviewBounds
  <2>3. turn \in turn .. MaxCommentPosts /\ previewBudget'.posts + 1 = turn
    BY <1>1, <1>5, <2>1, PreviewBounds
  <2> HIDE DEF turn
  <2> QED BY <1>4, <2>1, <2>2, <2>3
<1>9. \A c, d \in commenting' : c.step = "sent" /\ d.step = "sent" /\ c.turn = d.turn => c = d
  <2>1. \A c, d \in Unheard(commenting) : c.turn = d.turn => c = d
    BY UnheardApart
  <2>2. \A c \in Unheard(commenting) : c.turn # turn
    BY <1>3, <1>6
  <2> QED BY <1>1, <1>2, <2>1, <2>2
<1> QED BY <1>1, <1>5, <1>7, <1>8, <1>9, PreviewBounds DEF NumbersSuffice

LEMMA CreatedNumbers ==
  ASSUME PreviewTyped, NumbersSuffice, NEW c \in commenting, CommentCreated(c)
  PROVE  NumbersSuffice'
<1>1. /\ c.step = "sent" /\ previewBudget'.next = previewBudget.next + 1
      /\ previewBudget'.posts = previewBudget.posts
  BY DEF CommentCreated, PreviewTyped, PreviewBudgets
<1>2. \A d \in commenting' : d.step = "sent" => d \in commenting /\ d # c
  <2>1. \A new : [c EXCEPT !.step = "created", !.comment = new].step = "created"
    BY DEF PreviewTyped, CommentCalls
  <2> QED BY <2>1 DEF CommentCreated
<1>3. c.turn \in SentTurns /\ SentTurns' \subseteq SentTurns \ {c.turn}
  BY <1>1, <1>2 DEF SentTurns, NumbersSuffice
<1>4. /\ previewBudget.posts \in Nat /\ previewBudget.next \in Nat /\ IsFiniteSet(SentTurns)
      /\ Cardinality(SentTurns) \in Nat
  BY TurnsFinite
<1>5. /\ Cardinality(SentTurns \ {c.turn}) = Cardinality(SentTurns) - 1
      /\ IsFiniteSet(SentTurns \ {c.turn})
  BY <1>3, <1>4, FS_RemoveElement
<1>6. Cardinality(SentTurns') <= Cardinality(SentTurns) - 1 /\ Cardinality(SentTurns') \in Nat
  BY <1>3, <1>5, FS_Subset, FS_CardinalityType
<1>7. \A d, e \in commenting' : d.step = "sent" /\ e.step = "sent" /\ d.turn = e.turn => d = e
  BY <1>2 DEF NumbersSuffice
<1>8. SentTurns' \subseteq previewBudget'.posts + 1 .. MaxCommentPosts
  BY <1>1, <1>3 DEF NumbersSuffice
<1> QED BY <1>1, <1>4, <1>6, <1>7, <1>8, PreviewBounds DEF NumbersSuffice

LEMMA NumbersKept ==
  ASSUME PreviewIInv, NumbersSuffice, [PreviewNext]_previewVars
  PROVE  NumbersSuffice'
<1>1. PreviewTyped
  BY DEF PreviewIInv
<1>2. CASE SubmitComment \/ \E c \in commenting : CommentCreated(c)
  BY <1>1, <1>2, SubmitNumbers, CreatedNumbers
<1>3. CASE ~SubmitComment /\ ~\E c \in commenting : CommentCreated(c)
  <2>1. commenting' \subseteq commenting \/ commenting' = Unheard(commenting)
    BY <1>3 DEF PreviewNext, PreviewProgress, previewVars, PreviewServed, PreviewShown,
                handleCommentPosted, CommentFetched, CommentShown, CommentRemoved,
                handleRemoveComment, handleCommentClick, PreviewFocus, RemoveComment, PreviewFault,
                CommentGone, CardScrolledAway, Unmounted, FeedAsked, FeedNextAsked, FeedServed, FeedShown
  <2>2. \/ previewBudget' = previewBudget
        \/ \E what \in {"clicks", "removals", "faults"} : PreviewSpend(what)
    BY <1>3 DEF PreviewNext, PreviewProgress, previewVars, PreviewServed, PreviewShown,
                handleCommentPosted, CommentFetched, CommentShown, CommentRemoved,
                handleRemoveComment, handleCommentClick, PreviewFocus, RemoveComment, PreviewFault,
                CommentGone, CardScrolledAway, Unmounted, FeedAsked, FeedNextAsked, FeedServed, FeedShown
  <2>3. previewBudget'.next = previewBudget.next /\ previewBudget'.posts = previewBudget.posts
    BY <1>1, <2>2 DEF PreviewSpend, PreviewTyped, PreviewBudgets
  <2> QED BY <1>1, <2>1, <2>3, FewerCalls
<1> QED BY <1>2, <1>3

LEMMA PreviewTypes == PreviewIInv /\ NumbersSuffice => PreviewTypeOK
<1> SUFFICES ASSUME PreviewIInv, NumbersSuffice PROVE PreviewTypeOK
  OBVIOUS
<1>1. PreviewTyped
  BY DEF PreviewIInv
<1>2. previewBudget.next - 1 <= OldComments + MaxCommentPosts
  BY <1>1, TurnsFinite, PreviewBounds DEF NumbersSuffice
<1>3. postComments \subseteq 1 .. OldComments + MaxCommentPosts
  BY <1>1, <1>2, TurnsFinite, PreviewBounds DEF PreviewTyped
<1>4. /\ previewRun.step \in {"none", "asked", "served"}
      /\ \A c \in commenting : c.step \in {"sent", "created"} /\ c.count \in Nat
      /\ \A l \in fetching : l.step \in {"asked", "served"}
      /\ \A c \in removing : c.step \in {"sent", "deleted"}
      /\ feedRun.step \in {"none", "asked", "served", "next"} /\ feedRun.count \in Nat
  BY <1>1 DEF PreviewTyped, PreviewRuns, CommentCalls, Loads, Removals, CountRuns
<1> QED BY <1>1, <1>3, <1>4 DEF PreviewTyped, PreviewTypeOK
-----------------------------------------------------------------------------
PartTypeOK == part \in Parts \union {"none"}

LEMMA PartTypes == ClientSpec => []PartTypeOK
<1>1. ClientInit => PartTypeOK
  BY DEF ClientInit, PartTypeOK
<1>2. PartTypeOK /\ [ClientNext]_clientVars => PartTypeOK'
  <2> SUFFICES ASSUME PartTypeOK, [ClientNext]_clientVars PROVE PartTypeOK'
    OBVIOUS
  <2>1. \A route \in DOMAIN Page : Page[route] \union Around(route) \subseteq Parts
    BY DEF Page, Around, Parts, List, PostDetail
  <2>2. CASE Open
    BY <2>1, <2>2 DEF Open, PartTypeOK
  <2>3. CASE ~Open
    <3>1. part' = part
      BY <2>3 DEF ClientNext, clientVars, Alone
    <3> QED BY <3>1 DEF PartTypeOK
  <2> QED BY <2>2, <2>3
<1> QED BY <1>1, <1>2, PTL DEF ClientSpec

\* Every variable of every part of the client holds a value of its type, for
\* any bounds.
THEOREM WebTypeCorrect == ClientSpec => []WebTypeOK
<1>1. ClientSpec => []SessionTypeOK
  BY SessionInvariant, SessionTypes, PTL
<1>2. ClientSpec => []FeedTypeOK
  BY PartsImplemented, FeedInitIInv, FeedNextKeeps, FeedTypes, PTL
<1>3. ClientSpec => []PostTypeOK
  BY PartsImplemented, PostInitIInv, PostNextKeeps, PostTypes, PTL
<1>4. ClientSpec => []ThreadTypeOK
  <2>1. ThreadInit => TangledTyped
    BY DEF ThreadInit, TangledTyped
  <2> QED BY <2>1, PartsImplemented, ThreadInitIInv, ThreadNextKeeps, TangledKept, ThreadTypes, PTL
<1>5. ClientSpec => []ThumbTypeOK
  <2>1. ThumbInit => InStep(likes)
    BY DEF ThumbInit, InStep, Number, Others
  <2>2. ThumbIInv /\ InStep(likes) /\ [ThumbNext]_thumbVars => InStep(likes)'
    BY LikesInStep DEF InStep
  <2> QED BY <2>1, <2>2, PartsImplemented, ThumbInitIInv, ThumbNextKeeps, ThumbTypes, PTL
<1>6. ClientSpec => []PreviewTypeOK
  <2>1. PreviewIInv /\ NumbersSuffice /\ [PreviewNext]_previewVars => NumbersSuffice'
    BY NumbersKept
  <2> QED BY <2>1, PartsImplemented, PreviewInitIInv, PreviewNextKeeps, NumbersStart, PreviewTypes,
             PTL
<1>7. ClientSpec => []ComposeTypeOK
  BY PartsImplemented, ComposeInitIInv, ComposeNextKeeps, ComposeTypes, PTL
<1>8. ClientSpec => []AccountTypeOK
  <2>1. AccountInit => CrossedTyped
    BY DEF AccountInit, CrossedTyped
  <2> QED BY <2>1, PartsImplemented, AccountInitIInv, AccountNextKeeps, CrossedKept, AccountTypes,
             PTL
<1>9. ClientSpec => []InboxTypeOK
  <2>1. InboxInit => SeenTyped
    BY DEF InboxInit, SeenTyped
  <2>2. InboxIInv /\ InboxIInv' /\ SeenTyped /\ [InboxNext]_inboxVars => SeenTyped'
    BY SeenKept
  <2> QED BY <2>1, <2>2, PartsImplemented, InboxInitIInv, InboxNextKeeps, InboxTypes, PTL
<1>10. ClientSpec => []SearchTypeOK
  <2>1. SearchIInv /\ SuggestionsTyped /\ [SearchNext]_searchVars => SuggestionsTyped'
    BY SuggestionsKept
  <2> QED BY <2>1, PartsImplemented, SearchInitIInv, SearchNextKeeps, SuggestionsStart, SearchTypes,
             PTL
<1>11. ClientSpec => []ThemeTypeOK
  BY PartsImplemented, ThemeInitIInv, ThemeNextKeeps, ThemeTypes, PTL
<1> QED BY <1>1, <1>2, <1>3, <1>4, <1>5, <1>6, <1>7, <1>8, <1>9, <1>10, <1>11, PartTypes, PTL
        DEF WebTypeOK, PartTypeOK
=============================================================================
