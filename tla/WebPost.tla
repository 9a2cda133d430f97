------------------------------- MODULE WebPost -------------------------------
(***************************************************************************)
(* The toggles of a post in the web client: like, collect and follow on its *)
(* card (post-card.tsx) in a list and in the detail view over that list,    *)
(* and follow on the author's profile (pages/profile.tsx).                  *)
(*                                                                         *)
(* Every place shows what its own query holds.  A card shows the outcome    *)
(* before it is known and takes it back on an error; the profile waits for  *)
(* the answer.  A toggle is one cell <<place, kind>>; the page of a profile *)
(* has all of them at once.                                                 *)
(***************************************************************************)
EXTENDS WebApi, FiniteSets

CONSTANTS
  thePost, theAuthor,
  MaxClicks,     \* bound: clicks on the toggles
  MaxReads,      \* bound: refetches by focus, openings of the detail view
  MaxPostFaults, \* bound: calls that fail or whose answer is lost, reads
                 \* that fail, and cards that leave the screen
  MaxElsewhere   \* bound: toggles on another device

ASSUME PostBounds == {MaxClicks, MaxReads, MaxPostFaults, MaxElsewhere} \subseteq Nat

Kinds   == {"like", "collect", "follow"}
Places  == {"list", "detail", "profile"}
Profile == <<"profile", "follow">>
Cells   == ({"list", "detail"} \X Kinds) \union {Profile}
CellsOf(place) == {c \in Cells : c[1] = place}

VARIABLES
  server,   \* server[k]: is the viewer's edge there, and the counter
  cell,     \* cell[c]: what the query behind the cell says of it
  call,     \* call[c]: the request of the cell's mutation
  stray,    \* requests whose component is gone
  reading,  \* reading[p]: the refetch of the query behind place p
  detailOpen,
  odd,      \* history: cells that something has come across
  postBudget

postVars == <<server, cell, call, stray, reading, detailOpen, odd, postBudget>>

NoValue == [on |-> FALSE, count |-> 0]
NoCall  == [step |-> "none", request |-> [kind |-> "none", action |-> ADD], before |-> NoValue]
NoRead  == [step |-> "none", value |-> [k \in Kinds |-> NoValue]]
Start   == [k \in Kinds |-> [on |-> k = "collect", count |-> 1]]

\* The profile page is loaded, the detail view still cached from an earlier
\* visit; the viewer has collected the post.
PostInit ==
  /\ server = Start
  /\ cell = [c \in Cells |-> Start[c[2]]]
  /\ call = [c \in Cells |-> NoCall]
  /\ stray = {}
  /\ reading = [p \in Places |-> NoRead]
  /\ detailOpen = FALSE
  /\ odd = {}
  /\ postBudget = [clicks |-> MaxClicks, reads |-> MaxReads, faults |-> MaxPostFaults,
                   elsewhere |-> MaxElsewhere]

Mounted(c) == c[1] # "detail" \/ detailOpen
Spend(what) == postBudget[what] > 0 /\ postBudget' = [postBudget EXCEPT ![what] = @ - 1]

-----------------------------------------------------------------------------
\* The client.

RequestOf(kind, data) ==
  CASE kind = "like"    -> postServiceLikePost(thePost, data)
    [] kind = "collect" -> postServiceCollectPost(thePost, data)
    [] kind = "follow"  -> followServiceFollow(theAuthor, data)

\* mutate, unless the mutation is pending; isLiking, isCollecting and
\* isFollowPending belong to the component.
Mutate(c) ==
  /\ Mounted(c) /\ call[c].step = "none"
  /\ call' = [call EXCEPT ![c] =
       [step |-> "sent", before |-> cell[c],
        request |-> [kind |-> c[2],
                     action |-> RequestOf(c[2], ToggleActionRequest(cell[c].on)).data.action]]]
  /\ Spend("clicks")
  /\ UNCHANGED <<server, stray, reading, detailOpen, odd>>

handleLike(place) ==
  LET c == <<place, "like">>
  IN  Mutate(c) /\ cell' = [cell EXCEPT ![c] = Turned(@)]

handleCollect(place) ==
  LET c == <<place, "collect">>
  IN  Mutate(c) /\ cell' = [cell EXCEPT ![c] = Turned(@)]

\* A post shows of its author whether the viewer follows, not how many do.
handleFollow(place) ==
  LET c == <<place, "follow">>
  IN  Mutate(c) /\ cell' = [cell EXCEPT ![c].on = ~@]

handleProfileFollow == Mutate(Profile) /\ UNCHANGED cell

\* Plausible bug: nothing is taken back.
ErrorOnlyToasts(c) ==
  /\ call[c].step = "error"
  /\ call' = [call EXCEPT ![c] = NoCall]
  /\ UNCHANGED <<server, cell, stray, reading, detailOpen, odd, postBudget>>

\* onError of a card shows the value of the click's closure again; the
\* profile has nothing to take back.
OnError(c) ==
  /\ call[c].step = "error"
  /\ cell' = IF c = Profile THEN cell ELSE [cell EXCEPT ![c] = call[c].before]
  /\ call' = [call EXCEPT ![c] = NoCall]
  /\ UNCHANGED <<server, stray, reading, detailOpen, odd, postBudget>>

\* onSuccess: the profile shows the value of its closure turned over; a
\* follow on a card invalidates the author's query, which asks again.
OnSuccess(c) ==
  /\ call[c].step = "ok"
  /\ cell' = IF c = Profile THEN [cell EXCEPT ![c] = Turned(call[c].before)] ELSE cell
  /\ reading' = IF c[2] = "follow" /\ c # Profile
                THEN [reading EXCEPT !["profile"] = [NoRead EXCEPT !.step = "asked"]]
                ELSE reading
  /\ call' = [call EXCEPT ![c] = NoCall]
  /\ UNCHANGED <<server, stray, detailOpen, odd, postBudget>>

\* The detail view is opened over the list: what is cached is shown, and
\* asked for again.
OpenDetail ==
  /\ ~detailOpen
  /\ detailOpen' = TRUE
  /\ reading' = [reading EXCEPT !["detail"] = [NoRead EXCEPT !.step = "asked"]]
  /\ Spend("reads")
  /\ UNCHANGED <<server, cell, call, stray, odd>>

\* A place's card leaves the screen, by closing the view or by scrolling the
\* list: its requests go on, its callbacks are not called any more.
Unmount(place) ==
  /\ place = "list" \/ (place = "detail" /\ detailOpen)
  /\ detailOpen' = (detailOpen /\ place # "detail")
  /\ LET gone == {c \in CellsOf(place) : call[c].step # "none"}
     IN  /\ call' = [c \in Cells |-> IF c \in gone THEN NoCall ELSE call[c]]
         /\ stray' = stray \union {call[c].request : c \in {c \in gone : call[c].step = "sent"}}
         /\ odd' = odd \union {c \in Cells : \E g \in gone : g[2] = c[2]}
  /\ reading' = IF place = "detail" THEN [reading EXCEPT !["detail"] = NoRead] ELSE reading
  /\ Spend("faults")
  /\ UNCHANGED <<server, cell>>

\* The window gains the focus.
PlaceRefetch(place) ==
  /\ place # "detail" \/ detailOpen
  /\ reading[place].step = "none"
  /\ reading' = [reading EXCEPT ![place] = [NoRead EXCEPT !.step = "asked"]]
  /\ Spend("reads")
  /\ UNCHANGED <<server, cell, call, stray, detailOpen, odd>>

\* The answer replaces what the query held, a click's outcome included.
ReadSettled(place) ==
  /\ reading[place].step = "served"
  /\ cell' = [c \in Cells |-> IF c[1] = place THEN reading[place].value[c[2]] ELSE cell[c]]
  /\ odd' = (odd \ CellsOf(place)) \union
       {c \in CellsOf(place) : call[c].step # "none" \/ reading[place].value[c[2]] # server[c[2]]}
  /\ reading' = [reading EXCEPT ![place] = NoRead]
  /\ UNCHANGED <<server, call, stray, detailOpen, postBudget>>

ReadFails(place) ==
  /\ reading[place].step # "none"
  /\ reading' = [reading EXCEPT ![place] = NoRead]
  /\ odd' = odd \union CellsOf(place)
  /\ Spend("faults")
  /\ UNCHANGED <<server, cell, call, stray, detailOpen>>

-----------------------------------------------------------------------------
\* The server.

Execute(request) ==
  server' = [server EXCEPT ![request.kind] = Toggled(@, request.action)]

\* Cells that an edge changed behind their back; the profile is told of a
\* follow that its own page has heard of.
Overtakes(c, heard) ==
  {d \in Cells : d[2] = c[2] /\ d # c /\ ~(heard /\ d = Profile)}

CallServed(c) ==
  /\ call[c].step = "sent"
  /\ Execute(call[c].request)
  /\ call' = [call EXCEPT ![c].step = "ok"]
  /\ odd' = odd \union Overtakes(c, TRUE)
  /\ UNCHANGED <<cell, stray, reading, detailOpen, postBudget>>

\* The call fails before or after the server has executed it.
CallFails(c) ==
  /\ call[c].step = "sent"
  /\ call' = [call EXCEPT ![c].step = "error"]
  /\ \/ UNCHANGED <<server, odd>>
     \/ Execute(call[c].request) /\ odd' = odd \union {c} \union Overtakes(c, FALSE)
  /\ Spend("faults")
  /\ UNCHANGED <<cell, stray, reading, detailOpen>>

StrayServed(request) ==
  /\ request \in stray
  /\ stray' = stray \ {request}
  /\ Execute(request)
  /\ odd' = odd \union {c \in Cells : c[2] = request.kind}
  /\ UNCHANGED <<cell, call, reading, detailOpen, postBudget>>

Elsewhere(k) ==
  /\ server' = [server EXCEPT ![k] = Turned(@)]
  /\ odd' = odd \union {c \in Cells : c[2] = k}
  /\ Spend("elsewhere")
  /\ UNCHANGED <<cell, call, stray, reading, detailOpen>>

\* What a place asks for: the first page of its list, the post, the author.
ReadRequest(place) ==
  CASE place = "list"    -> postServiceListPosts(Nothing)
    [] place = "detail"  -> usePostServiceGetPost(thePost).queryFn
    [] place = "profile" -> useUserServiceGetUser(theAuthor).queryFn

\* The answer about a post says of its author whether the viewer follows; the
\* one about a user says nothing of posts.
Answer(request) ==
  [k \in Kinds |-> IF request.path = userServiceGetUser(theAuthor).path /\ k # "follow"
                   THEN NoValue ELSE server[k]]

ReadServed(place) ==
  /\ reading[place].step = "asked"
  /\ reading' = [reading EXCEPT ![place] =
       [step |-> "served", value |-> Answer(ReadRequest(place))]]
  /\ UNCHANGED <<server, cell, call, stray, detailOpen, odd, postBudget>>

-----------------------------------------------------------------------------
PostProgress ==
  \/ \E c \in Cells : CallServed(c) \/ OnSuccess(c) \/ OnError(c)
  \/ \E request \in stray : StrayServed(request)
  \/ \E p \in Places : ReadServed(p) \/ ReadSettled(p)

PostNext ==
  \/ PostProgress
  \/ \E p \in {"list", "detail"} :
       handleLike(p) \/ handleCollect(p) \/ handleFollow(p) \/ Unmount(p)
  \/ handleProfileFollow
  \/ OpenDetail
  \/ \E c \in Cells : CallFails(c)
  \/ \E p \in Places : PlaceRefetch(p) \/ ReadFails(p)
  \/ \E k \in Kinds : Elsewhere(k)

-----------------------------------------------------------------------------
Values == [on : BOOLEAN, count : Nat]

\* Every variable holds a value of its type.
PostTypeOK ==
  /\ server \in [Kinds -> Values]
  /\ \A c \in Cells :
       /\ cell[c] \in Values /\ call[c].before \in Values
       /\ call[c].step \in {"none", "sent", "ok", "error"}
  /\ \A p \in Places : reading[p].step \in {"none", "asked", "served"}
  /\ odd \subseteq Cells

PostAtRest ==
  /\ \A c \in Cells : call[c].step = "none"
  /\ stray = {} /\ \A p \in Places : reading[p].step = "none"

\* A post's card shows no count of its author's followers.
HasCount(c) == c[2] # "follow" \/ c = Profile
SameAs(c, value) == cell[c].on = value.on /\ (HasCount(c) => cell[c].count = value.count)

\* When all is answered, a place shows what the server has, counter included,
\* whatever failed on the way: unless the same edge was changed from another
\* place or device, its call was left behind by its component or executed
\* without an answer, or an answer to a refetch came across.  A follow on a
\* card reaches the profile.
PlacesAgreeAtRest ==
  PostAtRest => \A c \in Cells \ odd : Mounted(c) => SameAs(c, server[c[2]])
=============================================================================
