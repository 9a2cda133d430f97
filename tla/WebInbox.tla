------------------------------- MODULE WebInbox -------------------------------
(***************************************************************************)
(* The page of messages (pages/messages.tsx): its category and status are   *)
(* in the URL, each combination is a query of its own, and the server marks *)
(* messages as read when it lists them (message_service.go; its two steps,  *)
(* the workers and deletions are in Inbox.tla).                             *)
(*                                                                         *)
(* Messages are numbered in the order of their creation.  The query passes  *)
(* its signal on, so that a change of the key cancels the run: the request  *)
(* that is under way may still be executed.                                 *)
(***************************************************************************)
EXTENDS WebApi, WebQuery, FiniteSets, FiniteSetsExt

CONSTANTS
  Messages,        \* 1 .. n
  FollowMessages,  \* those of the category "follow"; the others are comments'
  LaterMessages,   \* those that arrive later
  MessageSecond,   \* MessageSecond[m]: the second in which m was created
  MessagesPerPage, \* LIMIT of a list (20)
  MaxViews,        \* bound: changes of the category or the status, refetches
  MaxMarks,        \* bound: clicks on "Mark all as read"
  MaxInboxFaults   \* bound: requests that fail

ASSUME InboxAssumption ==
  /\ IsFiniteSet(Messages) /\ Messages \subseteq Nat \ {0} /\ LaterMessages \subseteq Messages
  /\ MessagesPerPage \in Nat \ {0}
  /\ MessageSecond \in [Messages -> Nat \ {0}]
  /\ \A m, n \in Messages : m < n => MessageSecond[m] <= MessageSecond[n]
  /\ {MaxViews, MaxMarks, MaxInboxFaults} \subseteq Nat

Categories == {"follow", "comment"}
Statuses   == {"unread", "all"}
InboxKeys  == Categories \X Statuses

VARIABLES
  inboxView, \* <<category, status>>; "none" before the page is opened
  sent,      \* the server's messages
  isRead,    \* those marked as read
  inbox,     \* inbox[k]: the data of a query
  inboxRun,  \* the run of the query that is looked at
  marking,   \* the call of handleMarkAllAsRead and the category of its render
  seen,      \* history: messages that have been on the screen
  unseen,    \* history: messages of answers that were dropped, and of mark-all
  inboxBudget

inboxVars == <<inboxView, sent, isRead, inbox, inboxRun, marking, seen, unseen, inboxBudget>>

NoView == <<"none", "none">>
NoMark == [step |-> "none", category |-> "none"]

InboxInit ==
  /\ inboxView = NoView
  /\ sent = Messages \ LaterMessages
  /\ isRead = {}
  /\ inbox = [k \in InboxKeys |-> <<>>]
  /\ inboxRun = NoRun
  /\ marking = NoMark
  /\ seen = {} /\ unseen = {}
  /\ inboxBudget = [views |-> MaxViews, marks |-> MaxMarks, faults |-> MaxInboxFaults]

InboxSpend(what) ==
  inboxBudget[what] > 0 /\ inboxBudget' = [inboxBudget EXCEPT ![what] = @ - 1]

-----------------------------------------------------------------------------
\* A page of a list: readFilter is UNREAD for the status "unread".
ListRequest(view, token) ==
  LET params == [filter |-> view[2], token |-> token]
  IN  IF view[1] = "follow" THEN messageServiceListFollowInboxMessages(params)
      ELSE messageServiceListCommentInboxMessages(params)

\* Plausible bug: everything unread of the category is marked.
ListedMarksAll(request) ==
  LET mine == sent \intersect
        (IF request.path = messageServiceListFollowInboxMessages(Nothing).path
         THEN FollowMessages ELSE Messages \ FollowMessages)
      older == {m \in mine : /\ request.data.token = NoToken \/ MessageSecond[m] < request.data.token
                             /\ request.data.filter = "unread" => m \notin isRead}
      rows == {m \in older : Cardinality({n \in older : n > m}) < MessagesPerPage}
  IN  [page |-> [rows |-> rows,
                 token |-> IF rows = {} THEN NoToken ELSE MessageSecond[Min(rows)]],
       isRead |-> isRead \union mine]

\* Plausible bug: the second before the cursor's is skipped, too.
ListedSkipping(request) ==
  LET mine == sent \intersect
        (IF request.path = messageServiceListFollowInboxMessages(Nothing).path
         THEN FollowMessages ELSE Messages \ FollowMessages)
      older == {m \in mine : /\ request.data.token = NoToken \/ MessageSecond[m] < request.data.token - 1
                             /\ request.data.filter = "unread" => m \notin isRead}
      rows == {m \in older : Cardinality({n \in older : n > m}) < MessagesPerPage}
  IN  [page |-> [rows |-> rows,
                 token |-> IF rows = {} THEN NoToken ELSE MessageSecond[Min(rows)]],
       isRead |-> isRead \union rows]

\* The server's answer to a list, and what is marked as read after it.  The
\* token keeps only the second of the last row (message_service.go:146).
Listed(request) ==
  LET mine == sent \intersect
        (IF request.path = messageServiceListFollowInboxMessages(Nothing).path
         THEN FollowMessages ELSE Messages \ FollowMessages)
      older == {m \in mine : /\ request.data.token = NoToken \/ MessageSecond[m] < request.data.token
                             /\ request.data.filter = "unread" => m \notin isRead}
      rows == {m \in older : Cardinality({n \in older : n > m}) < MessagesPerPage}
  IN  [page |-> [rows |-> rows,
                 token |-> IF rows = {} THEN NoToken ELSE MessageSecond[Min(rows)]],
       isRead |-> isRead \union rows]

Rows(ps) == UNION {ps[i].rows : i \in DOMAIN ps}

\* A run of a view is given up; a request under way may be executed without
\* an answer.
Abandon(view, run) ==
  /\ isRead' \in {isRead} \union
       (IF run.kind = "none" \/ RunFinished(run) THEN {}
        ELSE {Listed(ListRequest(view, LastToken(run.built))).isRead})
  /\ unseen' = unseen \union (isRead' \ isRead) \union Rows(run.built)

-----------------------------------------------------------------------------
\* Another key: its cached data is shown and asked for again.
ShowView(view) ==
  /\ inboxView' = view
  /\ Abandon(inboxView, inboxRun)
  /\ inboxRun' = AllRun(Max({1, Len(inbox[view])}))

MessagesMount ==
  /\ inboxView = NoView
  /\ ShowView(<<"follow", "unread">>)
  /\ UNCHANGED <<sent, inbox, marking, seen, inboxBudget>>

handleCategoryChange(category) ==
  /\ inboxView # NoView /\ <<category, "unread">> # inboxView
  /\ ShowView(<<category, "unread">>)
  /\ InboxSpend("views")
  /\ UNCHANGED <<sent, inbox, marking, seen>>

handleStatusChange(status) ==
  /\ inboxView # NoView /\ status # inboxView[2]
  /\ ShowView(<<inboxView[1], status>>)
  /\ InboxSpend("views")
  /\ UNCHANGED <<sent, inbox, marking, seen>>

InboxFocus ==
  /\ inboxView # NoView /\ inboxRun = NoRun /\ inbox[inboxView] # <<>>
  /\ inboxRun' = AllRun(Len(inbox[inboxView]))
  /\ InboxSpend("views")
  /\ UNCHANGED <<inboxView, sent, isRead, inbox, marking, seen, unseen>>

InboxLoadMore ==
  /\ inboxView # NoView
  /\ HasNext(inbox[inboxView]) /\ Rows(inbox[inboxView]) # {} /\ inboxRun.kind # "next"
  /\ Abandon(inboxView, inboxRun)
  /\ inboxRun' = NextRun(inbox[inboxView])
  /\ UNCHANGED <<inboxView, sent, inbox, marking, seen, inboxBudget>>

MessagesServed ==
  /\ inboxRun.kind # "none" /\ ~RunFinished(inboxRun)
  /\ LET listed == Listed(ListRequest(inboxView, LastToken(inboxRun.built)))
     IN  /\ inboxRun' = [inboxRun EXCEPT !.built = Append(@, listed.page)]
         /\ isRead' = listed.isRead
  /\ UNCHANGED <<inboxView, sent, inbox, marking, seen, unseen, inboxBudget>>

MessagesShown ==
  /\ inboxRun.kind # "none" /\ RunFinished(inboxRun)
  /\ inbox' = [inbox EXCEPT ![inboxView] = inboxRun.built]
  /\ seen' = seen \union Rows(inboxRun.built)
  /\ inboxRun' = NoRun
  /\ UNCHANGED <<inboxView, sent, isRead, marking, unseen, inboxBudget>>

MessagesFail ==
  /\ inboxRun.kind # "none"
  /\ Abandon(inboxView, inboxRun)
  /\ inboxRun' = NoRun
  /\ InboxSpend("faults")
  /\ UNCHANGED <<inboxView, sent, inbox, marking, seen>>

Arrive(m) ==
  /\ inboxView # NoView /\ m \in LaterMessages \ sent
  /\ sent' = sent \union {m}
  /\ UNCHANGED <<inboxView, isRead, inbox, inboxRun, marking, seen, unseen, inboxBudget>>

-----------------------------------------------------------------------------
handleMarkAllAsRead ==
  /\ inboxView # NoView /\ marking.step = "none"
  /\ marking' = [NoMark EXCEPT !.step = messageServiceMarkAllInboxMessagesRead.method,
                               !.category = inboxView[1]]
  /\ InboxSpend("marks")
  /\ UNCHANGED <<inboxView, sent, isRead, inbox, inboxRun, seen, unseen>>

AllMarked ==
  /\ marking.step = messageServiceMarkAllInboxMessagesRead.method
  /\ isRead' = sent
  /\ unseen' = unseen \union (sent \ isRead)
  /\ marking' = [marking EXCEPT !.step = "marked"]
  /\ UNCHANGED <<inboxView, sent, inbox, inboxRun, seen, inboxBudget>>

MarkFails ==
  /\ marking.step # "none"
  /\ marking' = NoMark
  /\ InboxSpend("faults")
  /\ UNCHANGED <<inboxView, sent, isRead, inbox, inboxRun, seen, unseen>>

\* onSuccess: the status of the URL becomes "all", next to the category the
\* click saw, and the list is read again.  A first load under way is not
\* repeated but waited for.
MarkedAll ==
  /\ marking.step = "marked"
  /\ LET view == <<marking.category, "all">>
     IN  IF view = inboxView /\ inbox[view] = <<>> /\ inboxRun.kind # "none"
         THEN UNCHANGED <<inboxView, inboxRun, isRead, unseen>>
         ELSE ShowView(view)
  /\ marking' = NoMark
  /\ UNCHANGED <<sent, inbox, seen, inboxBudget>>

-----------------------------------------------------------------------------
InboxProgress ==
  InboxLoadMore \/ MessagesServed \/ MessagesShown \/ AllMarked \/ MarkedAll

InboxNext ==
  \/ InboxProgress
  \/ MessagesMount \/ InboxFocus \/ MessagesFail \/ handleMarkAllAsRead \/ MarkFails
  \/ \E category \in Categories : handleCategoryChange(category)
  \/ \E status \in Statuses : handleStatusChange(status)
  \/ \E m \in LaterMessages : Arrive(m)

-----------------------------------------------------------------------------
\* Every variable holds a value of its type.
InboxTypeOK ==
  /\ inboxView \in InboxKeys \union {NoView}
  /\ {sent, isRead, seen, unseen} \subseteq SUBSET Messages
  /\ \A k \in InboxKeys : Rows(inbox[k]) \subseteq Messages
  /\ inboxRun.kind \in {"none", "all", "next"}

\* A list whose messages are gone asks for nothing more.
InboxAtRest ==
  /\ inboxRun.kind = "none" /\ marking.step = "none"
  /\ inboxView # NoView /\ HasNext(inbox[inboxView]) => Rows(inbox[inboxView]) = {}

\* A message that is marked as read has been on the screen, is about to be,
\* or was marked by "Mark all as read", unless its answer was dropped: the
\* server marks what it lists before the answer is read.
ReadWasShown == isRead \subseteq seen \union Rows(inboxRun.built) \union unseen

\* A list that has been scrolled to its end leaves no older message of its
\* category unread, although each page of the list of unread messages takes
\* its rows out of that list; but for messages of the second of a page's last
\* row, which the token skips.
NothingLeftUnread ==
  InboxAtRest /\ inboxView # NoView /\ inbox[inboxView] # <<>> =>
    \A m \in sent \ LaterMessages :
      (m \in FollowMessages) = (inboxView[1] = "follow") =>
        \/ m \in isRead
        \/ \E i \in DOMAIN inbox[inboxView] : inbox[inboxView][i].token = MessageSecond[m]

\* Marks and screen agree: what is marked was shown, what was listed is marked.
MarksAreAccounted == ReadWasShown /\ NothingLeftUnread
=============================================================================
