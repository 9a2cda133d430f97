------------------------------- MODULE WebSearch -------------------------------
(***************************************************************************)
(* The two search boxes that wait 200 ms after the last change of their     *)
(* text: over the list of relations (relation-search-card.tsx,              *)
(* pages/relation.tsx), where the text is kept in the URL, and the dialog   *)
(* that suggests users and tags (search-form.tsx).                          *)
(*                                                                         *)
(* A text is a word, 0 for none, with or without spaces around it.  A key   *)
(* of a query that changes cancels its run; keepPreviousData shows the      *)
(* suggestions of the last text until those of the new one are there.       *)
(***************************************************************************)
EXTENDS WebApi, FiniteSets

CONSTANTS
  Words,          \* 1 .. n
  MaxTypes,       \* bound: changes of the text, openings and closings
  MaxBacks,       \* bound: steps back in the history, changes of the tab
  MaxSearchFaults \* bound: requests that fail

ASSUME SearchAssumption ==
  Words \subseteq Nat \ {0} /\ {MaxTypes, MaxBacks, MaxSearchFaults} \subseteq Nat

Texts   == [word : Words \union {0}, padded : BOOLEAN]
Blank   == [word |-> 0, padded |-> FALSE]
Trim(t) == [t EXCEPT !.padded = FALSE]
RelationTabs == {"following", "followers"}
Suggest == {"users", "tags"}

VARIABLES
  box,       \* "relation" or "search", "none" before the page is opened
  text,      \* what the input shows
  debounced, \* debouncedText
  timer,     \* the timeout of the last change is running
  url,       \* relation: the tab, and the query of the URL as it was typed
  visited,   \* relation: the queries of the history
  open,      \* search: the dialog
  searchText, \* search: the query of the page it opens
  asking,    \* requests under way: of the list, of each kind of suggestion
  list,      \* relation: the request that the list answers
  got,       \* search: the texts whose suggestions are cached (staleTime)
  suggested, \* search: the last text that had suggestions
  searchBudget

searchVars == <<box, text, debounced, timer, url, visited, open, searchText, asking,
                list, got, suggested, searchBudget>>

Channels == Suggest \union {"list"}
NoRequest == Get("none", Nothing, Blank)

SearchInit ==
  /\ box = "none"
  /\ text = Blank /\ debounced = Blank /\ timer = FALSE
  /\ url = [tab |-> "following", query |-> Blank]
  /\ visited = {Blank}
  /\ open = FALSE /\ searchText = Blank
  /\ asking = [c \in Channels |-> NoRequest]
  /\ list = NoRequest
  /\ got = [k \in Suggest |-> {}]
  /\ suggested = [k \in Suggest |-> Blank]
  /\ searchBudget = [types |-> MaxTypes, backs |-> MaxBacks, faults |-> MaxSearchFaults]

SearchSpend(what) ==
  searchBudget[what] > 0 /\ searchBudget' = [searchBudget EXCEPT ![what] = @ - 1]

-----------------------------------------------------------------------------
\* The list of relations: category and normalizedQuery of the URL.
RelationRequest(u) ==
  IF u.tab = "following" THEN followServiceListMyFollowing(Trim(u.query))
  ELSE followServiceListMyFollowers(Trim(u.query))

\* The page is rendered with another URL: a new key asks for its list, and a
\* new query replaces the text of the box (the effect on query).
Navigate(u) ==
  /\ url' = u
  /\ IF RelationRequest(u) # RelationRequest(url)
     THEN asking' = [asking EXCEPT !["list"] = RelationRequest(u)] /\ list' = NoRequest
     ELSE UNCHANGED <<asking, list>>
  /\ IF Trim(u.query) # Trim(url.query)
     THEN /\ text' = Trim(u.query)
          /\ timer' = (timer \/ text # Trim(u.query))
     ELSE UNCHANGED <<text, timer>>

\* handleQueryChange: the text as it was typed, unless nothing is left of it.
QueryUrl(t) == [url EXCEPT !.query = IF Trim(t) = Blank THEN Blank ELSE t]

\* The effect that compares debouncedText with query, which has been trimmed:
\* a text with spaces is never equal to it, and each rendering tries again.
SyncQuery ==
  /\ box = "relation" /\ debounced # Trim(url.query)
  /\ Navigate(QueryUrl(debounced))
  /\ visited' = visited \union {QueryUrl(debounced).query}
  /\ UNCHANGED <<box, debounced, open, searchText, got, suggested, searchBudget>>

\* The effect has nothing left to change.
Synced == debounced = Trim(url.query) \/ QueryUrl(debounced) = url

handleTabChange(tab) ==
  /\ box = "relation" /\ tab # url.tab
  /\ Navigate([url EXCEPT !.tab = tab])
  /\ SearchSpend("backs")
  /\ UNCHANGED <<box, debounced, visited, open, searchText, got, suggested>>

\* Back or forward in the history.
GoBack(query) ==
  /\ box = "relation" /\ query \in visited /\ query # url.query
  /\ Navigate([url EXCEPT !.query = query])
  /\ SearchSpend("backs")
  /\ UNCHANGED <<box, debounced, visited, open, searchText, got, suggested>>

-----------------------------------------------------------------------------
\* The dialog.

SuggestRequest(kind, t, enabled) ==
  IF kind = "users" THEN useUserServiceSuggestUsersByPrefix(t, enabled)
  ELSE usePostServiceSuggestTagsByPrefix(t, enabled)

\* shouldSuggest, and the queries of the text: what is cached is not asked for.
SuggestFor(isOpen, t) ==
  asking' = [c \in Channels |->
    IF c = "list" THEN asking[c]
    ELSE LET query == SuggestRequest(c, t, isOpen /\ t # Blank)
         IN  IF query.enabled /\ t \notin got[c] THEN query.queryFn ELSE NoRequest]

handleOpenChange(nextOpen) ==
  /\ box = "search" /\ nextOpen # open
  /\ open' = nextOpen
  /\ text' = IF nextOpen THEN searchText ELSE text
  /\ timer' = (timer \/ text' # text)
  /\ SuggestFor(nextOpen, debounced)
  /\ SearchSpend("types")
  /\ UNCHANGED <<box, debounced, url, visited, searchText, list, got, suggested>>

\* handleSearch: a text of spaces only is not searched for.
handleSearch ==
  /\ box = "search" /\ open /\ Trim(text) # Blank
  /\ searchText' = Trim(text)
  /\ open' = FALSE
  /\ SuggestFor(FALSE, debounced)
  /\ SearchSpend("types")
  /\ UNCHANGED <<box, text, debounced, timer, url, visited, list, got, suggested>>

-----------------------------------------------------------------------------
SearchMount ==
  /\ box = "none"
  /\ box' \in {"relation", "search"}
  /\ asking' = IF box' = "relation" THEN [asking EXCEPT !["list"] = RelationRequest(url)]
               ELSE asking
  /\ UNCHANGED <<text, debounced, timer, url, visited, open, searchText, list, got,
                 suggested, searchBudget>>

Type(t) ==
  /\ box = "relation" \/ open
  /\ t # text
  /\ text' = t /\ timer' = TRUE
  /\ SearchSpend("types")
  /\ UNCHANGED <<box, debounced, url, visited, open, searchText, asking, list, got, suggested>>

\* Plausible bug: a change clears the timeout and does not set another.
DebounceOnce ==
  /\ timer /\ (box = "relation" => Synced)
  /\ timer' = FALSE
  /\ debounced' = IF debounced = Blank THEN text ELSE debounced
  /\ IF box = "search" THEN SuggestFor(open, debounced') ELSE UNCHANGED asking
  /\ UNCHANGED <<box, text, url, visited, open, searchText, list, got, suggested, searchBudget>>

\* 200 ms have passed since the last change; effects have run long before.
Debounce ==
  /\ timer /\ (box = "relation" => Synced)
  /\ timer' = FALSE
  /\ debounced' = text
  /\ IF box = "search" THEN SuggestFor(open, text) ELSE UNCHANGED asking
  /\ UNCHANGED <<box, text, url, visited, open, searchText, list, got, suggested, searchBudget>>

SearchAnswered(c) ==
  /\ asking[c] # NoRequest
  /\ IF c = "list" THEN list' = asking[c] /\ UNCHANGED <<got, suggested>>
     ELSE /\ got' = [got EXCEPT ![c] = @ \union {asking[c].data}]
          /\ suggested' = [suggested EXCEPT ![c] = asking[c].data]
          /\ UNCHANGED list
  /\ asking' = [asking EXCEPT ![c] = NoRequest]
  /\ UNCHANGED <<box, text, debounced, timer, url, visited, open, searchText, searchBudget>>

SearchFails(c) ==
  /\ asking[c] # NoRequest
  /\ asking' = [asking EXCEPT ![c] = NoRequest]
  /\ SearchSpend("faults")
  /\ UNCHANGED <<box, text, debounced, timer, url, visited, open, searchText, list, got, suggested>>

SearchProgress ==
  \/ SyncQuery \/ Debounce
  \/ \E c \in Channels : SearchAnswered(c)

SearchNext ==
  \/ SearchProgress
  \/ SearchMount \/ handleSearch
  \/ \E t \in Texts : Type(t) \/ GoBack(t)
  \/ \E tab \in RelationTabs : handleTabChange(tab)
  \/ \E nextOpen \in BOOLEAN : handleOpenChange(nextOpen)
  \/ \E c \in Channels : SearchFails(c)

-----------------------------------------------------------------------------
\* Every variable holds a value of its type.
SearchTypeOK ==
  /\ {text, debounced, searchText, url.query} \union visited \subseteq Texts
  /\ timer \in BOOLEAN /\ open \in BOOLEAN /\ url.tab \in RelationTabs
  /\ \A k \in Suggest : got[k] \subseteq Texts /\ suggested[k] \in Texts

\* Nothing is under way; a text with spaces around it keeps the box of the
\* relations rendering, though nothing changes any more.
SearchAtRest ==
  ~timer /\ (box = "relation" => Synced) /\ \A c \in Channels : asking[c] = NoRequest

\* The suggestions on the screen: those of the last text stand in while
\* others are asked for.
Displays(k) ==
  IF ~open \/ debounced = Blank THEN Blank
  ELSE IF debounced \in got[k] THEN debounced
  ELSE IF asking[k] # NoRequest THEN suggested[k] ELSE Blank

\* At rest, what is listed answers what the box says, whatever was typed, and
\* however the URL was changed or the dialog closed meanwhile: the list of
\* relations the tab and the text, the suggestions the text; or nothing is
\* listed (no text, or a request that failed).
AnswersMatchBox ==
  SearchAtRest =>
    /\ box = "relation" =>
         /\ Trim(text) = Trim(url.query)
         /\ list \in {NoRequest, RelationRequest([url EXCEPT !.query = text])}
    /\ box = "search" /\ open => \A k \in Suggest : Displays(k) \in {Blank, text}
=============================================================================
