---------------------------- MODULE WebPageProofs ----------------------------
(***************************************************************************)
(* Proofs about the pages of WebClient, for any bounds: the toggles, the    *)
(* search boxes, the account forms, the composers and the comments under a  *)
(* card.  Each part's property is proved of the part alone and holds of the *)
(* client by PartsImplemented.                                              *)
(***************************************************************************)
EXTENDS WebProofs, FiniteSetTheorems

-----------------------------------------------------------------------------
(***************************************************************************)
(* The thumb of a comment.                                                  *)
(***************************************************************************)
ThumbValues == [on : BOOLEAN, count : Int]

\* The counter shows the others' likes and the viewer's.
InStep(value) == value.count = Others + Number(value.on)

LikeCalls ==
  [turn : Nat, action : {ADD, REMOVE}, before : ThumbValues, step : {"sent", "error"},
   heard : BOOLEAN]

\* What the callbacks put back was in step when it was shown.
ThumbIInv ==
  /\ likes \in ThumbValues /\ thumb \in ThumbValues
  /\ likeCalls \subseteq LikeCalls
  /\ thumbBudget \in [clicks : Nat, faults : Nat]
  /\ thumbCard = "none" => likeCalls = {}
  /\ thumbCard = "comment" => InStep(thumb) /\ \A c \in likeCalls : InStep(c.before)
  /\ thumbCard = "reply" /\ ~refused => InStep(thumb)


LEMMA ThumbInitIInv == ThumbInit => ThumbIInv
BY ThumbBounds DEF ThumbInit, ThumbIInv, ThumbValues, Others

LEMMA ThumbMountKeeps ==
  ASSUME ThumbIInv, ThumbMount
  PROVE  ThumbIInv'
<1>1. PICK on \in BOOLEAN : likes' = [on |-> on, count |-> Others + Number(on)]
  BY DEF ThumbMount
<1>2. likes' \in ThumbValues /\ InStep(likes')
  BY <1>1 DEF ThumbValues, InStep, Others, Number
<1> QED BY <1>2 DEF ThumbIInv, ThumbMount, InStep

\* Turning a thumb over, either way, moves the counter with it.
LEMMA SidesInStep ==
  ASSUME NEW value \in ThumbValues
  PROVE  /\ Turned(value) \in ThumbValues
         /\ InStep(value) => InStep(Turned(value))
         /\ InStep(value) =>
              InStep([on |-> ~value.on, count |-> value.count + Swing(value)])
<1>1. PICK on \in BOOLEAN, count \in Int : value = [on |-> on, count |-> count]
  BY DEF ThumbValues
<1> DEFINE less == IF count - 1 < 0 THEN 0 ELSE count - 1
           more == IF count + 1 < 0 THEN 0 ELSE count + 1
<1>2. CASE on
  <2>1. value.on /\ value.count = count
    BY <1>1, <1>2
  <2>2. Swing(value) = -1
    BY <2>1 DEF Swing
  <2>3. Turned(value) = [on |-> FALSE, count |-> less]
    BY <2>1 DEF Turned
  <2>4. InStep(value) => count = 2
    BY <2>1 DEF InStep, Others, Number
  <2>5. InStep([on |-> FALSE, count |-> 1])
    BY DEF InStep, Others, Number
  <2>6. less \in Int /\ (count = 2 => less = 1 /\ count + (-1) = 1)
    OBVIOUS
  <2>7. [on |-> ~value.on, count |-> value.count + Swing(value)]
          = [on |-> FALSE, count |-> count + (-1)]
    BY <2>1, <2>2
  <2> HIDE DEF less
  <2>8. Turned(value) \in ThumbValues
    BY <2>3, <2>6 DEF ThumbValues
  <2>9. InStep(value) => InStep(Turned(value))
    BY <2>3, <2>4, <2>5, <2>6
  <2>10. InStep(value) => InStep([on |-> FALSE, count |-> count + (-1)])
    BY <2>4, <2>5, <2>6
  <2> QED BY <2>7, <2>8, <2>9, <2>10, Zenon
<1>3. CASE ~on
  <2>1. ~value.on /\ value.count = count
    BY <1>1, <1>3
  <2>2. Swing(value) = 1
    BY <2>1 DEF Swing
  <2>3. Turned(value) = [on |-> TRUE, count |-> more]
    BY <2>1 DEF Turned
  <2>4. InStep(value) => count = 1
    BY <2>1 DEF InStep, Others, Number
  <2>5. InStep([on |-> TRUE, count |-> 2])
    BY DEF InStep, Others, Number
  <2>6. more \in Int /\ (count = 1 => more = 2 /\ count + 1 = 2)
    OBVIOUS
  <2>7. [on |-> ~value.on, count |-> value.count + Swing(value)]
          = [on |-> TRUE, count |-> count + 1]
    BY <2>1, <2>2
  <2> HIDE DEF more
  <2>8. Turned(value) \in ThumbValues
    BY <2>3, <2>6 DEF ThumbValues
  <2>9. InStep(value) => InStep(Turned(value))
    BY <2>3, <2>4, <2>5, <2>6
  <2>10. InStep(value) => InStep([on |-> TRUE, count |-> count + 1])
    BY <2>4, <2>5, <2>6
  <2> QED BY <2>7, <2>8, <2>9, <2>10, Zenon
<1> QED BY <1>2, <1>3

\* A click shows a value that is in step if the last one was.
LEMMA HandleLikeKeeps ==
  ASSUME ThumbIInv, NEW next \in ThumbValues, HandleLike(next), thumbCard # "none",
         thumbCard \in {"comment", "reply"} /\ InStep(thumb) => InStep(next)
  PROVE  ThumbIInv'
<1> DEFINE request == commentServiceLikeComment(liked_comment, ToggleActionRequest(next.on))
           mine == [turn |-> thumbBudget.clicks, action |-> request.data.action,
                     before |-> thumb, step |-> "sent", heard |-> TRUE]
<1>1. request.data.action \in {ADD, REMOVE}
  BY DEF commentServiceLikeComment, Post, Request, ToggleActionRequest, Number, ADD, REMOVE
<1>2. mine \in LikeCalls
  BY <1>1 DEF ThumbIInv, LikeCalls
<1>3. ASSUME NEW c \in Muted
      PROVE  c \in LikeCalls /\ \E e \in likeCalls : c.before = e.before
  <2>1. PICK e \in likeCalls : c = [e EXCEPT !.heard = FALSE]
    BY DEF Muted
  <2>2. e \in LikeCalls
    BY DEF ThumbIInv
  <2> QED BY <2>1, <2>2 DEF LikeCalls
<1>4. likeCalls' = Muted \union {mine}
  BY DEF HandleLike
<1> HIDE DEF mine
<1>5. likeCalls' \subseteq LikeCalls
  BY <1>2, <1>3, <1>4
<1>6. \A c \in likeCalls' : c.before = thumb \/ \E e \in likeCalls : c.before = e.before
  <2>1. mine.before = thumb
    BY DEF mine
  <2> QED BY <1>3, <1>4, <2>1
<1>7. thumbBudget' \in [clicks : Nat, faults : Nat]
  BY DEF ThumbIInv, HandleLike
<1> QED BY <1>5, <1>6, <1>7 DEF ThumbIInv, HandleLike

LEMMA ClickKeeps ==
  ASSUME ThumbIInv, LikeComment \/ LikeReply \/ LikeMessage
  PROVE  ThumbIInv'
<1>1. thumb \in ThumbValues
  BY DEF ThumbIInv
<1>2. CASE LikeComment
  BY <1>1, <1>2, SidesInStep, HandleLikeKeeps DEF LikeComment
<1>3. CASE LikeReply
  <2> DEFINE next == [on |-> ~thumb.on, count |-> thumb.count + Swing(thumb)]
  <2>1. next \in ThumbValues
    BY <1>1 DEF Swing, ThumbValues
  <2>2. InStep(thumb) => InStep(next)
    BY <1>1, SidesInStep
  <2>3. HandleLike(next)
    BY <1>3 DEF LikeReply
  <2> HIDE DEF next
  <2> QED BY <1>3, <2>1, <2>2, <2>3, HandleLikeKeeps DEF LikeReply
<1>4. CASE LikeMessage
  <2>1. [thumb EXCEPT !.on = ~@] \in ThumbValues
    BY <1>1 DEF ThumbValues
  <2> QED BY <1>4, <2>1, HandleLikeKeeps DEF LikeMessage
<1> QED BY <1>2, <1>3, <1>4

LEMMA LikeSettledKeeps ==
  ASSUME ThumbIInv, NEW c \in likeCalls, LikeServed(c) \/ LikeFails(c) \/ LikeRefused(c)
  PROVE  ThumbIInv'
<1>1. Toggled(likes, c.action) \in ThumbValues
  BY DEF ThumbIInv, Toggled, Turned, ThumbValues
<1>2. CASE LikeServed(c)
  BY <1>1, <1>2 DEF ThumbIInv, LikeServed
<1>3. CASE LikeFails(c)
  <2>1. c \in LikeCalls
    BY DEF ThumbIInv
  <2>2. [c EXCEPT !.step = "error"] \in LikeCalls /\ [c EXCEPT !.step = "error"].before = c.before
    BY <2>1 DEF LikeCalls
  <2>3. likeCalls' \subseteq LikeCalls
        /\ \A e \in likeCalls' : \E d \in likeCalls : e.before = d.before
    BY <1>3, <2>2 DEF LikeFails, ThumbIInv
  <2>4. thumbBudget' \in [clicks : Nat, faults : Nat]
    BY <1>3 DEF ThumbIInv, LikeFails
  <2> QED BY <1>1, <1>3, <2>3, <2>4 DEF ThumbIInv, LikeFails
<1>4. CASE LikeRefused(c)
  <2>1. CASE ~c.heard
    <3>1. thumb' = thumb
      BY <1>4, <2>1 DEF LikeRefused
    <3> QED BY <1>4, <2>1, <3>1 DEF ThumbIInv, LikeRefused
  <2>2. CASE c.heard /\ thumbCard = "reply"
    <3>1. thumb' = [on |-> ~thumb.on, count |-> thumb.count + Swing(c.before)]
      BY <1>4, <2>2 DEF LikeRefused
    <3>2. thumb' \in ThumbValues
      BY <3>1 DEF ThumbIInv, ThumbValues, Swing
    <3> QED BY <1>4, <2>2, <3>2 DEF ThumbIInv, LikeRefused
  <2>3. CASE c.heard /\ thumbCard # "reply"
    <3>1. thumb' = c.before /\ c.before \in ThumbValues
      BY <1>4, <2>3 DEF LikeRefused, ThumbIInv, LikeCalls
    <3> QED BY <1>4, <2>3, <3>1 DEF ThumbIInv, LikeRefused
  <2> QED BY <2>1, <2>2, <2>3
<1> QED BY <1>2, <1>3, <1>4

LEMMA ThumbNextKeeps == ThumbIInv /\ [ThumbNext]_thumbVars => ThumbIInv'
<1> SUFFICES ASSUME ThumbIInv, [ThumbNext]_thumbVars PROVE ThumbIInv'
  OBVIOUS
<1>1. CASE UNCHANGED thumbVars
  BY <1>1 DEF thumbVars, ThumbIInv
<1>2. CASE ThumbNext
  BY <1>2, ThumbMountKeeps, ClickKeeps, LikeSettledKeeps DEF ThumbNext, ThumbProgress
<1> QED BY <1>1, <1>2

LEMMA ThumbInStep == ThumbIInv => CounterFollowsThumb
BY DEF ThumbIInv, CounterFollowsThumb, InStep

-----------------------------------------------------------------------------
(***************************************************************************)
(* The toggles of a post.                                                   *)
(***************************************************************************)
PostCalls ==
  [step : {"none", "sent", "ok", "error"},
   request : [kind : Kinds \union {"none"}, action : {ADD, REMOVE}], before : Values]
PostRequests == [kind : Kinds, action : {ADD, REMOVE}]

PostTyped ==
  /\ server \in [Kinds -> Values]
  /\ cell \in [Cells -> Values]
  /\ call \in [Cells -> PostCalls]
  /\ stray \subseteq PostRequests
  /\ reading \in [Places -> [step : {"none", "asked", "served"}, value : [Kinds -> Values]]]
  /\ odd \subseteq Cells

\* A call asks for the opposite of what its click was shown.
AsksForOpposite ==
  \A c \in Cells : call[c].step = "sent" =>
    call[c].request = [kind |-> c[2], action |-> Number(call[c].before.on)]

\* Two values that look the same in cell c.
Like(c, v, w) == v.on = w.on /\ (HasCount(c) => v.count = w.count)

\* The profile is still to be told of a follow on a card.
ToBeTold(c) ==
  /\ c = Profile
  /\ \/ reading["profile"].step # "none"
     \/ \E d \in Cells \ {Profile} : d[2] = "follow" /\ call[d].step = "ok"

\* A cell that nothing has come across: what it shows follows from the
\* server's value and from where its call stands.
CellFollows(c) ==
  LET value == server[c[2]]
      before == call[c].before
  IN  CASE call[c].step = "none"  -> Like(c, cell[c], value)
        [] call[c].step = "sent"  -> /\ Like(c, before, value)
                                     /\ Like(c, cell[c],
                                             IF c = Profile THEN before ELSE Turned(before))
        [] call[c].step = "ok"    -> Like(c, IF c = Profile THEN Turned(before) ELSE cell[c], value)
        [] call[c].step = "error" -> Like(c, IF c = Profile THEN cell[c] ELSE before, value)

PostIInv ==
  /\ PostTyped
  /\ AsksForOpposite
  /\ \A c \in Cells \ odd : ToBeTold(c) \/ CellFollows(c)


LEMMA PostInitIInv == PostInit => PostIInv
<1> SUFFICES ASSUME PostInit PROVE PostIInv
  OBVIOUS
<1>1. Start \in [Kinds -> Values] /\ NoCall \in PostCalls
      /\ NoRead \in [step : {"none", "asked", "served"}, value : [Kinds -> Values]]
  BY DEF Start, Values, NoCall, PostCalls, NoValue, NoRead, ADD
<1>2. \A c \in Cells : c[2] \in Kinds
  BY DEF Cells, Kinds, Profile
<1>3. PostTyped
  BY <1>1, <1>2 DEF PostInit, PostTyped
<1>4. AsksForOpposite
  BY DEF PostInit, AsksForOpposite, NoCall
<1>5. ASSUME NEW c \in Cells PROVE CellFollows(c)
  BY <1>2 DEF PostInit, CellFollows, NoCall, Like
<1> QED BY <1>3, <1>4, <1>5 DEF PostIInv

\* What the typing says of one cell.
LEMMA CellTyped ==
  ASSUME PostTyped, NEW c \in Cells
  PROVE  /\ c[2] \in Kinds /\ cell[c] \in Values /\ server[c[2]] \in Values
         /\ call[c] \in PostCalls /\ call[c].before \in Values
         /\ call[c].step \in {"none", "sent", "ok", "error"}
BY DEF PostTyped, PostCalls, Cells, Kinds, Profile

\* Turning a value over, on either side.
LEMMA TurnedValues ==
  ASSUME NEW v \in Values
  PROVE  /\ Turned(v) \in Values /\ Turned(v).on = ~v.on
         /\ \A w \in Values : \A c \in Cells : Like(c, v, w) => Like(c, Turned(v), Turned(w))
BY DEF Turned, Values, Like

\* The server turns over what the call was shown.
LEMMA ToggledTurns ==
  ASSUME NEW v \in Values, NEW w \in Values, w.on = v.on
  PROVE  Toggled(v, Number(w.on)) = Turned(v)
BY DEF Toggled, Number, ADD, Values

LEMMA ToggledValues ==
  ASSUME NEW v \in Values, NEW action \in {ADD, REMOVE}
  PROVE  Toggled(v, action) \in Values
BY TurnedValues DEF Toggled

\* What a click sends.
LEMMA ClickSends ==
  ASSUME PostTyped, NEW c \in Cells
  PROVE  RequestOf(c[2], ToggleActionRequest(cell[c].on)).data.action = Number(cell[c].on)
BY CellTyped DEF RequestOf, ToggleActionRequest, postServiceLikePost, postServiceCollectPost,
     followServiceFollow, Post, Request, Kinds

\* What CellFollows of one cell depends on.
LEMMA SameCell ==
  ASSUME NEW c \in Cells, CellFollows(c), cell'[c] = cell[c], call'[c] = call[c],
         server'[c[2]] = server[c[2]]
  PROVE  CellFollows(c)'
BY DEF CellFollows, Like

LEMMA ClickedKeeps ==
  ASSUME PostIInv, NEW c \in Cells, Mutate(c), NEW value \in Values,
         cell' = IF c = Profile THEN cell ELSE [cell EXCEPT ![c] = value],
         c # Profile => Like(c, value, Turned(cell[c]))
  PROVE  PostIInv'
<1> DEFINE mine == [step |-> "sent", before |-> cell[c],
                    request |-> [kind |-> c[2], action |-> Number(cell[c].on)]]
<1>1. PostTyped /\ call[c].step = "none" /\ call' = [call EXCEPT ![c] = mine]
      /\ UNCHANGED <<server, stray, reading, odd>>
  BY ClickSends DEF PostIInv, Mutate
<1>2. mine \in PostCalls
  BY <1>1, CellTyped DEF PostCalls, Values, Number, ADD, REMOVE
<1>3. call'[c] = mine /\ \A d \in Cells \ {c} : call'[d] = call[d] /\ cell'[d] = cell[d]
  BY <1>1 DEF PostTyped
<1>4. PostTyped'
  BY <1>1, <1>2 DEF PostTyped
<1>5. AsksForOpposite'
  BY <1>1, <1>3 DEF PostIInv, AsksForOpposite
<1>6. ASSUME NEW d \in Cells \ odd PROVE (ToBeTold(d) \/ CellFollows(d))'
  <2>1. CASE ToBeTold(d)
    BY <1>1, <1>3, <2>1 DEF ToBeTold
  <2>2. CASE CellFollows(d) /\ d # c
    BY <1>1, <1>3, <2>2, SameCell
  <2>3. CASE CellFollows(d) /\ d = c
    <3>1. Like(c, cell[c], server[c[2]])
      BY <1>1, <2>3 DEF CellFollows
    <3>2. cell'[c] = IF c = Profile THEN cell[c] ELSE value
      BY <1>1 DEF PostTyped
    <3>3. CellFollows(c)'
      <4>1. call'[c].step = "sent" /\ call'[c].before = cell[c] /\ server' = server
        BY <1>1, <1>3
      <4>2. Like(c, cell'[c], IF c = Profile THEN cell[c] ELSE Turned(cell[c]))
        BY <3>2 DEF Like
      <4>3. CellFollows(c)' = (/\ Like(c, call'[c].before, server'[c[2]])
                              /\ Like(c, cell'[c], IF c = Profile THEN call'[c].before
                                                   ELSE Turned(call'[c].before)))
        BY <4>1 DEF CellFollows, Like
      <4> QED BY <3>1, <4>1, <4>2, <4>3
    <3> QED BY <2>3, <3>3
  <2> QED BY <2>1, <2>2, <2>3 DEF PostIInv
<1> QED BY <1>1, <1>4, <1>5, <1>6 DEF PostIInv

LEMMA ClicksKeep ==
  ASSUME PostIInv, NEW p \in {"list", "detail"},
         handleLike(p) \/ handleCollect(p) \/ handleFollow(p) \/ handleProfileFollow
  PROVE  PostIInv'
<1>1. PostTyped /\ Profile \in Cells
      /\ \A k \in Kinds : <<p, k>> \in Cells /\ <<p, k>> # Profile
  BY DEF PostIInv, Cells, Profile
<1>2. ASSUME NEW c \in Cells PROVE Turned(cell[c]) \in Values
  BY <1>1, CellTyped, TurnedValues
<1>3. CASE handleLike(p)
  BY <1>1, <1>2, <1>3, ClickedKeeps DEF handleLike, Kinds, Like
<1>4. CASE handleCollect(p)
  BY <1>1, <1>2, <1>4, ClickedKeeps DEF handleCollect, Kinds, Like
<1>5. CASE handleFollow(p)
  <2> DEFINE c == <<p, "follow">>
             value == [cell[c] EXCEPT !.on = ~@]
  <2>1. c \in Cells /\ c # Profile /\ ~HasCount(c) /\ cell[c] \in Values
    BY <1>1, CellTyped DEF Kinds, HasCount
  <2>2. value \in Values /\ Like(c, value, Turned(cell[c]))
    BY <2>1, TurnedValues DEF Values, Like
  <2>3. Mutate(c) /\ cell' = [cell EXCEPT ![c] = value]
    BY <1>1, <1>5, <2>1 DEF handleFollow, PostTyped, Values
  <2> HIDE DEF value, c
  <2> QED BY <2>1, <2>2, <2>3, ClickedKeeps
<1>6. CASE handleProfileFollow
  BY <1>1, <1>2, <1>6, ClickedKeeps DEF handleProfileFollow
<1> QED BY <1>3, <1>4, <1>5, <1>6

\* A cell that a step leaves alone, told of as before.
LEMMA LeftAlone ==
  ASSUME NEW d \in Cells, ToBeTold(d) \/ CellFollows(d), ToBeTold(d) => ToBeTold(d)',
         cell'[d] = cell[d], call'[d] = call[d], server'[d[2]] = server[d[2]]
  PROVE  (ToBeTold(d) \/ CellFollows(d))'
BY SameCell

\* Calls that were heard of stay so, and the profile stays asked for.
LEMMA StaysToBeTold ==
  ASSUME NEW d \in Cells, ToBeTold(d),
         \A e \in Cells \ {Profile} : call[e].step = "ok" => call'[e].step = "ok",
         reading["profile"].step # "none" => reading'["profile"].step # "none"
  PROVE  ToBeTold(d)'
BY DEF ToBeTold

LEMMA LikeTransitive ==
  ASSUME NEW c, NEW u, NEW v, NEW w, Like(c, u, v), Like(c, v, w)
  PROVE  Like(c, u, w)
BY DEF Like

\* The callbacks of the toggles: what is shown then is what the server has.
LEMMA AnswerHeardKeeps ==
  ASSUME PostIInv, NEW c \in Cells, OnError(c) \/ OnSuccess(c)
  PROVE  PostIInv'
<1> DEFINE shown == IF call[c].step = "error"
                    THEN (IF c = Profile THEN cell[c] ELSE call[c].before)
                    ELSE (IF c = Profile THEN Turned(call[c].before) ELSE cell[c])
<1>1. /\ PostTyped /\ call[c].step \in {"ok", "error"}
      /\ call' = [call EXCEPT ![c] = NoCall]
      /\ UNCHANGED <<server, stray, odd>>
  BY DEF PostIInv, OnError, OnSuccess
<1>2. shown \in Values
  BY <1>1, CellTyped, TurnedValues
<1>3. cell' = [cell EXCEPT ![c] = shown]
  BY <1>1 DEF OnError, OnSuccess, PostTyped
<1>4. /\ reading' \in [Places -> [step : {"none", "asked", "served"}, value : [Kinds -> Values]]]
      /\ reading["profile"].step # "none" => reading'["profile"].step # "none"
      /\ call[c].step = "ok" /\ c[2] = "follow" /\ c # Profile => reading'["profile"].step # "none"
  <2>1. [NoRead EXCEPT !.step = "asked"]
          \in [step : {"none", "asked", "served"}, value : [Kinds -> Values]]
    BY DEF NoRead, NoValue, Values
  <2>2. [NoRead EXCEPT !.step = "asked"].step = "asked" /\ "profile" \in Places
    BY DEF NoRead, Places
  <2> QED BY <1>1, <2>1, <2>2 DEF OnError, OnSuccess, PostTyped
<1> HIDE DEF shown
<1>5. NoCall \in PostCalls /\ NoCall.step = "none"
  BY DEF NoCall, PostCalls, NoValue, Values, ADD
<1>6. /\ call'[c] = NoCall /\ cell'[c] = shown
      /\ \A d \in Cells \ {c} : call'[d] = call[d] /\ cell'[d] = cell[d]
  BY <1>1, <1>3 DEF PostTyped
<1>7. PostTyped'
  BY <1>1, <1>2, <1>3, <1>4, <1>5 DEF PostTyped
<1>8. AsksForOpposite'
  BY <1>1, <1>5, <1>6 DEF PostIInv, AsksForOpposite
<1>9. ASSUME NEW d \in Cells \ odd PROVE (ToBeTold(d) \/ CellFollows(d))'
  <2>1. ToBeTold(d) \/ CellFollows(d)
    BY DEF PostIInv
  <2>2. ASSUME ToBeTold(d) PROVE ToBeTold(d)'
    <3>1. d = Profile
      BY <2>2 DEF ToBeTold
    <3>2. CASE reading'["profile"].step # "none"
      BY <3>1, <3>2 DEF ToBeTold
    <3>3. CASE reading'["profile"].step = "none"
      <4>1. PICK e \in Cells \ {Profile} : e[2] = "follow" /\ call[e].step = "ok"
        BY <1>4, <2>2, <3>3 DEF ToBeTold
      <4>2. e # c
        BY <1>4, <3>3, <4>1
      <4> QED BY <1>6, <3>1, <4>1, <4>2 DEF ToBeTold
    <3> QED BY <3>2, <3>3
  <2>3. CASE d # c
    BY <1>1, <1>6, <2>1, <2>2, <2>3, LeftAlone
  <2>4. CASE d = c /\ CellFollows(c)
    <3>1. Like(c, shown, server[c[2]])
      BY <1>1, <2>4 DEF CellFollows, shown
    <3>2. CellFollows(c)' = Like(c, cell'[c], server'[c[2]])
      BY <1>5, <1>6 DEF CellFollows, Like
    <3> QED BY <1>1, <1>6, <2>4, <3>1, <3>2
  <2> QED BY <2>1, <2>2, <2>3, <2>4
<1> QED BY <1>1, <1>7, <1>8, <1>9 DEF PostIInv

\* Asking for a place, and its answer on the way.
LEMMA AskingKeeps ==
  ASSUME PostIInv, NEW place \in Places,
         OpenDetail \/ PlaceRefetch(place) \/ ReadServed(place)
  PROVE  PostIInv'
<1>1. PostTyped /\ UNCHANGED <<server, cell, call, stray, odd>>
  BY DEF PostIInv, OpenDetail, PlaceRefetch, ReadServed
<1> DEFINE Reads == [step : {"none", "asked", "served"}, value : [Kinds -> Values]]
<1>2. Answer(ReadRequest(place)) \in [Kinds -> Values]
  BY <1>1 DEF Answer, PostTyped, NoValue, Values
<1>3. /\ [NoRead EXCEPT !.step = "asked"] \in Reads
      /\ [NoRead EXCEPT !.step = "asked"].step = "asked"
      /\ [step |-> "served", value |-> Answer(ReadRequest(place))] \in Reads
  BY <1>2 DEF NoRead, NoValue, Values
<1>4. \E p \in Places, run \in Reads : run.step # "none" /\ reading' = [reading EXCEPT ![p] = run]
  BY <1>3 DEF OpenDetail, PlaceRefetch, ReadServed, Places
<1>5. /\ reading' \in [Places -> Reads]
      /\ reading["profile"].step # "none" => reading'["profile"].step # "none"
  BY <1>1, <1>4 DEF PostTyped, Places
<1>6. PostTyped'
  BY <1>1, <1>5 DEF PostTyped
<1>7. AsksForOpposite'
  BY <1>1 DEF PostIInv, AsksForOpposite
<1>8. ASSUME NEW d \in Cells \ odd PROVE (ToBeTold(d) \/ CellFollows(d))'
  BY <1>1, <1>5, LeftAlone, StaysToBeTold DEF PostIInv
<1> QED BY <1>1, <1>6, <1>7, <1>8 DEF PostIInv

\* The answer to a refetch: whatever it has not come across is what it says.
LEMMA ReadOverKeeps ==
  ASSUME PostIInv, NEW place \in Places, ReadSettled(place) \/ ReadFails(place)
  PROVE  PostIInv'
<1>1. /\ PostTyped /\ UNCHANGED <<server, call, stray>>
      /\ reading' = [reading EXCEPT ![place] = NoRead]
      /\ CellsOf(place) \subseteq Cells
  BY DEF PostIInv, ReadSettled, ReadFails, CellsOf
<1>2. \A d \in Cells : d[1] # place => cell'[d] = cell[d] /\ (d \in odd' <=> d \in odd)
  BY <1>1 DEF ReadSettled, ReadFails, CellsOf
<1>3. ASSUME NEW d \in Cells, d[1] = place, d \notin odd'
      PROVE  cell'[d] = server[d[2]] /\ call[d].step = "none"
  BY <1>3 DEF ReadSettled, ReadFails, CellsOf
<1>4. cell' \in [Cells -> Values]
  <2>1. \A k \in Kinds : reading[place].value[k] \in Values
    BY <1>1 DEF PostTyped
  <2>2. \A d \in Cells : d[2] \in Kinds
    BY <1>1, CellTyped
  <2> QED BY <1>1, <2>1, <2>2 DEF ReadSettled, ReadFails, PostTyped
<1>5. odd' \subseteq Cells
  BY <1>1 DEF ReadSettled, ReadFails, PostTyped
<1>6. NoRead \in [step : {"none", "asked", "served"}, value : [Kinds -> Values]]
  BY DEF NoRead, NoValue, Values
<1>7. PostTyped'
  BY <1>1, <1>4, <1>5, <1>6 DEF PostTyped
<1>8. AsksForOpposite'
  BY <1>1 DEF PostIInv, AsksForOpposite
<1>9. ASSUME NEW d \in Cells, d \notin odd' PROVE (ToBeTold(d) \/ CellFollows(d))'
  <2>1. CASE d[1] = place
    <3>1. cell'[d] = server[d[2]] /\ call'[d].step = "none" /\ server' = server
      BY <1>1, <1>3, <1>9, <2>1
    <3>2. CellFollows(d)' = Like(d, cell'[d], server'[d[2]])
      BY <3>1 DEF CellFollows, Like
    <3> QED BY <3>1, <3>2 DEF Like
  <2>2. CASE d[1] # place
    <3>1. d \notin odd /\ cell'[d] = cell[d]
      BY <1>2, <1>9, <2>2
    <3>2. ToBeTold(d) => ToBeTold(d)'
      <4>1. d = Profile => reading'["profile"] = reading["profile"]
        BY <1>1, <2>2 DEF PostTyped, Profile
      <4> QED BY <1>1, <4>1 DEF ToBeTold
    <3> QED BY <1>1, <3>1, <3>2, LeftAlone DEF PostIInv
  <2> QED BY <2>1, <2>2
<1> QED BY <1>7, <1>8, <1>9 DEF PostIInv

\* A request that was sent: what its click was shown, turned over.
LEMMA SentRequest ==
  ASSUME PostIInv, NEW c \in Cells, call[c].step = "sent"
  PROVE  /\ call[c].request.kind = c[2]
         /\ call[c].request.action = Number(call[c].before.on)
         /\ call[c].request \in PostRequests
<1>1. call[c].request = [kind |-> c[2], action |-> Number(call[c].before.on)]
  BY DEF PostIInv, AsksForOpposite
<1>2. \A b : Number(b) \in {ADD, REMOVE}
  BY DEF Number, ADD, REMOVE
<1>3. c[2] \in Kinds
  BY CellTyped DEF PostIInv
<1> QED BY <1>1, <1>2, <1>3 DEF PostRequests

\* A card that leaves the screen.
LEMMA UnmountKeeps ==
  ASSUME PostIInv, NEW place \in {"list", "detail"}, Unmount(place)
  PROVE  PostIInv'
<1> DEFINE gone == {c \in CellsOf(place) : call[c].step # "none"}
<1>1. /\ PostTyped /\ UNCHANGED <<server, cell>> /\ gone \subseteq Cells
      /\ call' = [c \in Cells |-> IF c \in gone THEN NoCall ELSE call[c]]
      /\ stray' = stray \union {call[c].request : c \in {c \in gone : call[c].step = "sent"}}
      /\ odd' = odd \union {c \in Cells : \E g \in gone : g[2] = c[2]}
      /\ reading' = IF place = "detail" THEN [reading EXCEPT !["detail"] = NoRead] ELSE reading
  BY DEF PostIInv, Unmount, CellsOf
<1> HIDE DEF gone
<1>2. NoCall \in PostCalls /\ NoCall.step = "none"
      /\ NoRead \in [step : {"none", "asked", "served"}, value : [Kinds -> Values]]
  BY DEF NoCall, PostCalls, NoRead, NoValue, Values, ADD
<1>3. \A c \in gone : call[c].step = "sent" => call[c].request \in PostRequests
  BY <1>1, SentRequest
<1>4. PostTyped'
  <2>1. stray' \subseteq PostRequests
    BY <1>1, <1>3 DEF PostTyped
  <2>2. call' \in [Cells -> PostCalls] /\ odd' \subseteq Cells
    BY <1>1, <1>2 DEF PostTyped
  <2>3. reading' \in [Places -> [step : {"none", "asked", "served"}, value : [Kinds -> Values]]]
    BY <1>1, <1>2 DEF PostTyped
  <2> QED BY <1>1, <2>1, <2>2, <2>3 DEF PostTyped
<1>5. AsksForOpposite'
  BY <1>1, <1>2 DEF PostIInv, AsksForOpposite
<1>6. ASSUME NEW d \in Cells, d \notin odd' PROVE (ToBeTold(d) \/ CellFollows(d))'
  <2>1. d \notin odd /\ d \notin gone /\ \A g \in gone : g[2] # d[2]
    BY <1>1, <1>6
  <2>2. reading'["profile"] = reading["profile"]
    BY <1>1 DEF PostTyped
  <2>3. ASSUME ToBeTold(d) PROVE ToBeTold(d)'
    <3>1. \A e \in Cells : e[2] = "follow" => e \notin gone
      BY <2>1, <2>3 DEF ToBeTold, Profile
    <3> QED BY <1>1, <2>2, <2>3, <3>1 DEF ToBeTold
  <2> QED BY <1>1, <2>1, <2>3, LeftAlone DEF PostIInv
<1> QED BY <1>4, <1>5, <1>6 DEF PostIInv

\* Where the server changes, every cell of that kind has been come across.
LEMMA ServerTurnsKeeps ==
  ASSUME PostIInv, NEW k \in Kinds, NEW value \in Values,
         server' = [server EXCEPT ![k] = value],
         odd' = odd \union {c \in Cells : c[2] = k},
         call' \in [Cells -> PostCalls], stray' \subseteq stray, UNCHANGED <<cell, reading>>,
         \A d \in Cells : d[2] # k => call'[d] = call[d],
         \A d \in Cells : call'[d].step = "sent" => call'[d] = call[d]
  PROVE  PostIInv'
<1>1. PostTyped
  BY DEF PostIInv
<1>2. PostTyped'
  BY <1>1 DEF PostTyped
<1>3. AsksForOpposite'
  BY DEF PostIInv, AsksForOpposite
<1>4. ASSUME NEW d \in Cells, d \notin odd' PROVE (ToBeTold(d) \/ CellFollows(d))'
  <2>1. d \notin odd /\ d[2] # k
    BY <1>4
  <2>2. server'[d[2]] = server[d[2]]
    BY <1>1, <2>1, CellTyped DEF PostTyped
  <2>3. ASSUME ToBeTold(d) PROVE ToBeTold(d)'
    <3>1. \A e \in Cells : e[2] = "follow" => call'[e] = call[e]
      BY <2>1, <2>3 DEF ToBeTold, Profile
    <3> QED BY <2>3, <3>1 DEF ToBeTold
  <2> QED BY <2>1, <2>2, <2>3, LeftAlone DEF PostIInv
<1> QED BY <1>2, <1>3, <1>4 DEF PostIInv

\* The server executes a call, and its component hears of it.
LEMMA CallServedKeeps ==
  ASSUME PostIInv, NEW c \in Cells, CallServed(c)
  PROVE  PostIInv'
<1> DEFINE k == c[2]
           before == call[c].before
           value == Toggled(server[k], call[c].request.action)
<1>1. PostTyped /\ call[c].step = "sent" /\ call' = [call EXCEPT ![c].step = "ok"]
      /\ UNCHANGED <<cell, stray, reading>>
      /\ k \in Kinds /\ before \in Values /\ server[k] \in Values
  BY CellTyped DEF PostIInv, CallServed
<1>2. value \in Values
  BY <1>1, SentRequest, ToggledValues DEF PostRequests
<1>3. server' = [server EXCEPT ![k] = value]
  BY <1>1, SentRequest DEF CallServed, Execute, PostTyped
<1>4. odd' = odd \union {d \in Cells : d[2] = k /\ d # c /\ d # Profile}
  BY DEF CallServed, Overtakes
<1>5. /\ call'[c].step = "ok" /\ call'[c].before = before
      /\ \A d \in Cells \ {c} : call'[d] = call[d]
  BY <1>1 DEF PostTyped, PostCalls
<1>6. server'[k] = value /\ \A d \in Cells : d[2] # k => server'[d[2]] = server[d[2]]
  BY <1>1, <1>3, CellTyped DEF PostTyped
<1>7. PostTyped'
  <2>1. call' \in [Cells -> PostCalls]
    BY <1>1 DEF PostTyped, PostCalls
  <2> QED BY <1>1, <1>2, <1>3, <1>4, <2>1 DEF PostTyped
<1>8. AsksForOpposite'
  BY <1>1, <1>5 DEF PostIInv, AsksForOpposite
<1>9. ASSUME NEW d \in Cells, d \notin odd' PROVE (ToBeTold(d) \/ CellFollows(d))'
  <2>1. d \notin odd
    BY <1>4, <1>9
  <2>2. ToBeTold(d) => ToBeTold(d)'
    BY <1>1, <1>5, StaysToBeTold
  <2>3. CASE d[2] # k
    BY <1>1, <1>5, <1>6, <2>1, <2>2, <2>3, LeftAlone DEF PostIInv
  <2>4. CASE d[2] = k /\ d # c
    <3>1. d = Profile /\ c # Profile /\ c[2] = "follow"
      BY <1>4, <1>9, <2>4 DEF Profile
    <3> QED BY <1>5, <3>1 DEF ToBeTold
  <2>5. CASE d = c /\ CellFollows(c)
    <3>1. /\ Like(c, before, server[k])
          /\ Like(c, cell[c], IF c = Profile THEN before ELSE Turned(before))
      BY <1>1, <2>5 DEF CellFollows
    <3>2. value = Turned(server[k])
      <4>1. before.on = server[k].on
        BY <3>1 DEF Like
      <4> QED BY <1>1, <4>1, SentRequest, ToggledTurns
    <3>3. Like(c, Turned(before), value)
      BY <1>1, <3>1, <3>2, TurnedValues
    <3>4. Like(c, IF c = Profile THEN Turned(before) ELSE cell[c], value)
      BY <3>1, <3>3, LikeTransitive
    <3>5. CellFollows(c)' = Like(c, IF c = Profile THEN Turned(call'[c].before) ELSE cell'[c],
                                 server'[c[2]])
      BY <1>5 DEF CellFollows, Like
    <3> QED BY <1>1, <1>5, <1>6, <2>5, <3>4, <3>5
  <2> QED BY <2>1, <2>2, <2>3, <2>4, <2>5 DEF PostIInv
<1> QED BY <1>7, <1>8, <1>9 DEF PostIInv

\* A call fails: either nothing has happened, or nobody hears that it has.
LEMMA CallFailsKeeps ==
  ASSUME PostIInv, NEW c \in Cells, CallFails(c)
  PROVE  PostIInv'
<1> DEFINE k == c[2]
           before == call[c].before
           value == Toggled(server[k], call[c].request.action)
<1>1. PostTyped /\ call[c].step = "sent" /\ call' = [call EXCEPT ![c].step = "error"]
      /\ UNCHANGED <<cell, stray, reading>>
      /\ k \in Kinds /\ before \in Values /\ server[k] \in Values
  BY CellTyped DEF PostIInv, CallFails
<1>2. /\ call'[c].step = "error" /\ call'[c].before = before
      /\ \A d \in Cells \ {c} : call'[d] = call[d]
      /\ call' \in [Cells -> PostCalls]
  BY <1>1 DEF PostTyped, PostCalls
<1>3. CASE UNCHANGED <<server, odd>>
  <2>1. PostTyped'
    BY <1>1, <1>2, <1>3 DEF PostTyped
  <2>2. AsksForOpposite'
    BY <1>1, <1>2 DEF PostIInv, AsksForOpposite
  <2>3. ASSUME NEW d \in Cells \ odd PROVE (ToBeTold(d) \/ CellFollows(d))'
    <3>1. ToBeTold(d) => ToBeTold(d)'
      BY <1>1, <1>2, StaysToBeTold
    <3>2. CASE d # c
      BY <1>1, <1>2, <1>3, <3>1, <3>2, LeftAlone DEF PostIInv
    <3>3. CASE d = c /\ CellFollows(c)
      <4>1. /\ Like(c, before, server[k])
            /\ Like(c, cell[c], IF c = Profile THEN before ELSE Turned(before))
        BY <1>1, <3>3 DEF CellFollows
      <4>2. Like(c, IF c = Profile THEN cell[c] ELSE before, server[k])
        BY <4>1, LikeTransitive
      <4>3. CellFollows(c)' = Like(c, IF c = Profile THEN cell'[c] ELSE call'[c].before,
                                   server'[c[2]])
        BY <1>2 DEF CellFollows, Like
      <4> QED BY <1>1, <1>2, <1>3, <3>3, <4>2, <4>3
    <3> QED BY <3>1, <3>2, <3>3 DEF PostIInv
  <2> QED BY <1>3, <2>1, <2>2, <2>3 DEF PostIInv
<1>4. CASE Execute(call[c].request) /\ odd' = odd \union {c} \union Overtakes(c, FALSE)
  <2>1. value \in Values
    BY <1>1, SentRequest, ToggledValues DEF PostRequests
  <2>2. server' = [server EXCEPT ![k] = value]
    BY <1>1, <1>4, SentRequest DEF Execute, PostTyped
  <2>3. odd' = odd \union {d \in Cells : d[2] = k}
    BY <1>4 DEF Overtakes
  <2>4. \A d \in Cells : d[2] # k => call'[d] = call[d]
    BY <1>2
  <2>5. \A d \in Cells : call'[d].step = "sent" => call'[d] = call[d]
    BY <1>2
  <2> HIDE DEF value, k
  <2> QED BY <1>1, <1>2, <2>1, <2>2, <2>3, <2>4, <2>5, ServerTurnsKeeps
<1> QED BY <1>3, <1>4 DEF CallFails

\* What the server does behind every component's back.
LEMMA StrayServedKeeps ==
  ASSUME PostIInv, NEW request \in stray, StrayServed(request)
  PROVE  PostIInv'
<1> DEFINE value == Toggled(server[request.kind], request.action)
<1>1. /\ PostTyped /\ request.kind \in Kinds /\ request.action \in {ADD, REMOVE}
      /\ server[request.kind] \in Values
  BY DEF PostIInv, PostTyped, PostRequests
<1>2. value \in Values
  BY <1>1, ToggledValues
<1>3. /\ server' = [server EXCEPT ![request.kind] = value]
      /\ odd' = odd \union {c \in Cells : c[2] = request.kind}
      /\ stray' \subseteq stray /\ UNCHANGED <<cell, call, reading>>
  BY <1>1 DEF StrayServed, Execute, PostTyped
<1>4. call' \in [Cells -> PostCalls]
  BY <1>1, <1>3 DEF PostTyped
<1> HIDE DEF value
<1> QED BY <1>1, <1>2, <1>3, <1>4, ServerTurnsKeeps

LEMMA ElsewhereKeeps ==
  ASSUME PostIInv, NEW k \in Kinds, Elsewhere(k)
  PROVE  PostIInv'
<1>1. PostTyped /\ server[k] \in Values
  BY DEF PostIInv, PostTyped
<1>2. /\ server' = [server EXCEPT ![k] = Turned(server[k])]
      /\ odd' = odd \union {c \in Cells : c[2] = k}
      /\ UNCHANGED <<cell, call, stray, reading>>
  BY <1>1 DEF Elsewhere, PostTyped
<1>3. Turned(server[k]) \in Values
  BY <1>1, TurnedValues
<1>4. call' \in [Cells -> PostCalls]
  BY <1>1, <1>2 DEF PostTyped
<1> QED BY <1>1, <1>2, <1>3, <1>4, ServerTurnsKeeps

LEMMA PostNextKeeps == PostIInv /\ [PostNext]_postVars => PostIInv'
<1> SUFFICES ASSUME PostIInv, [PostNext]_postVars PROVE PostIInv'
  OBVIOUS
<1>1. CASE UNCHANGED postVars
  <2>1. UNCHANGED <<server, cell, call, stray, reading, odd>>
    BY <1>1 DEF postVars
  <2>2. PostTyped' /\ AsksForOpposite'
    BY <2>1 DEF PostIInv, PostTyped, AsksForOpposite
  <2>3. ASSUME NEW d \in Cells \ odd PROVE (ToBeTold(d) \/ CellFollows(d))'
    BY <2>1, LeftAlone, StaysToBeTold DEF PostIInv
  <2> QED BY <2>1, <2>2, <2>3 DEF PostIInv
<1>2. CASE PostNext
  <2>1. CASE PostProgress
    BY <2>1, CallServedKeeps, AnswerHeardKeeps, StrayServedKeeps, AskingKeeps, ReadOverKeeps
    DEF PostProgress
  <2>2. CASE \E p \in {"list", "detail"} :
               handleLike(p) \/ handleCollect(p) \/ handleFollow(p) \/ Unmount(p)
    BY <2>2, ClicksKeep, UnmountKeeps
  <2>3. CASE handleProfileFollow
    BY <2>3, ClicksKeep
  <2>4. CASE OpenDetail
    BY <2>4, AskingKeeps DEF Places
  <2>5. CASE \E c \in Cells : CallFails(c)
    BY <2>5, CallFailsKeeps
  <2>6. CASE \E p \in Places : PlaceRefetch(p) \/ ReadFails(p)
    BY <2>6, AskingKeeps, ReadOverKeeps
  <2>7. CASE \E k \in Kinds : Elsewhere(k)
    BY <2>7, ElsewhereKeeps
  <2> QED BY <1>2, <2>1, <2>2, <2>3, <2>4, <2>5, <2>6, <2>7 DEF PostNext
<1> QED BY <1>1, <1>2

LEMMA PlacesAgree == PostIInv => PlacesAgreeAtRest
<1> SUFFICES ASSUME PostIInv, PostAtRest, NEW c \in Cells \ odd
             PROVE  SameAs(c, server[c[2]])
  BY DEF PlacesAgreeAtRest
<1>1. call[c].step = "none" /\ ~ToBeTold(c)
  BY DEF PostAtRest, ToBeTold, Places
<1>2. Like(c, cell[c], server[c[2]])
  BY <1>1 DEF PostIInv, CellFollows
<1> QED BY <1>2 DEF Like, SameAs

\* When all is answered, every toggle of a post and of its author shows what
\* the server has, unless something has come across it; and the counter of a
\* comment goes with its thumb.
THEOREM TogglesCorrect == ClientSpec => []TogglesAgree
<1>1. PostIInv /\ ThumbIInv => TogglesAgree
  BY PlacesAgree, ThumbInStep DEF TogglesAgree
<1> QED BY <1>1, PartsImplemented, PostInitIInv, PostNextKeeps, ThumbInitIInv, ThumbNextKeeps, PTL

-----------------------------------------------------------------------------
(***************************************************************************)
(* The search boxes.                                                        *)
(***************************************************************************)
SearchTyped ==
  /\ text \in Texts /\ debounced \in Texts /\ searchText \in Texts
  /\ url \in [tab : RelationTabs, query : Texts]
  /\ visited \subseteq Texts
  /\ DOMAIN asking = Channels /\ timer \in BOOLEAN

\* With no timeout running, the debounced text is what the input shows; and
\* the list, or the request for it, is the one of the URL.
SearchIInv ==
  /\ SearchTyped
  /\ ~timer => debounced = text
  /\ box = "none" => list = NoRequest /\ asking["list"] = NoRequest
  /\ box = "relation" => {list, asking["list"]} \subseteq {NoRequest, RelationRequest(url)}


\* Trimming a text once is enough.
LEMMA Trimmed ==
  /\ Trim(Blank) = Blank /\ Blank \in Texts
  /\ \A t \in Texts : Trim(t) \in Texts /\ Trim(Trim(t)) = Trim(t)
<1>1. Blank \in Texts /\ ~Blank.padded
  BY DEF Blank, Texts
<1>2. ASSUME NEW t \in Texts
      PROVE  Trim(t) \in Texts /\ Trim(Trim(t)) = Trim(t) /\ (~t.padded => Trim(t) = t)
  BY DEF Trim, Texts
<1> QED BY <1>1, <1>2

LEMMA SearchInitIInv == SearchInit => SearchIInv
<1> SUFFICES ASSUME SearchInit PROVE SearchIInv
  OBVIOUS
<1>1. Blank \in Texts /\ "following" \in RelationTabs
  BY Trimmed DEF RelationTabs
<1>2. SearchTyped
  BY <1>1 DEF SearchInit, SearchTyped
<1>3. asking["list"] = NoRequest
  BY DEF SearchInit, Channels
<1> QED BY <1>2, <1>3 DEF SearchInit, SearchIInv

\* The URL that a text leads to.
LEMMA QueryUrlTyped ==
  ASSUME SearchTyped, NEW t \in Texts
  PROVE  /\ QueryUrl(t) \in [tab : RelationTabs, query : Texts]
         /\ QueryUrl(t).tab = url.tab /\ Trim(QueryUrl(t).query) = Trim(t)
<1>1. QueryUrl(t) = [tab |-> url.tab, query |-> IF Trim(t) = Blank THEN Blank ELSE t]
  BY DEF QueryUrl, SearchTyped
<1> QED BY <1>1, Trimmed DEF SearchTyped

\* Another URL replaces the list by a request for its own.
LEMMA NavigateKeeps ==
  ASSUME SearchIInv, NEW u \in [tab : RelationTabs, query : Texts], Navigate(u),
         box = "relation", visited' \subseteq Texts, UNCHANGED <<box, debounced, searchText>>
  PROVE  SearchIInv'
<1>1. SearchTyped /\ Trim(u.query) \in Texts /\ url' = u
  BY Trimmed DEF SearchIInv, Navigate
<1>2. SearchTyped'
  BY <1>1 DEF SearchTyped, Navigate
<1>3. ~timer' => debounced' = text'
  BY DEF SearchIInv, Navigate
<1>4. {list', asking'["list"]} \subseteq {NoRequest, RelationRequest(u)}
  BY <1>1 DEF SearchIInv, SearchTyped, Navigate, Channels
<1>5. RelationRequest(url)' = RelationRequest(u) /\ box' # "none"
  BY <1>1 DEF RelationRequest
<1> QED BY <1>2, <1>3, <1>4, <1>5 DEF SearchIInv

LEMMA UrlChangesKeep ==
  ASSUME SearchIInv,
         \/ SyncQuery
         \/ \E t \in Texts : GoBack(t)
         \/ \E to \in RelationTabs : handleTabChange(to)
  PROVE  SearchIInv'
<1>1. SearchTyped /\ debounced \in Texts /\ url \in [tab : RelationTabs, query : Texts]
      /\ visited \subseteq Texts
  BY DEF SearchIInv, SearchTyped
<1>2. CASE SyncQuery
  BY <1>1, <1>2, QueryUrlTyped, NavigateKeeps DEF SyncQuery
<1>3. ASSUME NEW t \in Texts, GoBack(t) PROVE SearchIInv'
  BY <1>1, <1>3, NavigateKeeps DEF GoBack
<1>4. ASSUME NEW to \in RelationTabs, handleTabChange(to) PROVE SearchIInv'
  BY <1>1, <1>4, NavigateKeeps DEF handleTabChange
<1> QED BY <1>2, <1>3, <1>4

\* What does not touch the list of relations.
LEMMA DialogKeeps ==
  ASSUME SearchIInv,
         \/ Debounce \/ handleSearch
         \/ \E t \in Texts : Type(t)
         \/ \E nextOpen \in BOOLEAN : handleOpenChange(nextOpen)
  PROVE  SearchIInv'
<1>1. SearchTyped /\ UNCHANGED <<box, list, url>>
  BY DEF SearchIInv, Debounce, handleSearch, Type, handleOpenChange
<1>2. DOMAIN asking' = Channels /\ asking'["list"] = asking["list"]
  <2>1. ASSUME NEW isOpen, NEW t, SuggestFor(isOpen, t)
        PROVE  DOMAIN asking' = Channels /\ asking'["list"] = asking["list"]
    BY <2>1 DEF SuggestFor, Channels
  <2> QED BY <1>1, <2>1 DEF Debounce, handleSearch, Type, handleOpenChange, SearchTyped
<1>3. /\ text' \in Texts /\ debounced' \in Texts /\ searchText' \in Texts
      /\ visited' \subseteq Texts /\ timer' \in BOOLEAN
  BY <1>1, Trimmed DEF SearchTyped, Debounce, handleSearch, Type, handleOpenChange
<1>4. ~timer' => debounced' = text'
  BY DEF SearchIInv, Debounce, handleSearch, Type, handleOpenChange
<1>5. RelationRequest(url)' = RelationRequest(url)
  BY <1>1 DEF RelationRequest
<1> QED BY <1>1, <1>2, <1>3, <1>4, <1>5 DEF SearchIInv, SearchTyped

LEMMA RequestsKeep ==
  ASSUME SearchIInv,
         SearchMount \/ \E c \in Channels : SearchAnswered(c) \/ SearchFails(c)
  PROVE  SearchIInv'
<1>1. SearchTyped /\ UNCHANGED <<text, debounced, timer, url, visited, searchText>>
  BY DEF SearchIInv, SearchMount, SearchAnswered, SearchFails
<1>2. RelationRequest(url)' = RelationRequest(url)
  BY <1>1 DEF RelationRequest
<1>3. CASE SearchMount
  <2>1. /\ list' = NoRequest /\ box' # "none"
        /\ DOMAIN asking' = Channels
        /\ box' = "relation" => asking'["list"] = RelationRequest(url)
    BY <1>1, <1>3 DEF SearchIInv, SearchTyped, SearchMount, Channels
  <2> QED BY <1>1, <1>2, <2>1 DEF SearchIInv, SearchTyped
<1>4. ASSUME NEW c \in Channels, SearchAnswered(c) \/ SearchFails(c) PROVE SearchIInv'
  <2>1. /\ box' = box /\ DOMAIN asking' = Channels
        /\ list' \in {list, asking["list"]} /\ asking'["list"] \in {NoRequest, asking["list"]}
    BY <1>1, <1>4 DEF SearchTyped, SearchAnswered, SearchFails, Channels
  <2> QED BY <1>1, <1>2, <2>1 DEF SearchIInv, SearchTyped
<1> QED BY <1>3, <1>4

LEMMA SearchNextKeeps == SearchIInv /\ [SearchNext]_searchVars => SearchIInv'
<1> SUFFICES ASSUME SearchIInv, [SearchNext]_searchVars PROVE SearchIInv'
  OBVIOUS
<1>1. CASE UNCHANGED searchVars
  BY <1>1 DEF searchVars, SearchIInv, SearchTyped, RelationRequest
<1>2. CASE SearchNext
  BY <1>2, UrlChangesKeep, DialogKeeps, RequestsKeep DEF SearchNext, SearchProgress
<1> QED BY <1>1, <1>2

LEMMA AnswersMatch == SearchIInv => AnswersMatchBox
<1> SUFFICES ASSUME SearchIInv, SearchAtRest
             PROVE  /\ box = "relation" =>
                         /\ Trim(text) = Trim(url.query)
                         /\ list \in {NoRequest, RelationRequest([url EXCEPT !.query = text])}
                    /\ box = "search" /\ open => \A k \in Suggest : Displays(k) \in {Blank, text}
  BY DEF AnswersMatchBox
<1>1. SearchTyped /\ debounced = text /\ text \in Texts /\ url.query \in Texts
      /\ \A c \in Channels : asking[c] = NoRequest
  BY DEF SearchIInv, SearchTyped, SearchAtRest
<1>2. ASSUME box = "relation"
      PROVE  /\ Trim(text) = Trim(url.query)
             /\ list \in {NoRequest, RelationRequest([url EXCEPT !.query = text])}
  <2>1. Trim(text) = Trim(url.query)
    BY <1>1, <1>2, Trimmed, QueryUrlTyped DEF SearchAtRest, Synced
  <2>2. [url EXCEPT !.query = text].tab = url.tab /\ [url EXCEPT !.query = text].query = text
    BY <1>1 DEF SearchTyped
  <2>3. RelationRequest([url EXCEPT !.query = text]) = RelationRequest(url)
    BY <2>1, <2>2 DEF RelationRequest
  <2> QED BY <1>2, <2>1, <2>3 DEF SearchIInv
<1>3. ASSUME NEW k \in Suggest PROVE Displays(k) \in {Blank, text}
  BY <1>1 DEF Displays, Channels
<1> QED BY <1>2, <1>3

\* At rest, what is listed answers what the search boxes say, however the
\* text, the URL and the dialog were changed on the way.
THEOREM SearchesCorrect == ClientSpec => []AnswersMatchBox
BY AnswersMatch, PartsImplemented, SearchInitIInv, SearchNextKeeps, PTL

-----------------------------------------------------------------------------
(***************************************************************************)
(* The account forms.                                                       *)
(***************************************************************************)
AccountTyped ==
  /\ account \in Users /\ me \in Users /\ profile \in Users /\ wanted \in Users
  /\ signUp \in [step : {"none", "sent", "put", "done"}, picture : Nat]
  /\ avatarUp \in [step : {"none", "sent", "stored"}, picture : Nat]
  /\ update \in [step : {"none", "sent", "saved"}, user : Users]
  /\ meRead \in [step : {"none", "asked", "served"}, saved : BOOLEAN, user : Users]
  /\ pictures \subseteq Nat
  /\ accountBudget \in [signUps : 0 .. MaxSignUps, edits : 0 .. MaxEdits, saves : Nat,
                        reads : Nat, faults : Nat]

\* Before there is an account nothing is shown or saved, and while a sign-up
\* is in its transaction there is none; the numbers in use are not 0.
AccountGrows ==
  /\ signUp.step \in {"sent", "put"} => signUp.picture # 0
  /\ signUp.step = "put" => account = Untouched
  /\ account = Untouched => me = Untouched
  /\ account # Untouched => \A f \in Fields : account[f] # 0
  /\ me = Untouched => /\ profile = Untouched /\ wanted = Untouched
                       /\ avatarUp.step = "none" /\ update.step = "none"
                       /\ meRead = NoMeRead
  /\ meRead.step = "served" => meRead.user # Untouched
  /\ meRead.saved => meRead.step # "none"
  /\ avatarUp.step # "none" => avatarUp.picture # 0

\* Every avatar that anything refers to is stored.
PicturesStored ==
  /\ signUp.step = "put" => signUp.picture \in pictures
  /\ avatarUp.step = "stored" => avatarUp.picture \in pictures
  /\ account # Untouched => account["avatar"] \in pictures
  /\ me # Untouched => me["avatar"] \in pictures
  /\ meRead.step = "served" => meRead.user["avatar"] \in pictures
  /\ profile["avatar"] # 0 => profile["avatar"] \in pictures
  /\ update.step = "sent" /\ update.user["avatar"] # 0 => update.user["avatar"] \in pictures

\* While nothing has come across the edits: an edit is in the overlay, or it
\* has been saved and every answer has it; and a save is of the overlay, which
\* the account then has, and the answer that its end waits for.
EditsKept ==
  /\ \A f \in Fields : wanted[f] # 0 =>
       \/ profile[f] = wanted[f]
       \/ /\ profile[f] = 0 /\ me[f] = wanted[f] /\ account[f] = wanted[f]
          /\ meRead.step = "served" => meRead.user[f] = wanted[f]
  /\ update.step # "none" => update.user = profile /\ ~meRead.saved
  /\ update.step = "saved" \/ meRead.saved =>
       \A f \in Fields : profile[f] # 0 =>
         /\ account[f] = profile[f]
         /\ meRead.saved /\ meRead.step = "served" => meRead.user[f] = profile[f]

\* While no answer has been lost: the profile center shows the account, or is
\* about to ask for it.
MeFollows ==
  me # Untouched =>
    /\ me = account \/ update.step = "saved" \/ meRead.step # "none"
    /\ meRead.step = "served" => meRead.user = account \/ update.step = "saved"

AccountIInv ==
  /\ AccountTyped
  /\ AccountGrows
  /\ PicturesStored
  /\ crossed = {} => EditsKept
  /\ crossed \intersect {"lost", "unread"} = {} => MeFollows


Budgets ==
  [signUps : 0 .. MaxSignUps, edits : 0 .. MaxEdits, saves : Nat, reads : Nat, faults : Nat]

\* Nobody has a number, and the start of every record.
LEMMA AccountConstants ==
  /\ Untouched \in Users /\ \A f \in Fields : Untouched[f] = 0
  /\ "avatar" \in Fields /\ "nickname" \in Fields
  /\ NoUpload = [step |-> "none", picture |-> 0]
  /\ NoUpload \in [step : {"none", "sent", "put", "done"}, picture : Nat]
  /\ NoUpload \in [step : {"none", "sent", "stored"}, picture : Nat]
  /\ NoUpdate.step = "none" /\ NoUpdate.user = Untouched
  /\ NoUpdate \in [step : {"none", "sent", "saved"}, user : Users]
  /\ NoMeRead.step = "none" /\ NoMeRead.saved = FALSE /\ NoMeRead.user = Untouched
  /\ NoMeRead \in [step : {"none", "asked", "served"}, saved : BOOLEAN, user : Users]
<1>1. Untouched \in Users /\ \A f \in Fields : Untouched[f] = 0
  BY DEF Untouched, Users
<1>2. "avatar" \in Fields /\ "nickname" \in Fields
  BY DEF Fields
<1> QED BY <1>1, <1>2 DEF NoUpload, NoUpdate, NoMeRead

LEMMA AccountInitIInv == AccountInit => AccountIInv
<1> SUFFICES ASSUME AccountInit PROVE AccountIInv
  OBVIOUS
<1>1. AccountTyped
  BY AccountConstants, AccountBounds DEF AccountInit, AccountTyped
<1>2. AccountGrows
  BY AccountConstants DEF AccountInit, AccountGrows
<1>3. PicturesStored
  BY AccountConstants DEF AccountInit, PicturesStored
<1>4. EditsKept
  BY AccountConstants DEF AccountInit, EditsKept
<1>5. MeFollows
  BY DEF AccountInit, MeFollows
<1> QED BY <1>1, <1>2, <1>3, <1>4, <1>5 DEF AccountIInv

\* A number that has not been used is none that means "not edited".
LEMMA FreshTyped ==
  ASSUME AccountTyped
  PROVE  Fresh \in Nat \ {0}
<1>1. accountBudget.signUps \in 0 .. MaxSignUps /\ accountBudget.edits \in 0 .. MaxEdits
  BY DEF AccountTyped
<1> QED BY <1>1, AccountBounds DEF Fresh

LEMMA AccountSpendTyped ==
  ASSUME AccountTyped,
         \E what \in {"signUps", "edits", "saves", "reads", "faults"} : AccountSpend(what)
  PROVE  accountBudget' \in Budgets
<1>1. accountBudget \in Budgets
  BY DEF AccountTyped, Budgets
<1>2. CASE AccountSpend("signUps")
  BY <1>1, <1>2, AccountBounds DEF AccountSpend, Budgets
<1>3. CASE AccountSpend("edits")
  BY <1>1, <1>3, AccountBounds DEF AccountSpend, Budgets
<1>4. CASE AccountSpend("saves")
  BY <1>1, <1>4 DEF AccountSpend, Budgets
<1>5. CASE AccountSpend("reads")
  BY <1>1, <1>5 DEF AccountSpend, Budgets
<1>6. CASE AccountSpend("faults")
  BY <1>1, <1>6 DEF AccountSpend, Budgets
<1> QED BY <1>2, <1>3, <1>4, <1>5, <1>6

\* The steps of the sign-up: until they are over there is nothing to edit.
LEMMA SignUpKeeps ==
  ASSUME AccountIInv,
         SubmitSignUp \/ PutDefaultAvatar \/ CommitUser \/ SignUpFails \/ OpenProfileCenter
  PROVE  AccountIInv'
<1>1. /\ AccountTyped /\ AccountGrows /\ PicturesStored
      /\ UNCHANGED <<profile, avatarUp, update, meRead, wanted, crossed>>
  BY DEF AccountIInv, SubmitSignUp, PutDefaultAvatar, CommitUser, SignUpFails, OpenProfileCenter
<1>2. accountBudget' \in Budgets
  BY <1>1, AccountSpendTyped DEF SubmitSignUp, PutDefaultAvatar, CommitUser, SignUpFails,
     OpenProfileCenter, AccountTyped, Budgets
<1>3. /\ pictures \subseteq pictures' /\ pictures' \subseteq Nat
      /\ me' \in {me, account} /\ (me' # me => me = Untouched /\ account # Untouched)
  BY <1>1 DEF SubmitSignUp, PutDefaultAvatar, CommitUser, SignUpFails, OpenProfileCenter,
     AccountTyped
<1>4. CASE account' = account
  <2>1. AccountTyped'
    <3>1. signUp' \in [step : {"none", "sent", "put", "done"}, picture : Nat]
      BY <1>1, <1>4, AccountConstants, FreshTyped
      DEF SubmitSignUp, PutDefaultAvatar, CommitUser, SignUpFails, OpenProfileCenter,
          AccountTyped, userServiceCreateUser, Post, Request
    <3> QED BY <1>1, <1>2, <1>3, <1>4, <3>1 DEF AccountTyped, Budgets
  <2>2. /\ signUp'.step \in {"sent", "put"} => signUp'.picture # 0
        /\ signUp'.step = "put" => account = Untouched /\ signUp'.picture \in pictures'
    BY <1>1, <1>4, AccountConstants, FreshTyped
    DEF SubmitSignUp, PutDefaultAvatar, CommitUser, SignUpFails, OpenProfileCenter,
        AccountTyped, AccountGrows, PicturesStored, userServiceCreateUser, Post, Request
  <2>3. AccountGrows'
    BY <1>1, <1>3, <1>4, <2>2 DEF AccountGrows
  <2>4. PicturesStored'
    BY <1>1, <1>3, <1>4, <2>2 DEF PicturesStored
  <2>5. EditsKept => EditsKept'
    BY <1>1, <1>3, <1>4, AccountConstants DEF EditsKept, AccountGrows
  <2>6. MeFollows => MeFollows'
    BY <1>1, <1>3, <1>4, AccountConstants DEF MeFollows, AccountGrows
  <2> QED BY <1>1, <2>1, <2>3, <2>4, <2>5, <2>6 DEF AccountIInv
<1>5. CASE CommitUser
  <2> DEFINE p == signUp.picture
  <2>1. /\ p \in Nat \ {0} /\ p \in pictures /\ pictures' = pictures
        /\ account' = [nickname |-> p, avatar |-> p]
        /\ account = Untouched /\ me = Untouched /\ me' = Untouched
        /\ profile = Untouched /\ wanted = Untouched /\ update.step = "none"
        /\ meRead = NoMeRead
        /\ signUp'.step = "done"
        /\ signUp' \in [step : {"none", "sent", "put", "done"}, picture : Nat]
    BY <1>1, <1>5 DEF CommitUser, AccountTyped, AccountGrows, PicturesStored
  <2> HIDE DEF p
  <2>2. account' \in Users /\ account'["avatar"] = p /\ \A f \in Fields : account'[f] # 0
    BY <2>1 DEF Users, Fields
  <2>3. AccountTyped'
    BY <1>1, <1>2, <1>3, <2>1, <2>2 DEF AccountTyped, Budgets
  <2>4. AccountGrows'
    BY <1>1, <2>1, <2>2, AccountConstants DEF AccountGrows
  <2>5. PicturesStored'
    BY <1>1, <2>1, <2>2 DEF PicturesStored
  <2>6. EditsKept' /\ MeFollows'
    BY <1>1, <2>1, AccountConstants DEF EditsKept, MeFollows
  <2> QED BY <2>3, <2>4, <2>5, <2>6 DEF AccountIInv
<1> QED BY <1>4, <1>5 DEF SubmitSignUp, PutDefaultAvatar, SignUpFails, OpenProfileCenter

\* A change of the overlay, when no save is under way.
LEMMA EditKeeps ==
  ASSUME AccountTyped, crossed = {} => EditsKept,
         profile' \in Users, wanted' \in Users,
         \A f \in Fields : \/ profile'[f] = profile[f] /\ wanted'[f] = wanted[f]
                           \/ profile'[f] = wanted'[f],
         crossed' = IF Saving THEN crossed \union {"edit"} ELSE crossed,
         UNCHANGED <<me, account, update, meRead>>, crossed' = {}
  PROVE  EditsKept'
<1>1. EditsKept /\ update.step = "none" /\ ~meRead.saved
  BY DEF Saving
<1>2. ASSUME NEW f \in Fields, wanted'[f] # 0
      PROVE  \/ profile'[f] = wanted'[f]
             \/ /\ profile'[f] = 0 /\ me[f] = wanted'[f] /\ account[f] = wanted'[f]
                /\ meRead.step = "served" => meRead.user[f] = wanted'[f]
  BY <1>1, <1>2 DEF EditsKept
<1> QED BY <1>1, <1>2 DEF EditsKept

\* The edits, and the upload of an avatar.
LEMMA EditsKeep ==
  ASSUME AccountIInv,
         \/ EditNickname \/ ChooseAvatar \/ AvatarStored \/ AvatarShown \/ AvatarFails
         \/ onResetProfileForm
  PROVE  AccountIInv'
<1>1. /\ AccountTyped /\ AccountGrows /\ PicturesStored
      /\ UNCHANGED <<signUp, account, me, update, meRead>>
  BY DEF AccountIInv, EditNickname, ChooseAvatar, AvatarStored, AvatarShown, AvatarFails,
     onResetProfileForm
<1>2. accountBudget' \in Budgets
  BY <1>1, AccountSpendTyped DEF EditNickname, ChooseAvatar, AvatarStored, AvatarShown,
     AvatarFails, onResetProfileForm, AccountTyped, Budgets
<1>3. me # Untouched
  <2>1. profile # Untouched \/ avatarUp.step # "none" => me # Untouched
    BY <1>1 DEF AccountGrows
  <2> QED BY <2>1 DEF EditNickname, ChooseAvatar, AvatarStored, AvatarShown, AvatarFails,
          onResetProfileForm
<1>4. account # Untouched
  BY <1>1, <1>3 DEF AccountGrows
<1>5. CASE ChooseAvatar \/ AvatarStored \/ AvatarFails
  <2>1. UNCHANGED <<profile, wanted, crossed>>
    BY <1>5 DEF ChooseAvatar, AvatarStored, AvatarFails
  <2>2. /\ avatarUp' \in [step : {"none", "sent", "stored"}, picture : Nat]
        /\ avatarUp'.step # "none" => avatarUp'.picture # 0
        /\ avatarUp'.step = "stored" => avatarUp'.picture \in pictures'
        /\ pictures \subseteq pictures' /\ pictures' \subseteq Nat
    BY <1>1, <1>5, AccountConstants, FreshTyped
    DEF ChooseAvatar, AvatarStored, AvatarFails, AccountTyped, AccountGrows, PicturesStored,
        fileServiceUploadFile, Post, Request
  <2>3. AccountTyped'
    BY <1>1, <1>2, <2>1, <2>2 DEF AccountTyped, Budgets
  <2>4. AccountGrows'
    BY <1>1, <1>3, <2>1, <2>2 DEF AccountGrows
  <2>5. PicturesStored'
    BY <1>1, <2>1, <2>2 DEF PicturesStored
  <2>6. (EditsKept => EditsKept') /\ (MeFollows => MeFollows')
    BY <1>1, <2>1 DEF EditsKept, MeFollows
  <2> QED BY <2>1, <2>3, <2>4, <2>5, <2>6 DEF AccountIInv
<1>6. CASE EditNickname \/ AvatarShown \/ onResetProfileForm
  <2>1. UNCHANGED pictures
        /\ crossed' = IF Saving THEN crossed \union {"edit"} ELSE crossed
    BY <1>6 DEF EditNickname, AvatarShown, onResetProfileForm, Edit
  <2>2. /\ profile' \in Users /\ wanted' \in Users
        /\ \A f \in Fields : \/ profile'[f] = profile[f] /\ wanted'[f] = wanted[f]
                             \/ profile'[f] = wanted'[f]
    BY <1>1, <1>6, AccountConstants, FreshTyped
    DEF EditNickname, AvatarShown, onResetProfileForm, Edit, AccountTyped, Users
  <2>3. profile'["avatar"] # 0 => profile'["avatar"] \in pictures
    BY <1>1, <1>6, AccountConstants
    DEF EditNickname, AvatarShown, onResetProfileForm, Edit, AccountTyped, Users, PicturesStored
  <2>4. avatarUp' \in {avatarUp, NoUpload}
    BY <1>6 DEF EditNickname, AvatarShown, onResetProfileForm
  <2>5. AccountTyped'
    BY <1>1, <1>2, <2>1, <2>2, <2>4, AccountConstants DEF AccountTyped, Budgets
  <2>6. AccountGrows'
    BY <1>1, <1>3, <2>4, AccountConstants DEF AccountGrows
  <2>7. PicturesStored'
    BY <1>1, <2>1, <2>3, <2>4, AccountConstants DEF PicturesStored
  <2>8. crossed' = {} => EditsKept'
    BY <1>1, <2>1, <2>2, EditKeeps DEF AccountIInv
  <2>9. crossed' \intersect {"lost", "unread"} = {} => MeFollows'
    BY <1>1, <2>1 DEF AccountIInv, MeFollows
  <2> QED BY <2>5, <2>6, <2>7, <2>8, <2>9 DEF AccountIInv
<1> QED BY <1>5, <1>6

\* A save: what is sent is the overlay, and what it says is then the account's.
LEMMA SubmitKeeps ==
  ASSUME AccountIInv, handleProfileSubmit
  PROVE  AccountIInv'
<1>1. /\ AccountTyped /\ AccountGrows /\ PicturesStored
      /\ UNCHANGED <<signUp, account, pictures, me, profile, avatarUp, meRead, wanted>>
      /\ me # Untouched /\ update.step = "none"
      /\ update' = [step |-> "sent", user |-> profile]
      /\ crossed' = IF Saving THEN crossed \union {"edit"} ELSE crossed
  BY DEF AccountIInv, handleProfileSubmit, userServiceUpdateMe, Request
<1>2. accountBudget' \in Budgets
  BY <1>1, AccountSpendTyped DEF handleProfileSubmit
<1>3. AccountTyped'
  BY <1>1, <1>2 DEF AccountTyped, Budgets
<1>4. AccountGrows'
  BY <1>1 DEF AccountGrows
<1>5. PicturesStored'
  BY <1>1 DEF PicturesStored
<1>6. ASSUME crossed' = {} PROVE EditsKept'
  <2>1. EditsKept /\ ~meRead.saved
    BY <1>1, <1>6 DEF AccountIInv, Saving
  <2> QED BY <1>1, <2>1 DEF EditsKept
<1>7. ASSUME crossed' \intersect {"lost", "unread"} = {} PROVE MeFollows'
  <2>1. MeFollows
    BY <1>1, <1>7 DEF AccountIInv
  <2> QED BY <1>1, <2>1 DEF MeFollows
<1> QED BY <1>3, <1>4, <1>5, <1>6, <1>7 DEF AccountIInv

LEMMA UpdateServedKeeps ==
  ASSUME AccountIInv, UpdateServed
  PROVE  AccountIInv'
<1>1. /\ AccountTyped /\ AccountGrows /\ PicturesStored
      /\ UNCHANGED <<signUp, pictures, me, profile, avatarUp, meRead, wanted, crossed,
                     accountBudget>>
      /\ update.step = "sent" /\ update.user \in Users
      /\ update' = [step |-> "saved", user |-> update.user]
      /\ account' = [f \in Fields |-> IF update.user[f] = 0 THEN account[f] ELSE update.user[f]]
  BY DEF AccountIInv, UpdateServed, AccountTyped
<1>2. me # Untouched /\ account # Untouched /\ signUp.step # "put"
  BY <1>1 DEF AccountGrows
<1>3. account' \in Users /\ \A f \in Fields : account'[f] # 0
  BY <1>1, <1>2 DEF AccountTyped, AccountGrows, Users
<1>4. account' # Untouched
  BY <1>3, AccountConstants
<1>5. AccountTyped'
  BY <1>1, <1>3 DEF AccountTyped
<1>6. AccountGrows'
  BY <1>1, <1>2, <1>3, <1>4 DEF AccountGrows
<1>7. PicturesStored'
  <2>1. account'["avatar"] \in pictures
    BY <1>1, <1>2, AccountConstants DEF PicturesStored
  <2> QED BY <1>1, <1>2, <2>1 DEF PicturesStored
<1>8. ASSUME EditsKept PROVE EditsKept'
  <2>1. update.user = profile /\ ~meRead.saved
    BY <1>1, <1>8 DEF EditsKept
  <2>2. \A f \in Fields : account'[f] = IF profile[f] = 0 THEN account[f] ELSE profile[f]
    BY <1>1, <2>1
  <2> QED BY <1>1, <1>8, <2>1, <2>2 DEF EditsKept
<1>9. MeFollows'
  BY <1>1 DEF MeFollows
<1> QED BY <1>1, <1>5, <1>6, <1>7, <1>8, <1>9 DEF AccountIInv

LEMMA UpdateOverKeeps ==
  ASSUME AccountIInv, UpdateFails \/ Saved
  PROVE  AccountIInv'
<1>1. /\ AccountTyped /\ AccountGrows /\ PicturesStored
      /\ UNCHANGED <<signUp, account, pictures, me, avatarUp, wanted>>
      /\ update.step # "none" /\ update' = NoUpdate /\ profile' \in {profile, Untouched}
      /\ crossed \subseteq crossed'
  BY DEF AccountIInv, UpdateFails, Saved
<1>2. me # Untouched
  BY <1>1 DEF AccountGrows
<1>3. accountBudget' \in Budgets
  BY <1>1, AccountSpendTyped DEF UpdateFails, Saved, AccountTyped, Budgets
<1> DEFINE asked == [NoMeRead EXCEPT !.step = "asked", !.saved = TRUE]
<1>4. /\ asked \in [step : {"none", "asked", "served"}, saved : BOOLEAN, user : Users]
      /\ asked.step = "asked" /\ asked.saved
  BY AccountConstants
<1>5. meRead' \in {meRead, asked}
  BY DEF UpdateFails, Saved
<1> HIDE DEF asked
<1>6. AccountTyped'
  BY <1>1, <1>3, <1>4, <1>5, AccountConstants DEF AccountTyped, Budgets
<1>7. AccountGrows'
  BY <1>1, <1>2, <1>4, <1>5, AccountConstants DEF AccountGrows
<1>8. PicturesStored'
  BY <1>1, <1>4, <1>5, AccountConstants DEF PicturesStored
<1>9. CASE UpdateFails
  <2>1. meRead' = meRead /\ profile' = profile
        /\ (update.step = "saved" => "lost" \in crossed')
    BY <1>9 DEF UpdateFails
  <2>2. ASSUME crossed' = {} PROVE EditsKept'
    <3>1. EditsKept
      BY <1>1, <2>2 DEF AccountIInv
    <3> QED BY <1>1, <2>1, <3>1, AccountConstants DEF EditsKept
  <2>3. ASSUME crossed' \intersect {"lost", "unread"} = {} PROVE MeFollows'
    <3>1. MeFollows /\ update.step # "saved"
      BY <1>1, <2>1, <2>3 DEF AccountIInv
    <3> QED BY <1>1, <2>1, <3>1 DEF MeFollows
  <2> QED BY <1>6, <1>7, <1>8, <2>2, <2>3 DEF AccountIInv
<1>10. CASE Saved
  <2>1. update.step = "saved" /\ meRead' = asked /\ crossed' = crossed
        /\ (~meRead.saved => profile' = profile)
    BY <1>10 DEF Saved, asked
  <2>2. ASSUME EditsKept PROVE EditsKept'
    <3>1. profile' = profile
      BY <1>1, <2>1, <2>2 DEF EditsKept
    <3> QED BY <1>1, <1>4, <2>1, <2>2, <3>1, AccountConstants DEF EditsKept
  <2>3. MeFollows'
    BY <1>1, <1>4, <2>1 DEF MeFollows
  <2> QED BY <1>6, <1>7, <1>8, <2>1, <2>2, <2>3 DEF AccountIInv
<1> QED BY <1>9, <1>10

\* The profile is read again, and the overlay goes when what was saved is there.
LEMMA MeAskedKeeps ==
  ASSUME AccountIInv, FocusMe \/ MeServed
  PROVE  AccountIInv'
<1>1. /\ AccountTyped /\ AccountGrows /\ PicturesStored
      /\ UNCHANGED <<signUp, account, pictures, me, profile, avatarUp, update, wanted, crossed>>
  BY DEF AccountIInv, FocusMe, MeServed
<1>2. me # Untouched /\ account # Untouched
  BY <1>1, AccountConstants DEF AccountGrows, FocusMe, MeServed
<1>3. accountBudget' \in Budgets
  BY <1>1, AccountSpendTyped DEF FocusMe, MeServed, AccountTyped, Budgets
<1>4. /\ meRead' \in [step : {"none", "asked", "served"}, saved : BOOLEAN, user : Users]
      /\ meRead'.step # "none" /\ (meRead'.saved => meRead.saved)
      /\ meRead'.step = "served" => meRead'.user = account
  <2>1. CASE FocusMe
    BY <2>1, AccountConstants DEF FocusMe
  <2>2. CASE MeServed
    <3>1. /\ meRead \in [step : {"none", "asked", "served"}, saved : BOOLEAN, user : Users]
          /\ account \in Users
      BY <1>1 DEF AccountTyped
    <3> QED BY <2>2, <3>1 DEF MeServed
  <2> QED BY <2>1, <2>2
<1>5. AccountTyped'
  BY <1>1, <1>3, <1>4 DEF AccountTyped, Budgets
<1>6. AccountGrows'
  BY <1>1, <1>2, <1>4 DEF AccountGrows
<1>7. PicturesStored'
  BY <1>1, <1>2, <1>4 DEF PicturesStored
<1>8. EditsKept => EditsKept'
  BY <1>1, <1>4 DEF EditsKept
<1>9. MeFollows'
  BY <1>1, <1>4 DEF MeFollows
<1> QED BY <1>1, <1>5, <1>6, <1>7, <1>8, <1>9 DEF AccountIInv

LEMMA MeOverKeeps ==
  ASSUME AccountIInv, MeShown \/ MeFails
  PROVE  AccountIInv'
<1>1. /\ AccountTyped /\ AccountGrows /\ PicturesStored
      /\ UNCHANGED <<signUp, account, pictures, avatarUp, update, wanted>>
      /\ profile' = IF meRead.saved THEN Untouched ELSE profile
      /\ meRead' = NoMeRead /\ meRead.step # "none" /\ me' \in {me, meRead.user}
  BY DEF AccountIInv, MeShown, MeFails
<1>2. me # Untouched /\ account # Untouched
  BY <1>1, AccountConstants DEF AccountGrows
<1>3. me' # Untouched
  BY <1>1, <1>2 DEF MeShown, MeFails, AccountGrows
<1>4. accountBudget' \in Budgets
  BY <1>1, AccountSpendTyped DEF MeShown, MeFails, AccountTyped, Budgets
<1>5. AccountTyped'
  BY <1>1, <1>4, AccountConstants DEF AccountTyped, Budgets
<1>6. AccountGrows'
  BY <1>1, <1>2, <1>3, AccountConstants DEF AccountGrows
<1>7. PicturesStored'
  <2>1. me'["avatar"] \in pictures
    BY <1>1, <1>2 DEF PicturesStored, MeShown, MeFails
  <2>2. profile'["avatar"] # 0 => profile'["avatar"] \in pictures
    BY <1>1, AccountConstants DEF PicturesStored
  <2> QED BY <1>1, <2>1, <2>2, AccountConstants DEF PicturesStored
<1>8. CASE MeShown
  <2>1. meRead.step = "served" /\ me' = meRead.user /\ crossed' = crossed
    BY <1>8 DEF MeShown
  <2>2. ASSUME EditsKept PROVE EditsKept'
    <3>1. ASSUME NEW f \in Fields, wanted[f] # 0
          PROVE  \/ profile'[f] = wanted[f]
                 \/ profile'[f] = 0 /\ me'[f] = wanted[f] /\ account[f] = wanted[f]
      BY <1>1, <2>1, <2>2, <3>1, AccountConstants DEF EditsKept
    <3>2. update.step # "none" => profile' = profile /\ update.user = profile
      BY <1>1, <2>2 DEF EditsKept
    <3> QED BY <1>1, <2>2, <3>1, <3>2, AccountConstants DEF EditsKept
  <2>3. MeFollows => MeFollows'
    BY <1>1, <1>2, <2>1, AccountConstants DEF MeFollows
  <2> QED BY <1>5, <1>6, <1>7, <2>1, <2>2, <2>3 DEF AccountIInv
<1>9. CASE MeFails
  <2>1. "unread" \in crossed'
    BY <1>9 DEF MeFails
  <2> QED BY <1>5, <1>6, <1>7, <2>1 DEF AccountIInv
<1> QED BY <1>8, <1>9

LEMMA AccountNextKeeps == AccountIInv /\ [AccountNext]_accountVars => AccountIInv'
<1> SUFFICES ASSUME AccountIInv, [AccountNext]_accountVars PROVE AccountIInv'
  OBVIOUS
<1>1. CASE UNCHANGED accountVars
  BY <1>1 DEF accountVars, AccountIInv, AccountTyped, AccountGrows, PicturesStored, EditsKept,
     MeFollows
<1>2. CASE AccountNext
  BY <1>2, SignUpKeeps, EditsKeep, SubmitKeeps, UpdateServedKeeps, UpdateOverKeeps, MeAskedKeeps,
     MeOverKeeps
  DEF AccountNext, AccountProgress
<1> QED BY <1>1, <1>2

LEMMA ProfileFaithful == AccountIInv => ProfileIsFaithful
<1> SUFFICES ASSUME AccountIInv PROVE ProfileIsFaithful
  OBVIOUS
<1>1. AvatarsAreStored
  BY AccountConstants DEF AccountIInv, PicturesStored, AvatarsAreStored, Displayed
<1>2. EditsStayVisible
  BY DEF AccountIInv, EditsKept, EditsStayVisible, Displayed
<1>3. SavedIsShown
  BY DEF AccountIInv, MeFollows, SavedIsShown, AccountAtRest
<1> QED BY <1>1, <1>2, <1>3 DEF ProfileIsFaithful

\* The profile center shows the edits, and then what is stored of them; and no
\* account refers to an avatar that is not stored.
THEOREM ProfileCorrect == ClientSpec => []ProfileIsFaithful
BY ProfileFaithful, PartsImplemented, AccountInitIInv, AccountNextKeeps, PTL

-----------------------------------------------------------------------------
(***************************************************************************)
(* The composers.                                                           *)
(***************************************************************************)
Contents == [draft : Nat, images : SUBSET Files]
CreateCalls ==
  [turn : Nat, data : Contents, step : {"sent", "created", "error"}, heard : BOOLEAN]
Creations == [turn : Nat, data : Contents]
Batches ==
  [step : {"sent", "put", "saved"}, file : Files, rest : SUBSET Files, heard : BOOLEAN]
ComposeBudgets == [drafts : 0 .. MaxDrafts, submits : Nat, setbacks : Nat]

\* The last draft that has been written.
Written == MaxDrafts - composeBudget.drafts

ComposeTyped ==
  /\ images \subseteq Files
  /\ uploads \subseteq Batches
  /\ stored \in [objects : SUBSET Files, rows : SUBSET Files]
  /\ creating \subseteq CreateCalls /\ published \subseteq Creations
  /\ composeBudget \in ComposeBudgets
  /\ draft \in 0 .. Written
  /\ \A c \in creating : c.data.draft \in 1 .. Written
  /\ \A p \in published : p.data.draft \in 1 .. Written

\* What is in the form, on its way or published has its row, and with it its object.
ImagesStored ==
  /\ \A b \in uploads : /\ b.step \in {"put", "saved"} => b.file \in stored.objects
                        /\ b.step = "saved" => b.file \in stored.rows
  /\ images \union Attached \subseteq stored.rows
  /\ \A c \in creating : c.data.images \subseteq stored.rows
  /\ stored.rows \subseteq stored.objects

\* The call that empties the form has taken what has not come into it since;
\* and one that was created has been published.
FormTaken ==
  \A c \in creating :
    /\ c.heard => /\ images \subseteq c.data.images \union late
                  /\ draft \in {0, c.data.draft} \union late
    /\ c.step = "created" => \E p \in published : p.data = c.data

CallsOf(d) == {c \in creating : c.data.draft = d}
PostsOf(d) == {p \in published : p.data.draft = d}

\* A draft that was not sent again is carried by one call and published once;
\* while it is published and still in the form, the answer that empties the
\* form is on its way.
SentOnce(d) ==
  /\ \A c, e \in CallsOf(d) : c = e
  /\ \A p, q \in PostsOf(d) : p = q
  /\ PostsOf(d) # {} => \A c \in CallsOf(d) : c.step # "sent"
  /\ PostsOf(d) # {} /\ draft = d => \E c \in CallsOf(d) : c.heard /\ c.step = "created"
  /\ draft = d => \A c \in CallsOf(d) : c.heard

ComposeIInv ==
  /\ ComposeTyped
  /\ ImagesStored
  /\ NothingVanishes
  /\ FormTaken
  /\ \A d \in 1 .. MaxDrafts : d \notin again => SentOnce(d)

LEMMA ComposeInitIInv == ComposeInit => ComposeIInv
<1> SUFFICES ASSUME ComposeInit PROVE ComposeIInv
  OBVIOUS
<1>2. ComposeTyped
  BY ComposeBounds DEF ComposeInit, ComposeTyped, ComposeBudgets, Written
<1>3. ImagesStored
  BY DEF ComposeInit, ImagesStored, Attached
<1>4. NothingVanishes /\ FormTaken
  BY DEF ComposeInit, NothingVanishes, FormTaken
<1>5. \A d \in 1 .. MaxDrafts : SentOnce(d)
  BY DEF ComposeInit, SentOnce, CallsOf, PostsOf
<1> QED BY <1>2, <1>3, <1>4, <1>5 DEF ComposeIInv

\* What stays of a call that is muted or goes on.
LEMMA CallGoesOn ==
  ASSUME NEW c \in CreateCalls
  PROVE  /\ [c EXCEPT !.heard = FALSE] \in CreateCalls
         /\ [c EXCEPT !.heard = FALSE].data = c.data
         /\ [c EXCEPT !.heard = FALSE].step = c.step
         /\ ~[c EXCEPT !.heard = FALSE].heard
         /\ \A s \in {"created", "error"} :
              /\ [c EXCEPT !.step = s] \in CreateCalls
              /\ [c EXCEPT !.step = s].data = c.data
              /\ [c EXCEPT !.step = s].step = s
              /\ [c EXCEPT !.step = s].heard = c.heard
BY DEF CreateCalls

LEMMA ComposeSpendTyped ==
  ASSUME composeBudget \in ComposeBudgets
  PROVE  /\ ComposeSpend("drafts") => /\ composeBudget' \in ComposeBudgets
                                      /\ composeBudget.drafts > 0
                                      /\ composeBudget'.drafts = composeBudget.drafts - 1
         /\ ComposeSpend("submits") \/ ComposeSpend("setbacks") =>
              composeBudget' \in ComposeBudgets /\ composeBudget'.drafts = composeBudget.drafts
<1>1. CASE ComposeSpend("drafts")
  BY <1>1, ComposeBounds DEF ComposeSpend, ComposeBudgets
<1>2. CASE ComposeSpend("submits")
  BY <1>2 DEF ComposeSpend, ComposeBudgets
<1>3. CASE ComposeSpend("setbacks")
  BY <1>3 DEF ComposeSpend, ComposeBudgets
<1> QED BY <1>1, <1>2, <1>3

LEMMA NextFileTyped ==
  ASSUME NEW files \in SUBSET Files, NEW heard \in BOOLEAN, NEW next \in NextFile(files, heard)
  PROVE  next \subseteq Batches /\ \A b \in next : b.step = "sent"
BY DEF NextFile, Batches

\* What stays of a batch that is muted or goes on.
LEMMA BatchGoesOn ==
  ASSUME NEW b \in Batches
  PROVE  /\ [b EXCEPT !.heard = FALSE] \in Batches
         /\ [b EXCEPT !.heard = FALSE].file = b.file
         /\ [b EXCEPT !.heard = FALSE].step = b.step
         /\ \A s \in {"put", "saved"} :
              /\ [b EXCEPT !.step = s] \in Batches
              /\ [b EXCEPT !.step = s].file = b.file
              /\ [b EXCEPT !.step = s].step = s
BY DEF Batches

LEMMA OrphanCalls ==
  ASSUME creating \subseteq CreateCalls, NEW c \in Orphans(creating)
  PROVE  \E e \in creating : /\ c = [e EXCEPT !.heard = FALSE]
                             /\ c \in CreateCalls /\ ~c.heard
                             /\ c.data = e.data /\ c.step = e.step
<1>1. PICK e \in creating : c = [e EXCEPT !.heard = FALSE]
  BY DEF Orphans
<1> QED BY <1>1, CallGoesOn

\* The uploads up to the row of a file, and a form that is opened.
LEMMA UploadsKeep ==
  ASSUME ComposeIInv,
         \/ ComposeMount \/ uploadImageFiles
         \/ \E b \in uploads : PutObject(b) \/ CreateFile(b) \/ UploadFails(b)
  PROVE  ComposeIInv'
<1>1. /\ ComposeTyped /\ ImagesStored
      /\ UNCHANGED <<images, draft, creating, published, arrived, discarded, late, left, again>>
  BY DEF ComposeIInv, ComposeMount, uploadImageFiles, PutObject, CreateFile, UploadFails
<1>2. composeBudget' \in ComposeBudgets /\ composeBudget'.drafts = composeBudget.drafts
  BY <1>1, ComposeSpendTyped DEF ComposeTyped, ComposeMount, uploadImageFiles, PutObject,
     CreateFile, UploadFails
<1>3. /\ uploads' \subseteq Batches
      /\ stored' \in [objects : SUBSET Files, rows : SUBSET Files]
      /\ stored.rows \subseteq stored'.rows /\ stored'.rows \subseteq stored'.objects
      /\ \A b \in uploads' : /\ b.step \in {"put", "saved"} => b.file \in stored'.objects
                             /\ b.step = "saved" => b.file \in stored'.rows
  <2>1. CASE ComposeMount
    BY <1>1, <2>1 DEF ComposeMount, ComposeTyped, ImagesStored
  <2>2. CASE uploadImageFiles
    <3>1. PICK files \in SUBSET Files :
            \E next \in NextFile(files, TRUE) : uploads' = uploads \union next
      BY <2>2 DEF uploadImageFiles
    <3> PICK next \in NextFile(files, TRUE) : uploads' = uploads \union next
      BY <3>1
    <3>2. next \subseteq Batches /\ \A b \in next : b.step = "sent"
      BY NextFileTyped
    <3>3. stored' = stored
      BY <2>2 DEF uploadImageFiles
    <3> QED BY <1>1, <3>1, <3>2, <3>3 DEF ComposeTyped, ImagesStored
  <2>3. CASE \E b \in uploads : PutObject(b)
    <3> PICK b \in uploads : PutObject(b)
      BY <2>3
    <3>1. b \in Batches /\ b.file \in Files /\ fileServiceUploadFile(b.file).data = b.file
      BY <1>1 DEF ComposeTyped, Batches, fileServiceUploadFile, Post, Request
    <3>2. /\ uploads' = (uploads \ {b}) \union {[b EXCEPT !.step = "put"]}
          /\ stored' = [stored EXCEPT !.objects = @ \union {b.file}]
      BY <2>3, <3>1 DEF PutObject
    <3>3. /\ stored' \in [objects : SUBSET Files, rows : SUBSET Files]
          /\ stored'.rows = stored.rows /\ stored'.objects = stored.objects \union {b.file}
      BY <1>1, <3>1, <3>2 DEF ComposeTyped
    <3>4. [b EXCEPT !.step = "put"] \in Batches /\ [b EXCEPT !.step = "put"].file = b.file
          /\ [b EXCEPT !.step = "put"].step = "put"
      BY <3>1, BatchGoesOn
    <3> QED BY <1>1, <3>2, <3>3, <3>4 DEF ComposeTyped, ImagesStored
  <2>4. CASE \E b \in uploads : CreateFile(b)
    <3> PICK b \in uploads : CreateFile(b)
      BY <2>4
    <3>1. b \in Batches /\ b.file \in Files /\ b.file \in stored.objects
      BY <1>1, <2>4 DEF ComposeTyped, Batches, CreateFile, ImagesStored
    <3>2. /\ uploads' = (uploads \ {b}) \union {[b EXCEPT !.step = "saved"]}
          /\ stored' = [stored EXCEPT !.rows = @ \union {b.file}]
      BY <2>4 DEF CreateFile
    <3>3. /\ stored' \in [objects : SUBSET Files, rows : SUBSET Files]
          /\ stored'.objects = stored.objects /\ stored'.rows = stored.rows \union {b.file}
      BY <1>1, <3>1, <3>2 DEF ComposeTyped
    <3>4. [b EXCEPT !.step = "saved"] \in Batches /\ [b EXCEPT !.step = "saved"].file = b.file
          /\ [b EXCEPT !.step = "saved"].step = "saved"
      BY <3>1, BatchGoesOn
    <3> QED BY <1>1, <3>1, <3>2, <3>3, <3>4 DEF ComposeTyped, ImagesStored
  <2>5. CASE \E b \in uploads : UploadFails(b)
    <3> PICK b \in uploads : UploadFails(b)
      BY <2>5
    <3>1. uploads' = uploads \ {b} /\ UNCHANGED stored
      BY <2>5 DEF UploadFails
    <3> QED BY <1>1, <3>1 DEF ComposeTyped, ImagesStored
  <2> QED BY <2>1, <2>2, <2>3, <2>4, <2>5
<1>4. ComposeTyped'
  BY <1>1, <1>2, <1>3 DEF ComposeTyped, Written
<1>5. ImagesStored'
  BY <1>1, <1>3 DEF ImagesStored, Attached
<1>6. NothingVanishes' /\ FormTaken'
  BY <1>1 DEF ComposeIInv, NothingVanishes, FormTaken, Attached
<1>7. \A d \in 1 .. MaxDrafts : d \notin again' => SentOnce(d)'
  BY <1>1 DEF ComposeIInv, SentOnce, CallsOf, PostsOf
<1> QED BY <1>4, <1>5, <1>6, <1>7 DEF ComposeIInv

\* An image comes into the form, or is taken out of it.
LEMMA ImagesKeep ==
  ASSUME ComposeIInv,
         (\E b \in uploads : FileUploaded(b)) \/ (\E f \in Files : RemoveImage(f))
  PROVE  ComposeIInv'
<1>1. /\ ComposeTyped /\ ImagesStored /\ NothingVanishes /\ FormTaken
      /\ UNCHANGED <<draft, stored, creating, published, left, again>>
  BY DEF ComposeIInv, FileUploaded, RemoveImage
<1>2. composeBudget' \in ComposeBudgets /\ composeBudget'.drafts = composeBudget.drafts
  BY <1>1, ComposeSpendTyped DEF ComposeTyped, FileUploaded, RemoveImage
<1>3. /\ uploads' \subseteq Batches /\ \A b \in uploads' : b.step = "sent" \/ b \in uploads
      /\ images' \subseteq Files /\ images' \subseteq stored.rows
      /\ NothingVanishes' /\ FormTaken'
  <2>1. CASE \E b \in uploads : FileUploaded(b)
    <3> PICK b \in uploads : FileUploaded(b)
      BY <2>1
    <3> DEFINE added == IF b.heard THEN {b.file} ELSE {}
    <3>1. b \in Batches /\ b.file \in Files /\ b.rest \in SUBSET Files /\ b.heard \in BOOLEAN
      BY <1>1 DEF ComposeTyped, Batches
    <3>2. b.file \in stored.rows
      BY <1>1, <2>1 DEF FileUploaded, ImagesStored
    <3>3. PICK next \in NextFile(b.rest, b.heard) : uploads' = (uploads \ {b}) \union next
      BY <2>1 DEF FileUploaded, PutIn
    <3>4. next \subseteq Batches /\ \A e \in next : e.step = "sent"
      BY <3>1, NextFileTyped
    <3>5. /\ images' = images \union added /\ arrived' = arrived \union added
          /\ late' = IF Awaited THEN late \union added ELSE late
          /\ UNCHANGED discarded
      BY <2>1 DEF FileUploaded, PutIn
    <3>6. added \subseteq Files /\ added \subseteq stored.rows
      BY <3>1, <3>2
    <3> HIDE DEF added
    <3>7. NothingVanishes'
      BY <1>1, <3>5 DEF NothingVanishes, Attached
    <3>8. FormTaken'
      BY <1>1, <3>5 DEF FormTaken, Awaited
    <3> QED BY <1>1, <3>3, <3>4, <3>5, <3>6, <3>7, <3>8 DEF ComposeTyped, ImagesStored
  <2>2. CASE \E f \in Files : RemoveImage(f)
    <3> PICK f \in Files : RemoveImage(f)
      BY <2>2
    <3>1. /\ images' = images \ {f} /\ discarded' = discarded \union {f}
          /\ UNCHANGED <<uploads, arrived, late>>
      BY <2>2 DEF RemoveImage
    <3>2. NothingVanishes' /\ FormTaken'
      BY <1>1, <3>1 DEF NothingVanishes, FormTaken, Attached
    <3>3. images \subseteq Files /\ images \subseteq stored.rows /\ uploads \subseteq Batches
      BY <1>1 DEF ComposeTyped, ImagesStored
    <3> QED BY <3>1, <3>2, <3>3
  <2> QED BY <2>1, <2>2
<1>5. ComposeTyped'
  BY <1>1, <1>2, <1>3 DEF ComposeTyped, Written
<1>6. ImagesStored'
  BY <1>1, <1>3 DEF ImagesStored, Attached
<1>9. \A d \in 1 .. MaxDrafts : d \notin again' => SentOnce(d)'
  BY <1>1 DEF ComposeIInv, SentOnce, CallsOf, PostsOf
<1> QED BY <1>3, <1>5, <1>6, <1>9 DEF ComposeIInv

\* A form that is left takes what it holds with it; calls and uploads go on
\* unheard.
LEMMA LeftKeeps ==
  ASSUME ComposeIInv, ComposerLeft
  PROVE  ComposeIInv'
<1>1. /\ ComposeTyped /\ ImagesStored /\ NothingVanishes /\ FormTaken
      /\ images' = {} /\ draft' = 0 /\ left' = left \union images \union {draft}
      /\ creating' = Orphans(creating) /\ uploads' = Orphans(uploads)
      /\ UNCHANGED <<stored, published, arrived, discarded, late, again>>
  BY DEF ComposeIInv, ComposerLeft
<1>2. composeBudget' \in ComposeBudgets /\ composeBudget'.drafts = composeBudget.drafts
  BY <1>1, ComposeSpendTyped DEF ComposeTyped, ComposerLeft
<1>3. ASSUME NEW c \in creating'
      PROVE  \E e \in creating : /\ c = [e EXCEPT !.heard = FALSE]
                                 /\ c \in CreateCalls /\ ~c.heard
                                 /\ c.data = e.data /\ c.step = e.step
  BY <1>1, OrphanCalls DEF ComposeTyped
<1>4. ASSUME NEW b \in uploads'
      PROVE  \E e \in uploads : b \in Batches /\ b.file = e.file /\ b.step = e.step
  <2>1. PICK e \in uploads : b = [e EXCEPT !.heard = FALSE]
    BY <1>1 DEF Orphans
  <2>2. e \in Batches
    BY <1>1 DEF ComposeTyped
  <2> QED BY <2>1, <2>2, BatchGoesOn
<1>5. ComposeTyped'
  <2>1. Written \in Nat /\ Written' = Written
    BY <1>1, <1>2, ComposeBounds DEF ComposeTyped, ComposeBudgets, Written
  <2>2. creating' \subseteq CreateCalls /\ uploads' \subseteq Batches
    BY <1>3, <1>4
  <2>3. \A c \in creating' : c.data.draft \in 1 .. Written
    BY <1>1, <1>3 DEF ComposeTyped
  <2> HIDE DEF Written
  <2> QED BY <1>1, <1>2, <2>1, <2>2, <2>3 DEF ComposeTyped
<1>6. ImagesStored'
  <2>1. \A c \in creating' : c.data.images \subseteq stored.rows
    BY <1>1, <1>3 DEF ImagesStored
  <2>2. \A b \in uploads' : /\ b.step \in {"put", "saved"} => b.file \in stored.objects
                            /\ b.step = "saved" => b.file \in stored.rows
    BY <1>1, <1>4 DEF ImagesStored
  <2> QED BY <1>1, <2>1, <2>2 DEF ImagesStored, Attached
<1>7. NothingVanishes'
  BY <1>1 DEF NothingVanishes, Attached
<1>8. FormTaken'
  BY <1>1, <1>3 DEF FormTaken
<1>9. ASSUME NEW d \in 1 .. MaxDrafts, d \notin again' PROVE SentOnce(d)'
  <2>1. SentOnce(d)
    BY <1>1, <1>9 DEF ComposeIInv
  <2>2. PostsOf(d)' = PostsOf(d) /\ draft' # d
    BY <1>1 DEF PostsOf
  <2>3. \A c \in CallsOf(d)' : \E e \in CallsOf(d) : c = [e EXCEPT !.heard = FALSE]
                                                     /\ c.step = e.step
    BY <1>3 DEF CallsOf
  <2> QED BY <2>1, <2>2, <2>3 DEF SentOnce
<1> QED BY <1>5, <1>6, <1>7, <1>8, <1>9 DEF ComposeIInv

\* A new text is one that no call and no post has.
LEMMA WriteKeeps ==
  ASSUME ComposeIInv, Write
  PROVE  ComposeIInv'
<1>1. /\ ComposeTyped /\ ImagesStored /\ NothingVanishes /\ FormTaken
      /\ UNCHANGED <<images, uploads, stored, creating, published, left, again>>
      /\ arrived' = arrived \union {draft'} /\ discarded' = discarded \union {draft}
      /\ late' = IF Awaited THEN late \union {draft'} ELSE late
  BY DEF ComposeIInv, Write
<1>2. /\ composeBudget' \in ComposeBudgets /\ composeBudget.drafts > 0
      /\ composeBudget'.drafts = composeBudget.drafts - 1
  BY <1>1, ComposeSpendTyped DEF ComposeTyped, Write
<1>3. composeBudget.drafts \in Nat /\ composeBudget.drafts <= MaxDrafts /\ MaxDrafts \in Nat
  BY <1>1, ComposeBounds DEF ComposeTyped, ComposeBudgets
<1>4. Written \in Nat /\ Written' = Written + 1 /\ draft' = Written + 1
  BY <1>2, <1>3 DEF Written, Write
<1>5. ComposeTyped'
  <2>1. draft' \in 0 .. Written'
    BY <1>4
  <2>2. \A n \in 1 .. Written : n \in 1 .. Written'
    BY <1>4
  <2> HIDE DEF Written
  <2> QED BY <1>1, <1>2, <2>1, <2>2 DEF ComposeTyped
<1>6. ImagesStored' /\ NothingVanishes' /\ FormTaken'
  <2>1. ImagesStored' /\ NothingVanishes'
    BY <1>1 DEF ImagesStored, NothingVanishes, Attached
  <2>2. FormTaken'
    BY <1>1 DEF FormTaken, Awaited
  <2> QED BY <2>1, <2>2
<1>7. ASSUME NEW d \in 1 .. MaxDrafts, d \notin again' PROVE SentOnce(d)'
  <2>1. SentOnce(d)
    BY <1>1, <1>7 DEF ComposeIInv
  <2>2. CASE d = Written + 1
    <3>1. CallsOf(d)' = {} /\ PostsOf(d)' = {}
      BY <1>1, <1>4, <2>2 DEF ComposeTyped, CallsOf, PostsOf
    <3> QED BY <3>1 DEF SentOnce
  <2>3. CASE d # Written + 1
    <3>1. CallsOf(d)' = CallsOf(d) /\ PostsOf(d)' = PostsOf(d) /\ draft' # d
      BY <1>1, <1>4, <2>3 DEF CallsOf, PostsOf
    <3> QED BY <2>1, <3>1 DEF SentOnce
  <2> QED BY <2>2, <2>3
<1> QED BY <1>5, <1>6, <1>7 DEF ComposeIInv

\* What is sent is what the form has; the callbacks of earlier calls are gone.
LEMMA SubmitDraftKeeps ==
  ASSUME ComposeIInv, handleSubmit
  PROVE  ComposeIInv'
<1> DEFINE data == [draft |-> draft, images |-> images]
           new == [turn |-> composeBudget.submits, data |-> data, step |-> "sent", heard |-> TRUE]
           muted == Orphans(creating)
<1>1. /\ ComposeTyped /\ ImagesStored /\ NothingVanishes /\ FormTaken /\ draft # 0
      /\ UNCHANGED <<images, draft, uploads, stored, published, arrived, discarded, late, left>>
      /\ again' = IF \E c \in creating : c.data.draft = draft THEN again \union {draft} ELSE again
  BY DEF ComposeIInv, handleSubmit
<1>2. composeBudget' \in ComposeBudgets /\ composeBudget'.drafts = composeBudget.drafts
  BY <1>1, ComposeSpendTyped DEF ComposeTyped, handleSubmit
<1>3. Written \in Nat /\ Written' = Written
  BY <1>1, <1>2, ComposeBounds DEF ComposeTyped, ComposeBudgets, Written
<1>4. draft \in 1 .. Written
  <2>1. draft \in 0 .. Written
    BY <1>1 DEF ComposeTyped
  <2> HIDE DEF Written
  <2> QED BY <1>1, <1>3, <2>1
<1>5. creating' = muted \union {new}
  <2>1. CreateRequest(data).data = data
    BY DEF CreateRequest, postServiceCreatePost, commentServiceCreateTopComment, Post, Request
  <2> QED BY <2>1 DEF handleSubmit
<1>6. data \in Contents
  <2>1. draft \in Nat
    BY <1>3, <1>4
  <2> QED BY <1>1, <2>1 DEF ComposeTyped, Contents
<1>7. /\ new \in CreateCalls /\ new.data = data /\ new.step = "sent" /\ new.heard
      /\ data.draft = draft /\ data.images = images
  BY <1>1, <1>6 DEF CreateCalls, ComposeTyped, ComposeBudgets
<1>8. ASSUME NEW c \in muted
      PROVE  \E e \in creating : /\ c = [e EXCEPT !.heard = FALSE]
                                 /\ c \in CreateCalls /\ ~c.heard
                                 /\ c.data = e.data /\ c.step = e.step
  BY <1>1, OrphanCalls DEF ComposeTyped
<1> HIDE DEF new, muted, data
<1>9. ComposeTyped'
  <2>1. creating' \subseteq CreateCalls
    BY <1>5, <1>7, <1>8
  <2>2. \A c \in creating' : c.data.draft \in 1 .. Written
    BY <1>1, <1>4, <1>5, <1>7, <1>8 DEF ComposeTyped
  <2> HIDE DEF Written
  <2> QED BY <1>1, <1>2, <1>3, <2>1, <2>2 DEF ComposeTyped
<1>10. ImagesStored'
  <2>1. \A c \in creating' : c.data.images \subseteq stored.rows
    BY <1>1, <1>5, <1>7, <1>8 DEF ImagesStored
  <2> QED BY <1>1, <2>1 DEF ImagesStored, Attached
<1>11. NothingVanishes'
  BY <1>1 DEF NothingVanishes, Attached
<1>12. FormTaken'
  <2>1. ASSUME NEW c \in muted PROVE c.step = "created" => \E p \in published : p.data = c.data
    BY <1>1, <1>8 DEF FormTaken
  <2> QED BY <1>1, <1>5, <1>7, <1>8, <2>1 DEF FormTaken
<1>13. ASSUME NEW d \in 1 .. MaxDrafts, d \notin again' PROVE SentOnce(d)'
  <2>1. SentOnce(d)
    BY <1>1, <1>13 DEF ComposeIInv
  <2>2. PostsOf(d)' = PostsOf(d)
    BY <1>1 DEF PostsOf
  <2>3. CASE d = draft
    <3>1. CallsOf(d) = {}
      BY <1>1, <1>13, <2>3 DEF CallsOf
    <3>2. PostsOf(d) = {}
      BY <2>1, <2>3, <3>1 DEF SentOnce
    <3>3. CallsOf(d)' = {new}
      BY <1>5, <1>7, <1>8, <2>3, <3>1 DEF CallsOf
    <3> QED BY <1>7, <2>2, <3>2, <3>3 DEF SentOnce
  <2>4. CASE d # draft
    <3>1. \A c \in CallsOf(d)' : \E e \in CallsOf(d) : c = [e EXCEPT !.heard = FALSE]
                                                       /\ c.step = e.step
      BY <1>5, <1>7, <1>8, <2>4 DEF CallsOf
    <3> QED BY <1>1, <2>1, <2>2, <2>4, <3>1 DEF SentOnce
  <2> QED BY <2>3, <2>4
<1> QED BY <1>9, <1>10, <1>11, <1>12, <1>13 DEF ComposeIInv

\* One call goes on, or is over.
LEMMA CallOfDraft ==
  ASSUME ComposeIInv, NEW c \in creating
  PROVE  /\ c \in CreateCalls /\ c.data \in Contents /\ c.data.draft \in 1 .. MaxDrafts
         /\ c \in CallsOf(c.data.draft)
<1>1. c \in CreateCalls /\ c.data \in Contents
  BY DEF ComposeIInv, ComposeTyped, CreateCalls
<1>2. Written \in 0 .. MaxDrafts
  BY ComposeBounds DEF ComposeIInv, ComposeTyped, ComposeBudgets, Written
<1>3. c.data.draft \in 1 .. Written
  BY DEF ComposeIInv, ComposeTyped
<1>4. c.data.draft \in 1 .. MaxDrafts
  BY <1>2, <1>3, ComposeBounds
<1> QED BY <1>1, <1>4 DEF CallsOf

LEMMA CreateServedKeeps ==
  ASSUME ComposeIInv, NEW c \in creating, CreateServed(c)
  PROVE  ComposeIInv'
<1> DEFINE next == [c EXCEPT !.step = "created"]
           post == [turn |-> c.turn, data |-> c.data]
<1>1. /\ ComposeTyped /\ ImagesStored /\ NothingVanishes /\ FormTaken /\ c.step = "sent"
      /\ UNCHANGED <<images, draft, uploads, stored, arrived, discarded, late, left, again,
                     composeBudget>>
      /\ published' = published \union {post}
      /\ creating' = (creating \ {c}) \union {next}
  BY DEF ComposeIInv, CreateServed
<1>2. /\ next \in CreateCalls /\ next.data = c.data /\ next.step = "created"
      /\ next.heard = c.heard
  BY CallOfDraft, CallGoesOn
<1>3. post \in Creations /\ post.data = c.data
  BY CallOfDraft DEF CreateCalls, Creations
<1> HIDE DEF next, post
<1>4. ComposeTyped'
  <2>1. creating' \subseteq CreateCalls /\ published' \subseteq Creations
    BY <1>1, <1>2, <1>3 DEF ComposeTyped
  <2>2. \A e \in creating' \union published' : e.data.draft \in 1 .. Written
    BY <1>1, <1>2, <1>3 DEF ComposeTyped
  <2>3. Written' = Written
    BY <1>1 DEF Written
  <2> HIDE DEF Written
  <2> QED BY <1>1, <2>1, <2>2, <2>3 DEF ComposeTyped
<1>5. Attached' = Attached \union c.data.images
  BY <1>1, <1>3 DEF Attached
<1>6. ImagesStored'
  BY <1>1, <1>2, <1>5 DEF ImagesStored
<1>7. NothingVanishes'
  BY <1>1, <1>5 DEF NothingVanishes
<1>8. FormTaken'
  BY <1>1, <1>2, <1>3 DEF FormTaken
<1>9. ASSUME NEW d \in 1 .. MaxDrafts, d \notin again' PROVE SentOnce(d)'
  <2>1. SentOnce(d)
    BY <1>1, <1>9 DEF ComposeIInv
  <2>2. CASE d = c.data.draft
    <3>1. CallsOf(d) = {c} /\ PostsOf(d) = {}
      BY <1>1, <2>1, <2>2, CallOfDraft DEF SentOnce
    <3>2. CallsOf(d)' = {next}
      BY <1>1, <1>2, <2>2, <3>1 DEF CallsOf
    <3>3. PostsOf(d)' = {post}
      BY <1>1, <1>3, <2>2, <3>1 DEF PostsOf
    <3>4. draft' = d => next.heard
      BY <1>1, <1>2, <2>1, <3>1 DEF SentOnce
    <3> QED BY <1>2, <3>2, <3>3, <3>4 DEF SentOnce
  <2>3. CASE d # c.data.draft
    <3>1. CallsOf(d)' = CallsOf(d) /\ PostsOf(d)' = PostsOf(d)
      BY <1>1, <1>2, <1>3, <2>3 DEF CallsOf, PostsOf
    <3> QED BY <1>1, <2>1, <3>1 DEF SentOnce
  <2> QED BY <2>2, <2>3
<1> QED BY <1>4, <1>6, <1>7, <1>8, <1>9 DEF ComposeIInv

\* The success of a call empties the form: of what the call has taken, and of
\* what has arrived since.
LEMMA CreateSettledKeeps ==
  ASSUME ComposeIInv, NEW c \in creating, CreateSettled(c)
  PROVE  ComposeIInv'
<1>1. /\ ComposeTyped /\ ImagesStored /\ NothingVanishes /\ FormTaken
      /\ c.step \in {"created", "error"}
      /\ UNCHANGED <<uploads, stored, published, arrived, discarded, late, left, again,
                     composeBudget>>
      /\ creating' = creating \ {c}
  BY DEF ComposeIInv, CreateSettled
<1>2. IF c.heard /\ c.step = "created" THEN draft' = 0 /\ images' = {}
      ELSE UNCHANGED <<draft, images>>
  BY DEF CreateSettled
<1>3. Attached' = Attached /\ images' \subseteq images
  BY <1>1, <1>2 DEF Attached
<1>4. ComposeTyped'
  <2>1. Written \in Nat /\ Written' = Written
    BY <1>1, ComposeBounds DEF ComposeTyped, ComposeBudgets, Written
  <2> HIDE DEF Written
  <2>2. draft' \in 0 .. Written
    BY <1>1, <1>2, <2>1 DEF ComposeTyped
  <2> QED BY <1>1, <1>3, <2>1, <2>2 DEF ComposeTyped
<1>5. ImagesStored'
  BY <1>1, <1>3 DEF ImagesStored
<1>6. NothingVanishes'
  <2>1. CASE c.heard /\ c.step = "created"
    <3>1. PICK p \in published : p.data = c.data
      BY <1>1, <2>1 DEF FormTaken
    <3>2. c.data.images \subseteq Attached
      BY <3>1 DEF Attached
    <3>3. images \subseteq c.data.images \union late /\ draft \in {0, c.data.draft} \union late
      BY <1>1, <2>1 DEF FormTaken
    <3>4. c.data.draft \in {q.data.draft : q \in published}
      BY <3>1
    <3>5. draft' = 0
      BY <1>2, <2>1
    <3> QED BY <1>1, <1>3, <3>2, <3>3, <3>4, <3>5 DEF NothingVanishes
  <2>2. CASE ~(c.heard /\ c.step = "created")
    BY <1>1, <1>2, <1>3, <2>2 DEF NothingVanishes
  <2> QED BY <2>1, <2>2
<1>7. FormTaken'
  BY <1>1, <1>2, <1>3 DEF FormTaken
<1>8. ASSUME NEW d \in 1 .. MaxDrafts, d \notin again' PROVE SentOnce(d)'
  <2>1. SentOnce(d)
    BY <1>1, <1>8 DEF ComposeIInv
  <2>2. PostsOf(d)' = PostsOf(d) /\ CallsOf(d)' = CallsOf(d) \ {c}
    BY <1>1 DEF PostsOf, CallsOf
  <2>3. draft' = d => draft = d /\ ~(c.heard /\ c.step = "created")
    BY <1>2
  <2> QED BY <2>1, <2>2, <2>3 DEF SentOnce
<1> QED BY <1>4, <1>5, <1>6, <1>7, <1>8 DEF ComposeIInv

\* A draft whose answer was lost is one that may be sent again.
LEMMA CreateFailsKeeps ==
  ASSUME ComposeIInv, NEW c \in creating, CreateFails(c)
  PROVE  ComposeIInv'
<1> DEFINE next == [c EXCEPT !.step = "error"]
<1>1. /\ ComposeTyped /\ ImagesStored /\ NothingVanishes /\ FormTaken
      /\ c.step \in {"sent", "created"}
      /\ UNCHANGED <<images, draft, uploads, stored, published, arrived, discarded, late, left>>
      /\ creating' = (creating \ {c}) \union {next}
      /\ again' = IF c.step = "created" THEN again \union {c.data.draft} ELSE again
  BY DEF ComposeIInv, CreateFails
<1>2. /\ next \in CreateCalls /\ next.data = c.data /\ next.step = "error"
      /\ next.heard = c.heard
  BY CallOfDraft, CallGoesOn
<1>3. composeBudget' \in ComposeBudgets /\ composeBudget'.drafts = composeBudget.drafts
  BY <1>1, ComposeSpendTyped DEF ComposeTyped, CreateFails
<1> HIDE DEF next
<1>4. ComposeTyped'
  <2>1. creating' \subseteq CreateCalls
    BY <1>1, <1>2 DEF ComposeTyped
  <2>2. \A e \in creating' : e.data.draft \in 1 .. Written
    BY <1>1, <1>2 DEF ComposeTyped
  <2>3. Written' = Written
    BY <1>3 DEF Written
  <2> HIDE DEF Written
  <2> QED BY <1>1, <1>3, <2>1, <2>2, <2>3 DEF ComposeTyped
<1>5. ImagesStored'
  BY <1>1, <1>2 DEF ImagesStored, Attached
<1>6. NothingVanishes' /\ FormTaken'
  BY <1>1, <1>2 DEF NothingVanishes, FormTaken, Attached
<1>7. ASSUME NEW d \in 1 .. MaxDrafts, d \notin again' PROVE SentOnce(d)'
  <2>1. SentOnce(d)
    BY <1>1, <1>7 DEF ComposeIInv
  <2>2. PostsOf(d)' = PostsOf(d)
    BY <1>1 DEF PostsOf
  <2>3. CASE d = c.data.draft
    <3>1. c.step = "sent"
      BY <1>1, <1>7, <2>3
    <3>2. CallsOf(d) = {c} /\ PostsOf(d) = {}
      BY <2>1, <2>3, <3>1, CallOfDraft DEF SentOnce
    <3>3. CallsOf(d)' = {next}
      BY <1>1, <1>2, <2>3, <3>2 DEF CallsOf
    <3> QED BY <1>1, <1>2, <2>1, <2>2, <3>2, <3>3 DEF SentOnce
  <2>4. CASE d # c.data.draft
    <3>1. CallsOf(d)' = CallsOf(d)
      BY <1>1, <1>2, <2>4 DEF CallsOf
    <3> QED BY <1>1, <2>1, <2>2, <3>1 DEF SentOnce
  <2> QED BY <2>3, <2>4
<1> QED BY <1>4, <1>5, <1>6, <1>7 DEF ComposeIInv

LEMMA ComposeNextKeeps == ComposeIInv /\ [ComposeNext]_composeVars => ComposeIInv'
<1> SUFFICES ASSUME ComposeIInv, [ComposeNext]_composeVars PROVE ComposeIInv'
  OBVIOUS
<1>1. CASE UNCHANGED composeVars
  BY <1>1 DEF composeVars, ComposeIInv, ComposeTyped, Written, ImagesStored, Attached,
     NothingVanishes, FormTaken, SentOnce, CallsOf, PostsOf
<1>2. CASE ComposeNext
  BY <1>2, UploadsKeep, LeftKeeps, ImagesKeep, WriteKeeps, SubmitDraftKeeps, CreateServedKeeps,
     CreateSettledKeeps, CreateFailsKeeps
  DEF ComposeNext, ComposeProgress
<1> QED BY <1>1, <1>2

LEMMA DraftsWhole == ComposeIInv => DraftsArriveWhole
<1> SUFFICES ASSUME ComposeIInv PROVE DraftsArriveWhole
  OBVIOUS
<1>1. PublishedImagesAreStored /\ NothingVanishes
  BY DEF ComposeIInv, ImagesStored, PublishedImagesAreStored
<1>2. DraftPublishedOnce
  <2>1. ASSUME NEW d \in 1 .. MaxDrafts, d \notin again
        PROVE  ~(Cardinality({p \in published : p.data.draft = d}) > 1)
    <3>1. Cardinality(PostsOf(d)) \in {0, 1}
      <4>1. \A p, q \in PostsOf(d) : p = q
        BY <2>1 DEF ComposeIInv, SentOnce
      <4>2. PostsOf(d) = {} \/ \E p : PostsOf(d) = {p}
        BY <4>1
      <4> QED BY <4>2, FS_EmptySet, FS_Singleton
    <3> QED BY <3>1 DEF PostsOf
  <2> QED BY <2>1 DEF DraftPublishedOnce
<1> QED BY <1>1, <1>2 DEF DraftsArriveWhole

\* A text is published once, unless it was sent again, with images that are
\* stored; and what was put into a form is in it, published or taken out by its
\* author, unless it came while a call was awaited or its form was left.
THEOREM DraftsCorrect == ClientSpec => []DraftsArriveWhole
BY DraftsWhole, PartsImplemented, ComposeInitIInv, ComposeNextKeeps, PTL

-----------------------------------------------------------------------------
(***************************************************************************)
(* The comments under a card.                                               *)
(***************************************************************************)
LEMMA PreviewBounds ==
  /\ OldComments \in Nat /\ MaxExpansions \in Nat /\ MaxCommentPosts \in Nat
  /\ MaxCommentRemovals \in Nat /\ MaxPreviewFaults \in Nat
BY PreviewAssumption

CommentCalls ==
  [turn : Nat, step : {"sent", "created"}, heard : BOOLEAN, count : Nat, comment : Nat]
Loads     == [comment : Nat, step : {"asked", "served"}]
Removals  == [comment : Nat, step : {"sent", "deleted"}, heard : BOOLEAN]
PreviewRuns == [step : {"none", "asked", "served"}, value : SUBSET Nat]
CountRuns == [step : {"none", "asked", "served", "next"}, count : Nat]
PreviewBudgets == [clicks : Nat, posts : Nat, removals : Nat, faults : Nat, next : Nat \ {0}]

PreviewTyped ==
  /\ previewBudget \in PreviewBudgets
  /\ postComments \subseteq 1 .. previewBudget.next - 1
  /\ commentCount \in Nat /\ feedRun \in CountRuns
  /\ expanded \in BOOLEAN
  /\ previewRun \in PreviewRuns /\ (previewRun.step = "none" => previewRun = NoPreview)
  /\ commenting \subseteq CommentCalls
  /\ fetching \subseteq Loads
  /\ removing \subseteq Removals

\* The count that the one call under way will leave behind, or the card's if
\* there is none, is that of the comments; a run of the list may meddle with
\* the card's only until the call's answer arrives.
CountFollows ==
  messy \intersect {"overlap", "lost", "removed", "listed", "foreign"} = {} =>
    \/ commenting = {} /\ commentCount = Cardinality(postComments)
    \/ \E c \in commenting :
         /\ commenting = {c}
         /\ c.heard
         /\ c.step = "sent" =>
              c.count = Cardinality(postComments) /\ commentCount = Cardinality(postComments)
         /\ c.step = "created" => c.count + 1 = Cardinality(postComments)

\* Comments that are on their way to the preview, or out of it.
Coming == {c.comment : c \in {d \in commenting : d.step = "created"}}
            \union {l.comment : l \in fetching}
Going  == {c.comment : c \in {d \in removing : d.step = "deleted"}}
CommentsOf(p) == IF p = <<>> THEN {} ELSE p[1]

\* What the preview that is shown, or the answer that will replace it, differs
\* in from the post's comments is on its way.
PreviewFollows ==
  messy \intersect {"overlap", "lost", "crossed", "foreign"} = {} =>
    /\ \A c \in commenting \union removing : c.heard
    /\ \A l \in fetching : l.step = "served" => l.comment \in postComments
    /\ previewRun.step = "none" /\ expanded /\ preview # <<>> =>
         /\ postComments \ preview[1] \subseteq Coming
         /\ preview[1] \ postComments \subseteq Going
    /\ previewRun.step = "served" =>
         /\ postComments \ previewRun.value \subseteq Coming \union CommentsOf(preview)
         /\ previewRun.value \ postComments \subseteq Going

PreviewIInv == PreviewTyped /\ CountFollows /\ PreviewFollows

LEMMA PreviewInitIInv == PreviewInit => PreviewIInv
<1> SUFFICES ASSUME PreviewInit PROVE PreviewIInv
  OBVIOUS
<1>0. previewBudget \in PreviewBudgets /\ previewBudget.next - 1 = OldComments
  BY PreviewBounds DEF PreviewInit, PreviewBudgets
<1>1. PreviewTyped
  <2>1. previewRun \in PreviewRuns
    BY DEF PreviewInit, PreviewRuns, NoPreview
  <2>2. feedRun \in CountRuns
    BY DEF PreviewInit, CountRuns, NoFeedRun
  <2> QED BY <1>0, <2>1, <2>2, PreviewBounds DEF PreviewInit, PreviewTyped
<1>2. Cardinality(1 .. OldComments) = OldComments
  BY PreviewBounds, FS_Interval
<1>3. CountFollows
  BY <1>2 DEF PreviewInit, CountFollows
<1>4. PreviewFollows
  BY DEF PreviewInit, PreviewFollows, NoPreview
<1> QED BY <1>1, <1>3, <1>4 DEF PreviewIInv

LEMMA PreviewSpendTyped ==
  ASSUME previewBudget \in PreviewBudgets,
         NEW what \in {"clicks", "posts", "removals", "faults"}, PreviewSpend(what)
  PROVE  previewBudget' \in PreviewBudgets /\ previewBudget'.next = previewBudget.next
<1>1. CASE what = "clicks"
  BY <1>1 DEF PreviewSpend, PreviewBudgets
<1>2. CASE what = "posts"
  BY <1>2 DEF PreviewSpend, PreviewBudgets
<1>3. CASE what = "removals"
  BY <1>3 DEF PreviewSpend, PreviewBudgets
<1>4. CASE what = "faults"
  BY <1>4 DEF PreviewSpend, PreviewBudgets
<1> QED BY <1>1, <1>2, <1>3, <1>4

LEMMA UnheardTyped ==
  /\ \A calls \in SUBSET CommentCalls : Unheard(calls) \subseteq CommentCalls
  /\ \A calls \in SUBSET Removals : Unheard(calls) \subseteq Removals
  /\ Unheard({}) = {}
<1>1. \A c \in CommentCalls : [c EXCEPT !.heard = FALSE] \in CommentCalls
  BY DEF CommentCalls
<1>2. \A c \in Removals : [c EXCEPT !.heard = FALSE] \in Removals
  BY DEF Removals
<1> QED BY <1>1, <1>2 DEF Unheard

\* What has come across the calls stays on record.
LEMMA MessyGrows ==
  ASSUME NEW condition, NEW what, MessyIf(condition, what)
  PROVE  messy \subseteq messy' /\ (condition => what \in messy')
BY DEF MessyIf

LEMMA CommentsFinite ==
  ASSUME PreviewTyped
  PROVE  IsFiniteSet(postComments) /\ Cardinality(postComments) \in Nat
<1>1. previewBudget.next \in Nat
  BY DEF PreviewTyped, PreviewBudgets
<1>2. IsFiniteSet(1 .. previewBudget.next - 1)
  BY <1>1, FS_Interval
<1>3. IsFiniteSet(postComments)
  BY <1>2, FS_Subset DEF PreviewTyped
<1> QED BY <1>3, FS_CardinalityType

\* Unmounting leaves a record, or there was nothing to lose.
LEMMA UnmountedTyped ==
  ASSUME PreviewTyped, Unmounted
  PROVE  \/ commenting' = commenting /\ removing' = removing /\ messy' = messy
         \/ /\ commenting' \subseteq CommentCalls /\ removing' \subseteq Removals
            /\ "lost" \in messy'
<1>1. CASE commenting \union removing # {}
  BY <1>1, UnheardTyped, MessyGrows DEF Unmounted, PreviewTyped
<1>2. CASE commenting \union removing = {}
  BY <1>2, UnheardTyped DEF Unmounted, MessyIf
<1> QED BY <1>1, <1>2

LEMMA CommentClickKeeps == PreviewIInv /\ (handleCommentClick \/ CardScrolledAway) => PreviewIInv'
<1> SUFFICES ASSUME PreviewIInv, handleCommentClick \/ CardScrolledAway PROVE PreviewIInv'
  OBVIOUS
<1> USE DEF PreviewIInv
<1>1. /\ previewBudget' \in PreviewBudgets /\ previewBudget'.next = previewBudget.next
      /\ postComments' = postComments /\ commentCount' = commentCount /\ feedRun' = feedRun
      /\ preview' = preview /\ fetching' = fetching /\ expanded' \in BOOLEAN
  BY PreviewSpendTyped DEF handleCommentClick, CardScrolledAway, PreviewTyped
<1>2. \/ previewRun' = previewRun /\ (expanded' => previewRun.step # "none")
      \/ previewRun'.step = "asked" /\ previewRun' \in PreviewRuns
      \/ ~expanded' /\ previewRun' = NoPreview
  BY DEF handleCommentClick, CardScrolledAway, PreviewQuery, useCommentServiceListTopComments,
         Query, NoPreview, PreviewRuns, PreviewTyped
<1>3. \/ commenting' = commenting /\ removing' = removing /\ messy' = messy
      \/ /\ commenting' \subseteq CommentCalls /\ removing' \subseteq Removals
         /\ "lost" \in messy'
  BY UnmountedTyped DEF handleCommentClick, CardScrolledAway
<1>4. PreviewTyped'
  BY <1>1, <1>2, <1>3 DEF PreviewTyped, NoPreview, PreviewRuns
<1>5. CountFollows'
  BY <1>1, <1>3 DEF CountFollows
<1>6. PreviewFollows'
  BY <1>1, <1>2, <1>3 DEF PreviewFollows, Coming, Going, CommentsOf, NoPreview
<1> QED BY <1>4, <1>5, <1>6

\* The list's own runs: one that is shown leaves the right count, a call that
\* replaces it, or a record.
LEMMA FeedRunKeeps ==
  PreviewIInv /\ (FeedAsked \/ FeedNextAsked \/ FeedServed \/ FeedShown) => PreviewIInv'
<1> SUFFICES ASSUME PreviewIInv, FeedAsked \/ FeedNextAsked \/ FeedServed \/ FeedShown
             PROVE  PreviewIInv'
  OBVIOUS
<1> USE DEF PreviewIInv
<1>1. /\ previewBudget' \in PreviewBudgets /\ previewBudget'.next = previewBudget.next
      /\ UNCHANGED <<postComments, expanded, preview, previewRun, commenting, fetching, removing>>
  BY PreviewSpendTyped DEF FeedAsked, FeedNextAsked, FeedServed, FeedShown, PreviewTyped
<1>2. feedRun' \in CountRuns /\ commentCount' \in Nat
  BY CommentsFinite DEF FeedAsked, FeedNextAsked, FeedServed, FeedShown, NoFeedRun, CountRuns,
                        PreviewTyped
<1>3. messy' = messy \/ messy' = messy \union {"listed"} \/ messy' = messy \ {"listed", "removed"}
  BY DEF FeedAsked, FeedNextAsked, FeedServed, FeedShown
<1>4. PreviewTyped'
  BY <1>1, <1>2 DEF PreviewTyped
<1>5. PreviewFollows'
  BY <1>1, <1>3 DEF PreviewFollows, Coming, Going, CommentsOf
<1>6. CASE ~FeedShown
  BY <1>1, <1>4, <1>5, <1>6 DEF FeedAsked, FeedNextAsked, FeedServed, CountFollows
<1>7. CASE FeedShown
  <2>1. commentCount' = feedRun.count
    BY <1>7 DEF FeedShown
  <2>2. CountFollows'
    <3>1. CASE feedRun.count = Cardinality(postComments) /\ commenting = {}
      BY <1>1, <2>1, <3>1 DEF CountFollows
    <3>2. CASE feedRun.count = Cardinality(postComments) /\ commenting # {}
      <4>1. messy' = messy
        BY <1>7, <3>2 DEF FeedShown
      <4> QED BY <1>1, <2>1, <3>2, <4>1 DEF CountFollows
    <3>3. CASE /\ feedRun.count # Cardinality(postComments)
               /\ \E c \in commenting : c.step = "created"
      <4>1. messy' = messy
        BY <1>7, <3>3 DEF FeedShown
      <4> QED BY <1>1, <3>3, <4>1 DEF CountFollows
    <3>4. CASE /\ feedRun.count # Cardinality(postComments)
               /\ ~\E c \in commenting : c.step = "created"
      <4>1. "listed" \in messy'
        BY <1>7, <3>4 DEF FeedShown
      <4> QED BY <4>1 DEF CountFollows
    <3> QED BY <3>1, <3>2, <3>3, <3>4
  <2> QED BY <1>4, <1>5, <2>2
<1> QED BY <1>6, <1>7

LEMMA PreviewRunKeeps ==
  PreviewIInv /\ (PreviewFocus \/ PreviewServed \/ PreviewShown) => PreviewIInv'
<1> SUFFICES ASSUME PreviewIInv, PreviewFocus \/ PreviewServed \/ PreviewShown
             PROVE  PreviewIInv'
  OBVIOUS
<1> USE DEF PreviewIInv
<1>1. /\ previewBudget' \in PreviewBudgets /\ previewBudget'.next = previewBudget.next
      /\ postComments' = postComments /\ commentCount' = commentCount /\ feedRun' = feedRun
      /\ commenting' = commenting /\ fetching' = fetching /\ removing' = removing
      /\ expanded' = expanded /\ messy \subseteq messy'
  BY PreviewSpendTyped, MessyGrows
  DEF PreviewFocus, PreviewServed, PreviewShown, PreviewTyped
<1>2. /\ previewRun' \in PreviewRuns
      /\ \/ previewRun'.step = "asked" /\ preview' = preview
         \/ previewRun'.step = "served" /\ previewRun'.value = postComments /\ preview' = preview
         \/ PreviewShown /\ previewRun'.step = "none" /\ previewRun' = NoPreview
  BY DEF PreviewFocus, PreviewServed, PreviewShown, NoPreview, PreviewRuns, PreviewTyped
<1>3. PreviewTyped'
  BY <1>1, <1>2 DEF PreviewTyped
<1>4. CountFollows'
  BY <1>1 DEF CountFollows
<1>5. ASSUME PreviewShown, messy' \intersect {"overlap", "lost", "crossed", "foreign"} = {}
      PROVE  /\ postComments \ preview'[1] \subseteq Coming
             /\ preview'[1] \ postComments \subseteq Going
  <2>1. /\ messy \intersect {"overlap", "lost", "crossed", "foreign"} = {}
        /\ previewRun.step = "served" /\ preview' = <<previewRun.value>>
    BY <1>1, <1>5 DEF PreviewShown
  <2>2. \/ preview = <<>>
        \/ (preview[1] \ previewRun.value) \intersect postComments = {}
    BY <1>5 DEF PreviewShown, MessyIf
  <2>3. /\ postComments \ previewRun.value \subseteq Coming \union CommentsOf(preview)
        /\ previewRun.value \ postComments \subseteq Going
    BY <2>1 DEF PreviewFollows
  <2>4. preview'[1] = previewRun.value
    BY <2>1
  <2> QED BY <2>2, <2>3, <2>4 DEF CommentsOf
<1>6. Coming' = Coming /\ Going' = Going
  BY <1>1 DEF Coming, Going
<1>7. PreviewFollows'
  BY <1>1, <1>2, <1>5, <1>6 DEF PreviewFollows
<1> QED BY <1>3, <1>4, <1>7

LEMMA SubmitCommentKeeps == PreviewIInv /\ SubmitComment => PreviewIInv'
<1> SUFFICES ASSUME PreviewIInv, SubmitComment PROVE PreviewIInv'
  OBVIOUS
<1> USE DEF PreviewIInv
<1> DEFINE asked == [turn |-> previewBudget.posts, step |-> "sent", heard |-> TRUE,
                    count |-> commentCount, comment |-> 0]
<1>1. /\ previewBudget' \in PreviewBudgets /\ previewBudget'.next = previewBudget.next
      /\ UNCHANGED <<postComments, commentCount, feedRun, expanded, preview, previewRun,
                     fetching, removing>>
      /\ MessyIf(commenting # {}, "overlap")
      /\ commenting' = Unheard(commenting) \union {asked}
  BY PreviewSpendTyped DEF SubmitComment, PreviewTyped
<1>2. /\ asked \in CommentCalls /\ asked.step = "sent" /\ asked.heard /\ asked.count = commentCount
      /\ asked.step # "created"
  BY DEF CommentCalls, PreviewTyped, PreviewBudgets
<1> HIDE DEF asked
<1>3. PreviewTyped'
  BY <1>1, <1>2, UnheardTyped DEF PreviewTyped
<1>4. \/ "overlap" \in messy'
      \/ commenting = {} /\ commenting' = {asked} /\ messy' = messy
  BY <1>1, UnheardTyped DEF MessyIf
<1>5. CountFollows'
  BY <1>1, <1>2, <1>4 DEF CountFollows
<1>6. commenting = {} /\ commenting' = {asked} => Coming' = Coming /\ Going' = Going
  BY <1>1, <1>2 DEF Coming, Going
<1>7. PreviewFollows'
  BY <1>1, <1>2, <1>4, <1>6 DEF PreviewFollows
<1> QED BY <1>3, <1>5, <1>7

LEMMA UpToNext ==
  ASSUME NEW n \in Nat \ {0}, NEW S, S \subseteq 1 .. n - 1
  PROVE  S \union {n} \subseteq 1 .. n
<1>1. \A x \in S : x \in 1 .. n
  OBVIOUS
<1>2. n \in 1 .. n
  OBVIOUS
<1> QED BY <1>1, <1>2

LEMMA CommentCreatedKeeps ==
  ASSUME PreviewIInv, NEW c \in commenting, CommentCreated(c)
  PROVE  PreviewIInv'
<1> USE DEF PreviewIInv
<1> DEFINE new  == previewBudget.next
           made == [c EXCEPT !.step = "created", !.comment = new]
<1>1. c \in CommentCalls /\ c.step = "sent" /\ new \in Nat
  BY DEF CommentCreated, PreviewTyped, PreviewBudgets
<1>2. /\ made \in CommentCalls /\ made.step = "created" /\ made.comment = new
      /\ made.heard = c.heard /\ made.count = c.count
  BY <1>1 DEF CommentCalls
<1> HIDE DEF made
<1>3. /\ postComments' = postComments \union {new} /\ new \notin postComments
      /\ previewBudget' \in PreviewBudgets /\ previewBudget'.next = new + 1
      /\ UNCHANGED <<commentCount, feedRun, expanded, preview, previewRun, fetching, removing,
                     messy>>
  BY DEF CommentCreated, PreviewTyped, PreviewBudgets
<1>4. commenting' = (commenting \ {c}) \union (IF c.heard THEN {made} ELSE {})
  BY DEF CommentCreated, made
<1>5. PreviewTyped'
  <2>1. postComments' \subseteq 1 .. previewBudget'.next - 1
    <3>1. previewBudget'.next - 1 = new /\ new \in Nat \ {0}
      BY <1>1, <1>3 DEF PreviewTyped, PreviewBudgets
    <3>2. postComments \subseteq 1 .. new - 1
      BY DEF PreviewTyped
    <3>3. postComments \union {new} \subseteq 1 .. new
      BY <3>1, <3>2, UpToNext
    <3> QED BY <1>3, <3>1, <3>3
  <2>2. commenting' \subseteq CommentCalls
    BY <1>2, <1>4 DEF PreviewTyped
  <2> QED BY <1>3, <2>1, <2>2 DEF PreviewTyped
<1>6. Cardinality(postComments') = Cardinality(postComments) + 1
  BY <1>3, CommentsFinite, FS_AddElement
<1>7. CountFollows'
  <2> SUFFICES ASSUME messy \intersect {"overlap", "lost", "removed", "listed", "foreign"} = {}
               PROVE  /\ commenting' = {made} /\ made.heard
                      /\ made.count + 1 = Cardinality(postComments')
    BY <1>2, <1>3 DEF CountFollows
  <2>1. /\ commenting = {c} /\ c.heard /\ c.count = Cardinality(postComments)
    BY <1>1 DEF CountFollows
  <2> QED BY <1>2, <1>4, <1>6, <2>1
<1>8. PreviewFollows'
  <2> SUFFICES ASSUME messy \intersect {"overlap", "lost", "crossed", "foreign"} = {}
               PROVE  PreviewFollows'
    BY <1>3 DEF PreviewFollows
  <2>1. c.heard /\ commenting' = (commenting \ {c}) \union {made} /\ made.heard
    BY <1>2, <1>4 DEF PreviewFollows
  <2>2. Coming' = Coming \union {new} /\ Going' = Going
    BY <1>1, <1>2, <1>3, <2>1 DEF Coming, Going
  <2>3. CommentsOf(preview)' = CommentsOf(preview)
    BY <1>3 DEF CommentsOf
  <2> QED BY <1>3, <2>1, <2>2, <2>3 DEF PreviewFollows
<1> QED BY <1>5, <1>7, <1>8

LEMMA CommentPostedKeeps ==
  ASSUME PreviewIInv, NEW c \in commenting, handleCommentPosted(c)
  PROVE  PreviewIInv'
<1> USE DEF PreviewIInv
<1> DEFINE load == [comment |-> c.comment, step |-> "asked"]
<1>1. c \in CommentCalls /\ c.step = "created"
  BY DEF handleCommentPosted, PreviewTyped
<1>2. load \in Loads /\ load.step = "asked" /\ load.comment = c.comment
  BY <1>1 DEF CommentCalls, Loads
<1>3. /\ commentCount' = c.count + 1 /\ commentCount' \in Nat
      /\ fetching' = fetching \union {load}
      /\ commenting' = commenting \ {c}
      /\ UNCHANGED <<postComments, feedRun, expanded, preview, previewRun, removing, messy,
                     previewBudget>>
  BY <1>1 DEF handleCommentPosted, CommentCalls
<1> HIDE DEF load
<1>4. PreviewTyped'
  BY <1>2, <1>3 DEF PreviewTyped
<1>5. CountFollows'
  <2> SUFFICES ASSUME messy \intersect {"overlap", "lost", "removed", "listed", "foreign"} = {}
               PROVE  commenting' = {} /\ commentCount' = Cardinality(postComments)
    BY <1>3 DEF CountFollows
  <2>1. commenting = {c} /\ c.count + 1 = Cardinality(postComments)
    BY <1>1 DEF CountFollows
  <2> QED BY <1>3, <2>1
<1>6. Coming' = Coming /\ Going' = Going /\ CommentsOf(preview)' = CommentsOf(preview)
  BY <1>1, <1>2, <1>3 DEF Coming, Going, CommentsOf
<1>7. PreviewFollows'
  BY <1>2, <1>3, <1>6 DEF PreviewFollows
<1> QED BY <1>4, <1>5, <1>7

LEMMA CommentFetchedKeeps ==
  ASSUME PreviewIInv, NEW l \in fetching, CommentFetched(l)
  PROVE  PreviewIInv'
<1> USE DEF PreviewIInv
<1> DEFINE come == [l EXCEPT !.step = "served"]
<1>1. l \in Loads
  BY DEF PreviewTyped
<1>2. come \in Loads /\ come.step = "served" /\ come.comment = l.comment
  BY <1>1 DEF Loads
<1>3. /\ fetching' = (fetching \ {l}) \union (IF l.comment \in postComments THEN {come} ELSE {})
      /\ UNCHANGED <<postComments, commentCount, feedRun, expanded, preview, previewRun, commenting,
                     removing, messy, previewBudget>>
  BY DEF CommentFetched, commentServiceGetComment, Get, Request, come
<1> HIDE DEF come
<1>4. PreviewTyped' /\ CountFollows'
  BY <1>2, <1>3 DEF PreviewTyped, CountFollows
<1>5. /\ Coming \intersect postComments \subseteq Coming'
      /\ Going' = Going /\ CommentsOf(preview)' = CommentsOf(preview)
  BY <1>2, <1>3 DEF Coming, Going, CommentsOf
<1>6. PreviewFollows'
  BY <1>2, <1>3, <1>5 DEF PreviewFollows
<1> QED BY <1>4, <1>6

LEMMA CommentShownKeeps ==
  ASSUME PreviewIInv, NEW l \in fetching, CommentShown(l)
  PROVE  PreviewIInv'
<1> USE DEF PreviewIInv
<1>1. /\ l.step = "served" /\ fetching' = fetching \ {l}
      /\ preview' = IF preview = <<>> THEN preview ELSE <<preview[1] \union {l.comment}>>
      /\ MessyIf(preview = <<>> /\ previewRun # NoPreview, "crossed")
      /\ UNCHANGED <<postComments, commentCount, feedRun, expanded, previewRun, commenting, removing,
                     previewBudget>>
  BY DEF CommentShown
<1>2. PreviewTyped' /\ CountFollows'
  BY <1>1, MessyGrows DEF PreviewTyped, CountFollows
<1>3. Coming \ {l.comment} \subseteq Coming' /\ Going' = Going
  BY <1>1 DEF Coming, Going
<1>4. PreviewFollows'
  <2> SUFFICES ASSUME messy' \intersect {"overlap", "lost", "crossed", "foreign"} = {}
               PROVE  PreviewFollows'
    BY DEF PreviewFollows
  <2>1. messy \intersect {"overlap", "lost", "crossed", "foreign"} = {}
    BY <1>1, MessyGrows
  <2>2. l.comment \in postComments
    BY <1>1, <2>1 DEF PreviewFollows
  <2>3. CASE preview = <<>>
    <3>1. previewRun = NoPreview /\ preview' = <<>>
      BY <1>1, <2>3, MessyGrows
    <3>2. previewRun'.step = "none"
      BY <1>1, <3>1 DEF NoPreview
    <3> QED BY <1>1, <2>1, <3>1, <3>2 DEF PreviewFollows
  <2>4. CASE preview # <<>>
    <3>1. preview' # <<>> /\ preview'[1] = preview[1] \union {l.comment}
      BY <1>1, <2>4
    <3>2. CommentsOf(preview)' = CommentsOf(preview) \union {l.comment}
      BY <2>4, <3>1 DEF CommentsOf
    <3> QED BY <1>1, <1>3, <2>1, <2>2, <2>4, <3>1, <3>2 DEF PreviewFollows
  <2> QED BY <2>3, <2>4
<1> QED BY <1>2, <1>4

LEMMA RemoveCommentKeeps ==
  ASSUME PreviewIInv, NEW r \in 1 .. OldComments + MaxCommentPosts, RemoveComment(r)
  PROVE  PreviewIInv'
<1> USE DEF PreviewIInv
<1> DEFINE asked == [comment |-> r, step |-> "sent", heard |-> TRUE]
<1>1. asked \in Removals /\ asked.step = "sent" /\ asked.heard /\ asked.step # "deleted"
  BY PreviewBounds DEF Removals
<1>2. /\ removing' = removing \union {asked}
      /\ previewBudget' \in PreviewBudgets /\ previewBudget'.next = previewBudget.next
      /\ UNCHANGED <<postComments, commentCount, feedRun, expanded, preview, previewRun, commenting,
                     fetching, messy>>
  BY PreviewSpendTyped DEF RemoveComment, PreviewTyped
<1> HIDE DEF asked
<1>3. PreviewTyped' /\ CountFollows'
  BY <1>1, <1>2 DEF PreviewTyped, CountFollows
<1>4. Coming' = Coming /\ Going' = Going /\ CommentsOf(preview)' = CommentsOf(preview)
  BY <1>1, <1>2 DEF Coming, Going, CommentsOf
<1>5. PreviewFollows'
  BY <1>1, <1>2, <1>4 DEF PreviewFollows
<1> QED BY <1>3, <1>5

LEMMA CommentRemovedKeeps ==
  ASSUME PreviewIInv, NEW c \in removing, CommentRemoved(c)
  PROVE  PreviewIInv'
<1> USE DEF PreviewIInv
<1> DEFINE done == [c EXCEPT !.step = "deleted"]
<1>1. c \in Removals /\ c.step = "sent"
  BY DEF CommentRemoved, PreviewTyped
<1>2. /\ done \in Removals /\ done.step = "deleted" /\ done.comment = c.comment
      /\ done.heard = c.heard
  BY <1>1 DEF Removals
<1>3. /\ postComments' = postComments \ {c.comment}
      /\ removing' = (removing \ {c}) \union
           (IF c.heard /\ c.comment \in postComments THEN {done} ELSE {})
      /\ messy' = messy \union {"removed"} \union
           (IF c.comment \in {l.comment : l \in fetching} THEN {"crossed"} ELSE {})
      /\ UNCHANGED <<commentCount, feedRun, expanded, preview, previewRun, commenting, fetching,
                     previewBudget>>
  BY DEF CommentRemoved, commentServiceDeleteComment, Request, done
<1> HIDE DEF done
<1>4. PreviewTyped' /\ CountFollows'
  BY <1>2, <1>3 DEF PreviewTyped, CountFollows
<1>5. PreviewFollows'
  <2> SUFFICES ASSUME messy' \intersect {"overlap", "lost", "crossed", "foreign"} = {}
               PROVE  PreviewFollows'
    BY DEF PreviewFollows
  <2>1. /\ messy \intersect {"overlap", "lost", "crossed", "foreign"} = {}
        /\ c.comment \notin {l.comment : l \in fetching}
    BY <1>3
  <2>2. c.heard
    BY <2>1 DEF PreviewFollows
  <2>3. Coming' = Coming /\ CommentsOf(preview)' = CommentsOf(preview)
    BY <1>3 DEF Coming, CommentsOf
  <2>4. /\ Going \subseteq Going'
        /\ c.comment \in postComments => c.comment \in Going'
    BY <1>1, <1>2, <1>3, <2>2 DEF Going
  <2>5. \A d \in commenting' \union removing' : d.heard
    BY <1>2, <1>3, <2>1, <2>2 DEF PreviewFollows
  <2>6. \A l \in fetching' : l.step = "served" => l.comment \in postComments'
    BY <1>3, <2>1 DEF PreviewFollows
  <2> QED BY <1>3, <2>1, <2>3, <2>4, <2>5, <2>6 DEF PreviewFollows
<1> QED BY <1>4, <1>5

LEMMA HandleRemoveCommentKeeps ==
  ASSUME PreviewIInv, NEW c \in removing, handleRemoveComment(c)
  PROVE  PreviewIInv'
<1> USE DEF PreviewIInv
<1>1. /\ removing' = removing \ {c}
      /\ previewRun' \in PreviewRuns /\ previewRun'.step = "asked"
      /\ UNCHANGED <<postComments, commentCount, feedRun, expanded, preview, commenting, fetching, messy,
                     previewBudget>>
  BY DEF handleRemoveComment, NoPreview, PreviewRuns
<1>2. PreviewTyped' /\ CountFollows'
  BY <1>1 DEF PreviewTyped, CountFollows
<1>3. PreviewFollows'
  BY <1>1 DEF PreviewFollows
<1> QED BY <1>2, <1>3

LEMMA PreviewFaultKeeps == PreviewIInv /\ PreviewFault => PreviewIInv'
<1> SUFFICES ASSUME PreviewIInv, PreviewFault PROVE PreviewIInv'
  OBVIOUS
<1> USE DEF PreviewIInv
<1>1. /\ previewBudget' \in PreviewBudgets /\ previewBudget'.next = previewBudget.next
      /\ UNCHANGED <<postComments, commentCount, expanded, preview>>
  BY PreviewSpendTyped DEF PreviewFault, PreviewTyped
<1>2. NoPreview \in PreviewRuns /\ NoFeedRun \in CountRuns
  BY DEF NoPreview, PreviewRuns, NoFeedRun, CountRuns
<1>3. /\ commenting' \subseteq commenting /\ fetching' \subseteq fetching
      /\ removing' \subseteq removing /\ feedRun' \in CountRuns
      /\ previewRun' \in PreviewRuns /\ (previewRun'.step = "none" => previewRun' = NoPreview)
  BY <1>2 DEF PreviewFault, PreviewTyped
<1>4. \/ "lost" \in messy'
      \/ /\ messy' = messy /\ UNCHANGED <<previewRun, fetching, removing>>
         /\ \E c \in commenting : c.step # "created" /\ commenting' = commenting \ {c}
      \/ /\ messy' = messy /\ UNCHANGED <<previewRun, commenting, fetching>>
         /\ \E c \in removing : c.step # "deleted" /\ removing' = removing \ {c}
      \/ messy' = messy /\ UNCHANGED <<previewRun, commenting, fetching, removing>>
  BY DEF PreviewFault, MessyIf
<1>5. PreviewTyped'
  BY <1>1, <1>3 DEF PreviewTyped
<1>6. CASE "lost" \in messy'
  BY <1>5, <1>6 DEF CountFollows, PreviewFollows
<1>7. ASSUME messy' = messy, UNCHANGED <<previewRun, fetching, removing>>,
             NEW c \in commenting, c.step # "created", commenting' = commenting \ {c}
      PROVE  PreviewIInv'
  <2>1. CountFollows'
    <3> SUFFICES ASSUME messy \intersect {"overlap", "lost", "removed", "listed", "foreign"} = {}
                 PROVE  commenting' = {} /\ commentCount = Cardinality(postComments)
      BY <1>1, <1>7 DEF CountFollows
    <3>1. c.step = "sent"
      BY <1>7 DEF PreviewTyped, CommentCalls
    <3> QED BY <1>7, <3>1 DEF CountFollows
  <2>2. Coming' = Coming /\ Going' = Going /\ CommentsOf(preview)' = CommentsOf(preview)
    BY <1>1, <1>7 DEF Coming, Going, CommentsOf
  <2>3. PreviewFollows'
    BY <1>1, <1>7, <2>2 DEF PreviewFollows
  <2> QED BY <1>5, <2>1, <2>3
<1>8. ASSUME messy' = messy, UNCHANGED <<previewRun, commenting, fetching>>,
             NEW c \in removing, c.step # "deleted", removing' = removing \ {c}
      PROVE  PreviewIInv'
  <2>1. CountFollows'
    BY <1>1, <1>8 DEF CountFollows
  <2>2. Coming' = Coming /\ Going' = Going /\ CommentsOf(preview)' = CommentsOf(preview)
    BY <1>1, <1>8 DEF Coming, Going, CommentsOf
  <2>3. PreviewFollows'
    BY <1>1, <1>8, <2>2 DEF PreviewFollows
  <2> QED BY <1>5, <2>1, <2>3
<1>9. CASE messy' = messy /\ UNCHANGED <<previewRun, commenting, fetching, removing>>
  BY <1>1, <1>5, <1>9 DEF CountFollows, PreviewFollows, Coming, Going, CommentsOf
<1> QED BY <1>4, <1>6, <1>7, <1>8, <1>9

LEMMA CommentGoneKeeps == PreviewIInv /\ CommentGone => PreviewIInv'
<1> SUFFICES ASSUME PreviewIInv, CommentGone PROVE PreviewIInv'
  OBVIOUS
<1> USE DEF PreviewIInv
<1>1. /\ previewBudget' \in PreviewBudgets /\ previewBudget'.next = previewBudget.next
      /\ postComments' \subseteq postComments /\ "foreign" \in messy'
      /\ UNCHANGED <<commentCount, feedRun, expanded, preview, previewRun, commenting, fetching,
                     removing>>
  BY PreviewSpendTyped DEF CommentGone, PreviewTyped
<1>2. PreviewTyped' /\ CountFollows' /\ PreviewFollows'
  BY <1>1 DEF PreviewTyped, CountFollows, PreviewFollows
<1> QED BY <1>2

LEMMA PreviewNextKeeps == PreviewIInv /\ [PreviewNext]_previewVars => PreviewIInv'
<1> SUFFICES ASSUME PreviewIInv, [PreviewNext]_previewVars PROVE PreviewIInv'
  OBVIOUS
<1>1. CASE UNCHANGED previewVars
  BY <1>1 DEF PreviewIInv, PreviewTyped, CountFollows, PreviewFollows, Coming, Going, CommentsOf,
              previewVars
<1>2. CASE PreviewNext
  BY <1>2, CommentClickKeeps, FeedRunKeeps, PreviewRunKeeps, SubmitCommentKeeps, CommentCreatedKeeps,
     CommentPostedKeeps, CommentFetchedKeeps, CommentShownKeeps, RemoveCommentKeeps,
     CommentRemovedKeeps, HandleRemoveCommentKeeps, PreviewFaultKeeps, CommentGoneKeeps
  DEF PreviewNext, PreviewProgress
<1> QED BY <1>1, <1>2

LEMMA PreviewFaithful == PreviewIInv => PreviewIsFaithful
<1> SUFFICES ASSUME PreviewIInv PROVE PreviewIsFaithful
  OBVIOUS
<1>1. CommentCountExact
  BY DEF PreviewIInv, CountFollows, CommentCountExact, PreviewAtRest
<1>2. PreviewIsCurrent
  <2> SUFFICES ASSUME PreviewAtRest, expanded, preview # <<>>,
                      messy \intersect {"overlap", "lost", "crossed", "foreign"} = {}
               PROVE  preview[1] = postComments
    BY DEF PreviewIsCurrent
  <2>1. previewRun.step = "none" /\ Coming = {} /\ Going = {}
    BY DEF PreviewAtRest, NoPreview, Coming, Going
  <2> QED BY <2>1 DEF PreviewIInv, PreviewFollows
<1> QED BY <1>1, <1>2 DEF PreviewIsFaithful

\* At rest, the comments under a card are the post's and so is their number,
\* unless the viewer's calls overlapped, one was not heard of, or (the number)
\* a comment was deleted or a run of the list that a comment had overtaken was
\* shown last: for any number of comments, posts, deletions and runs.
THEOREM PreviewCorrect == ClientSpec => []PreviewIsFaithful
BY PreviewFaithful, PartsImplemented, PreviewInitIInv, PreviewNextKeeps, PTL
=============================================================================
