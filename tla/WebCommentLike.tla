---------------------------- MODULE WebCommentLike ----------------------------
(***************************************************************************)
(* The thumb of a comment in the web client: on the comment itself          *)
(* (post-comment.tsx), on a reply (post-reply.tsx) and on a message         *)
(* (message-comment-card.tsx).  All of them send Number of what the click   *)
(* shows, where the thumb of a post sends Number of what it showed before   *)
(* (WebPost): a new like is sent as 1, REMOVE.                              *)
(*                                                                         *)
(* The comment and the reply do not wait for a call before the next click;  *)
(* a second mutate of the same hook takes the callbacks of the first away.  *)
(***************************************************************************)
EXTENDS WebApi, FiniteSets

CONSTANTS
  liked_comment,
  MaxThumbClicks, \* bound: clicks
  MaxThumbFaults  \* bound: calls that fail

ASSUME ThumbBounds == MaxThumbClicks \in Nat /\ MaxThumbFaults \in Nat

VARIABLES
  thumbCard,  \* where the thumb is: "comment", "reply" or "message"
  likes,      \* the server's edge of the viewer, and likeCount
  thumb,      \* what is shown of it
  likeCalls,  \* calls under way: action, what was shown before, step; only
              \* the callbacks of the last are still heard
  refused,    \* history: a call has failed
  thumbBudget

thumbVars == <<thumbCard, likes, thumb, likeCalls, refused, thumbBudget>>

Others == 1 \* likes of others

ThumbInit ==
  /\ thumbCard = "none"
  /\ likes = [on |-> FALSE, count |-> Others]
  /\ thumb = [on |-> FALSE, count |-> 0]
  /\ likeCalls = {}
  /\ refused = FALSE
  /\ thumbBudget = [clicks |-> MaxThumbClicks, faults |-> MaxThumbFaults]

\* A comment or a reply is shown as it was listed; a message starts with an
\* empty thumb and without a counter, whatever the server has.
ThumbMount ==
  /\ thumbCard = "none"
  /\ thumbCard' \in {"comment", "reply", "message"}
  /\ \E on \in BOOLEAN : likes' = [on |-> on, count |-> Others + Number(on)]
  /\ thumb' = IF thumbCard' = "message" THEN thumb ELSE likes'
  /\ UNCHANGED <<likeCalls, refused, thumbBudget>>

Muted == {[c EXCEPT !.heard = FALSE] : c \in likeCalls}

\* handleLike: next is shown at once and its Number sent.  isLiking holds a
\* message back; the turn tells the calls apart.
HandleLike(next) ==
  /\ thumbBudget.clicks > 0
  /\ thumb' = next
  /\ LET request == commentServiceLikeComment(liked_comment, ToggleActionRequest(next.on))
     IN  likeCalls' = Muted \union
           {[turn |-> thumbBudget.clicks, action |-> request.data.action,
             before |-> thumb, step |-> "sent", heard |-> TRUE]}
  /\ thumbBudget' = [thumbBudget EXCEPT !.clicks = @ - 1]
  /\ UNCHANGED <<thumbCard, likes, refused>>

LikeComment == thumbCard = "comment" /\ HandleLike(Turned(thumb))

\* The change of the counter is the one of the render that was clicked.
Swing(before) == IF before.on THEN -1 ELSE 1
LikeReply ==
  thumbCard = "reply" /\ HandleLike([on |-> ~thumb.on, count |-> thumb.count + Swing(thumb)])

LikeMessage ==
  thumbCard = "message" /\ likeCalls = {} /\ HandleLike([thumb EXCEPT !.on = ~@])

LikeServed(c) ==
  /\ c.step = "sent"
  /\ likes' = Toggled(likes, c.action)
  /\ likeCalls' = likeCalls \ {c}
  /\ UNCHANGED <<thumbCard, thumb, refused, thumbBudget>>

\* The call fails before or after the server has executed it; the error is
\* on its way.
LikeFails(c) ==
  /\ c.step = "sent" /\ thumbBudget.faults > 0
  /\ likes' \in {likes, Toggled(likes, c.action)}
  /\ likeCalls' = (likeCalls \ {c}) \union {[c EXCEPT !.step = "error"]}
  /\ thumbBudget' = [thumbBudget EXCEPT !.faults = @ - 1]
  /\ UNCHANGED <<thumbCard, thumb, refused>>

\* Plausible bug: every card goes back the way a reply does.
LikeRefusedSwings(c) ==
  /\ c.step = "error"
  /\ thumb' = IF ~c.heard THEN thumb
              ELSE [on |-> ~thumb.on, count |-> thumb.count + Swing(c.before)]
  /\ likeCalls' = likeCalls \ {c}
  /\ refused' = (refused \/ c.heard)
  /\ UNCHANGED <<thumbCard, likes, thumbBudget>>

\* onError: a comment and a message show what the click's render showed.  A
\* reply turns what is shown now and adds the swing of the click again.
LikeRefused(c) ==
  /\ c.step = "error"
  /\ thumb' = CASE ~c.heard -> thumb
                [] c.heard /\ thumbCard = "reply" ->
                     [on |-> ~thumb.on, count |-> thumb.count + Swing(c.before)]
                [] OTHER -> c.before
  /\ likeCalls' = likeCalls \ {c}
  /\ refused' = (refused \/ c.heard)
  /\ UNCHANGED <<thumbCard, likes, thumbBudget>>

ThumbProgress == \E c \in likeCalls : LikeServed(c) \/ LikeRefused(c)

ThumbNext ==
  \/ ThumbProgress
  \/ ThumbMount \/ LikeComment \/ LikeReply \/ LikeMessage
  \/ \E c \in likeCalls : LikeFails(c)

\* The thumb alone.
ThumbSpec == ThumbInit /\ [][ThumbNext]_thumbVars

-----------------------------------------------------------------------------
\* Every variable holds a value of its type.
ThumbTypeOK ==
  /\ likes.on \in BOOLEAN /\ likes.count \in Others .. Others + 1
  /\ thumb.on \in BOOLEAN /\ thumb.count \in Int
  /\ \A c \in likeCalls : c.action \in {ADD, REMOVE} /\ c.step \in {"sent", "error"}

ThumbAtRest == likeCalls = {}

\* The counter goes with the thumb: it shows the others' likes and the
\* viewer's as the thumb shows it, however clicks overlap and fail.  On a
\* reply only while no call has failed: its onError adds what it should take
\* back.
CounterFollowsThumb ==
  thumbCard = "comment" \/ (thumbCard = "reply" /\ ~refused)
    => thumb.count = Others + Number(thumb.on)

\* A thumb clicked once, with no call failed, shows what the server has.
\* proto/common.proto: ADD = 0 and REMOVE = 1.
LikedAsShown ==
  /\ ThumbAtRest /\ thumbCard \in {"comment", "reply"} /\ ~refused
  /\ thumbBudget.clicks = MaxThumbClicks - 1 /\ thumbBudget.faults = MaxThumbFaults
  => thumb = likes
=============================================================================
