------------------------------ MODULE WebAccount ------------------------------
(***************************************************************************)
(* An account and the forms about it: the sign-up (signup-form.tsx,         *)
(* CreateUser of user_service.go) and the profile center                    *)
(* (profile-center-card.tsx, UpdateMe), where what has been edited lies     *)
(* over what the server said until it has been saved and read again.        *)
(*                                                                         *)
(* A value of a field is a number, of an avatar the number of its object;   *)
(* 0 is "not edited".                                                       *)
(***************************************************************************)
EXTENDS WebApi, FiniteSets

CONSTANTS
  MaxSignUps,      \* bound: clicks on "Create Account"
  MaxEdits,        \* bound: changes of the nickname, uploads of an avatar, resets
  MaxSaves,        \* bound: clicks on "Save profile"
  MaxMeReads,      \* bound: refetches when the window gains the focus
  MaxAccountFaults \* bound: calls that fail

ASSUME AccountBounds ==
  {MaxSignUps, MaxEdits, MaxSaves, MaxMeReads, MaxAccountFaults} \subseteq Nat

Fields    == {"nickname", "avatar"}
Untouched == [field \in Fields |-> 0]

VARIABLES
  signUp,   \* the call of SignupForm, with the transaction of CreateUser
  account,  \* the row of users
  pictures, \* avatars in the object storage
  me,       \* the query of GetMe in the profile center; Untouched: no data
  profile,  \* the overlay: what has been edited
  avatarUp, \* the upload of an avatar
  update,   \* the call of handleProfileSubmit
  meRead,   \* the run of the query, and what waits for it
  wanted,   \* history: the edits that have been made last
  crossed,  \* history: what has come across the edits
  accountBudget

accountVars == <<signUp, account, pictures, me, profile, avatarUp, update, meRead,
                 wanted, crossed, accountBudget>>

NoUpdate == [step |-> "none", user |-> Untouched]
NoMeRead == [step |-> "none", saved |-> FALSE, user |-> Untouched]
NoUpload == [step |-> "none", picture |-> 0]

AccountInit ==
  /\ signUp = NoUpload
  /\ account = Untouched
  /\ pictures = {}
  /\ me = Untouched
  /\ profile = Untouched
  /\ avatarUp = NoUpload
  /\ update = NoUpdate
  /\ meRead = NoMeRead
  /\ wanted = Untouched
  /\ crossed = {}
  /\ accountBudget = [signUps |-> MaxSignUps, edits |-> MaxEdits, saves |-> MaxSaves,
                      reads |-> MaxMeReads, faults |-> MaxAccountFaults]

AccountSpend(what) ==
  /\ accountBudget[what] > 0
  /\ accountBudget' = [accountBudget EXCEPT ![what] = @ - 1]

\* A number that has not been used: a new object, or a new nickname.
Fresh == 1 + MaxSignUps + MaxEdits - accountBudget.signUps - accountBudget.edits

-----------------------------------------------------------------------------
\* Sign-up.  The button is disabled while the call is pending; the form is
\* left for the login page when it succeeds.

SubmitSignUp ==
  /\ signUp.step = "none" /\ me = Untouched
  /\ signUp' = [step |-> "sent", picture |-> userServiceCreateUser(Fresh).data]
  /\ AccountSpend("signUps")
  /\ UNCHANGED <<account, pictures, me, profile, avatarUp, update, meRead, wanted, crossed>>

\* Plausible bug: the avatar is put after the commit.
CommitBeforeAvatar ==
  /\ signUp.step = "sent"
  /\ IF account = Untouched
     THEN /\ account' = [nickname |-> signUp.picture, avatar |-> signUp.picture]
          /\ signUp' = [signUp EXCEPT !.step = "put"]
     ELSE /\ signUp' = NoUpload
          /\ UNCHANGED account
  /\ UNCHANGED <<pictures, me, profile, avatarUp, update, meRead, wanted, crossed, accountBudget>>

\* The insert, which finds a username that exists, and PutObject: a failure
\* of either rolls back.
PutDefaultAvatar ==
  /\ signUp.step = "sent"
  /\ IF account = Untouched
     THEN /\ pictures' = pictures \union {signUp.picture}
          /\ signUp' = [signUp EXCEPT !.step = "put"]
     ELSE /\ signUp' = NoUpload
          /\ UNCHANGED pictures
  /\ UNCHANGED <<account, me, profile, avatarUp, update, meRead, wanted, crossed, accountBudget>>

\* The job is inserted and the transaction commits.
CommitUser ==
  /\ signUp.step = "put"
  /\ account' = [nickname |-> signUp.picture, avatar |-> signUp.picture]
  /\ signUp' = [signUp EXCEPT !.step = "done"]
  /\ UNCHANGED <<pictures, me, profile, avatarUp, update, meRead, wanted, crossed, accountBudget>>

\* The transaction fails after the object has been put, or the answer of one
\* that was committed is lost.
SignUpFails ==
  /\ signUp.step # "none"
  /\ signUp' = NoUpload
  /\ AccountSpend("faults")
  /\ UNCHANGED <<account, pictures, me, profile, avatarUp, update, meRead, wanted, crossed>>

\* The account is used to log in, and the profile center opened.
OpenProfileCenter ==
  /\ signUp.step \in {"none", "done"} /\ account # Untouched /\ me = Untouched
  /\ signUp' = NoUpload
  /\ me' = account
  /\ UNCHANGED <<account, pictures, profile, avatarUp, update, meRead, wanted, crossed, accountBudget>>

-----------------------------------------------------------------------------
\* The profile center.

\* What the edits in the form have to fear: a save that has not been read yet.
Saving == update.step # "none" \/ meRead.saved

Edit(field, value) ==
  /\ profile' = [profile EXCEPT ![field] = value]
  /\ wanted' = [wanted EXCEPT ![field] = value]
  /\ crossed' = IF Saving THEN crossed \union {"edit"} ELSE crossed

EditNickname ==
  /\ me # Untouched
  /\ Edit("nickname", Fresh)
  /\ AccountSpend("edits")
  /\ UNCHANGED <<signUp, account, pictures, me, avatarUp, update, meRead>>

\* handleAvatarChange: one upload at a time.
ChooseAvatar ==
  /\ me # Untouched /\ avatarUp = NoUpload
  /\ avatarUp' = [step |-> "sent", picture |-> fileServiceUploadFile(Fresh).data]
  /\ AccountSpend("edits")
  /\ UNCHANGED <<signUp, account, pictures, me, profile, update, meRead, wanted, crossed>>

AvatarStored ==
  /\ avatarUp.step = "sent"
  /\ pictures' = pictures \union {avatarUp.picture}
  /\ avatarUp' = [avatarUp EXCEPT !.step = "stored"]
  /\ UNCHANGED <<signUp, account, me, profile, update, meRead, wanted, crossed, accountBudget>>

AvatarShown ==
  /\ avatarUp.step = "stored"
  /\ Edit("avatar", avatarUp.picture)
  /\ avatarUp' = NoUpload
  /\ UNCHANGED <<signUp, account, pictures, me, update, meRead, accountBudget>>

AvatarFails ==
  /\ avatarUp.step # "none"
  /\ avatarUp' = NoUpload
  /\ AccountSpend("faults")
  /\ UNCHANGED <<signUp, account, pictures, me, profile, update, meRead, wanted, crossed>>

\* onResetProfileForm, which does not stop a save under way.
onResetProfileForm ==
  /\ profile # Untouched
  /\ profile' = Untouched
  /\ wanted' = Untouched
  /\ crossed' = IF Saving THEN crossed \union {"edit"} ELSE crossed
  /\ AccountSpend("edits")
  /\ UNCHANGED <<signUp, account, pictures, me, avatarUp, update, meRead>>

\* handleProfileSubmit: disabled while updating, not while the answer is
\* being read again.
handleProfileSubmit ==
  /\ me # Untouched /\ update.step = "none"
  /\ update' = [step |-> "sent", user |-> userServiceUpdateMe(profile).data]
  /\ crossed' = IF Saving THEN crossed \union {"edit"} ELSE crossed
  /\ AccountSpend("saves")
  /\ UNCHANGED <<signUp, account, pictures, me, profile, avatarUp, meRead, wanted>>

\* UpdateMe: the fields that are given; the others stay.
UpdateServed ==
  /\ update.step = "sent"
  /\ account' = [f \in Fields |-> IF update.user[f] = 0 THEN account[f] ELSE update.user[f]]
  /\ update' = [update EXCEPT !.step = "saved"]
  /\ UNCHANGED <<signUp, pictures, me, profile, avatarUp, meRead, wanted, crossed, accountBudget>>

\* A taken name, or a lost answer: the overlay stays.
UpdateFails ==
  /\ update.step # "none"
  /\ crossed' = IF update.step = "saved" THEN crossed \union {"lost"} ELSE crossed
  /\ update' = NoUpdate
  /\ AccountSpend("faults")
  /\ UNCHANGED <<signUp, account, pictures, me, profile, avatarUp, meRead, wanted>>

\* Plausible bug: a read under way is waited for instead.
SavedJoinsRead ==
  /\ update.step = "saved"
  /\ update' = NoUpdate
  /\ meRead' = IF meRead.step = "none" THEN [NoMeRead EXCEPT !.step = "asked", !.saved = TRUE]
               ELSE [meRead EXCEPT !.saved = TRUE]
  /\ UNCHANGED <<signUp, account, pictures, me, profile, avatarUp, wanted, crossed, accountBudget>>

\* onSuccess: refetch, which cancels a run under way; the overlay is emptied
\* when it is over, and now if another save was waiting for that run.
Saved ==
  /\ update.step = "saved"
  /\ update' = NoUpdate
  /\ meRead' = [NoMeRead EXCEPT !.step = "asked", !.saved = TRUE]
  /\ profile' = IF meRead.saved THEN Untouched ELSE profile
  /\ UNCHANGED <<signUp, account, pictures, me, avatarUp, wanted, crossed, accountBudget>>

FocusMe ==
  /\ me # Untouched /\ meRead.step = "none"
  /\ meRead' = [NoMeRead EXCEPT !.step = "asked"]
  /\ AccountSpend("reads")
  /\ UNCHANGED <<signUp, account, pictures, me, profile, avatarUp, update, wanted, crossed>>

MeServed ==
  /\ meRead.step = "asked"
  /\ meRead' = [meRead EXCEPT !.step = "served", !.user = account]
  /\ UNCHANGED <<signUp, account, pictures, me, profile, avatarUp, update, wanted, crossed, accountBudget>>

\* Plausible bug: finally comes with every read.
MeShownClears ==
  /\ meRead.step = "served"
  /\ me' = meRead.user
  /\ profile' = Untouched
  /\ meRead' = NoMeRead
  /\ UNCHANGED <<signUp, account, pictures, avatarUp, update, wanted, crossed, accountBudget>>

MeShown ==
  /\ meRead.step = "served"
  /\ me' = meRead.user
  /\ profile' = IF meRead.saved THEN Untouched ELSE profile
  /\ meRead' = NoMeRead
  /\ UNCHANGED <<signUp, account, pictures, avatarUp, update, wanted, crossed, accountBudget>>

\* finally: the overlay goes although the profile has not been read.
MeFails ==
  /\ meRead.step # "none"
  /\ profile' = IF meRead.saved THEN Untouched ELSE profile
  /\ meRead' = NoMeRead
  /\ crossed' = crossed \union {"unread"}
  /\ AccountSpend("faults")
  /\ UNCHANGED <<signUp, account, pictures, me, avatarUp, update, wanted>>

-----------------------------------------------------------------------------
AccountProgress ==
  \/ PutDefaultAvatar \/ CommitUser
  \/ AvatarStored \/ AvatarShown \/ UpdateServed \/ Saved \/ MeServed \/ MeShown

AccountNext ==
  \/ AccountProgress
  \/ SubmitSignUp \/ SignUpFails \/ OpenProfileCenter
  \/ EditNickname \/ ChooseAvatar \/ AvatarFails \/ onResetProfileForm
  \/ handleProfileSubmit \/ UpdateFails \/ FocusMe \/ MeFails

-----------------------------------------------------------------------------
Users == [Fields -> Nat]

\* Every variable holds a value of its type.
AccountTypeOK ==
  /\ {account, me, profile, wanted, update.user, meRead.user} \subseteq Users
  /\ signUp.step \in {"none", "sent", "put", "done"}
  /\ avatarUp.step \in {"none", "sent", "stored"}
  /\ pictures \subseteq Nat /\ crossed \subseteq {"edit", "lost", "unread"}

\* A sign-up that is done is left open until somebody logs in.
AccountAtRest ==
  /\ signUp.step \in {"none", "done"} /\ avatarUp.step = "none"
  /\ update.step = "none" /\ meRead.step = "none"

\* What the profile center shows.
Displayed(f) == IF profile[f] = 0 THEN me[f] ELSE profile[f]

\* An account never refers to an avatar that is not stored, and what the
\* profile center shows is stored, too: the object is put inside the
\* transaction, and comes back to nothing else when that is rolled back.
AvatarsAreStored ==
  /\ account # Untouched => account.avatar \in pictures
  /\ me # Untouched => Displayed("avatar") \in pictures

\* An edit stays on the screen from the moment it is made, through the save
\* and the reading that follows, unless it was made while a save was under
\* way (its end empties the overlay), the answer of the save was lost, or the
\* profile could not be read.
EditsStayVisible ==
  crossed = {} => \A f \in Fields : wanted[f] # 0 => Displayed(f) = wanted[f]

\* Without edits, the profile center at rest shows what is saved.
SavedIsShown ==
  AccountAtRest /\ me # Untouched /\ crossed \intersect {"lost", "unread"} = {} => me = account

\* The profile center shows the author's edits, and then what is stored of them.
ProfileIsFaithful == AvatarsAreStored /\ EditsStayVisible /\ SavedIsShown
=============================================================================
