----------------------------- MODULE SettingsForm -----------------------------
(***************************************************************************)
(* The settings of an account: its profile with the picture, its password, *)
(* and its deletion.                                                       *)
(*                                                                         *)
(* Neither saving nor deleting disables its button, so saves overlap each  *)
(* other and a deletion.  The server's handler of a save is several steps, *)
(* because it changes the directory of the picture before it knows whether *)
(* the row will be updated.  Names, the email and the preference only      *)
(* decide whether the row is updated, and are left out, as are the         *)
(* preview, the errors and the modal of the deletion, which only decide    *)
(* what is drawn, and the choices that are refused for their type or size. *)
(***************************************************************************)
EXTENDS Naturals, FiniteSets, Calls

CONSTANTS
  MaxChoices,    \* bound: pictures chosen, named in their order
  MaxSaves,      \* bound: submissions, named in their order
  MaxDeletions,  \* bound: confirmed deletions
  MaxActs,       \* bound: all of these together
  NoPicture, Former

Pictures == 1..MaxChoices
Saves == 1..MaxSaves
Deletions == 1..MaxDeletions

ASSUME SettingsAssumption ==
  /\ MaxChoices \in Nat /\ MaxSaves \in Nat /\ MaxDeletions \in Nat /\ MaxActs \in Nat
  /\ NoPicture # Former /\ {NoPicture, Former} \cap Pictures = {}

VARIABLES
  chosen,                \* how many pictures were chosen
  imageFile,
  resizing,              \* choices that a canvas resizes
  passwords,             \* the three fields are filled in and agree
  saves,                 \* handleSubmit
  saveSuccess,
  deletions,             \* handleDeleteAccount
  closed,                \* the page was left
  account,               \* the server: the row exists
  avatar, directory,     \* its picture, and the files of the pictures
  \* history, read by no action
  reported,              \* pictures of the saves that the page saw succeed
  torn                   \* a save failed between the files and the row, or two overlapped

picture == <<imageFile, resizing, chosen>>
profile == <<account, avatar, directory, torn>>
settingsVars ==
  <<picture, passwords, saves, saveSuccess, deletions, closed, profile, reported>>

Picture == Pictures \cup {NoPicture, Former}
Save ==
  [at : {"none", "sent", "emptied", "written", "resolved", "rejected", "answered"},
   image : Picture, password : BOOLEAN]

SettingsTypeOK ==
  /\ imageFile \in Pictures \cup {NoPicture}
  /\ resizing \subseteq Pictures /\ chosen \in 0..MaxChoices
  /\ passwords \in BOOLEAN
  /\ saves \in [Saves -> Save]
  /\ saveSuccess \in BOOLEAN
  /\ deletions \in [Deletions -> {"none", "sent", "resolved", "rejected", "answered"}]
  /\ closed \in BOOLEAN /\ account \in BOOLEAN /\ torn \in BOOLEAN
  /\ avatar \in Picture /\ directory \subseteq Picture
  /\ reported \subseteq Picture

SettingsInit ==
  /\ imageFile = NoPicture /\ resizing = {} /\ chosen = 0
  /\ passwords = FALSE
  /\ saves = [n \in Saves |-> [at |-> "none", image |-> NoPicture, password |-> FALSE]]
  /\ saveSuccess = FALSE
  /\ deletions = [d \in Deletions |-> "none"]
  /\ closed = FALSE
  /\ account = TRUE /\ avatar = Former /\ directory = {Former}
  /\ reported = {} /\ torn = FALSE

(* What MaxActs bounds. *)
MayAct ==
  chosen + Cardinality({n \in Saves : saves[n].at # "none"})
         + Cardinality({d \in Deletions : deletions[d] # "none"}) < MaxActs
-----------------------------------------------------------------------------
(* The picture.                                                            *)

handleFileChange ==
  /\ ~closed /\ chosen < MaxChoices /\ MayAct
  /\ chosen' = chosen + 1 /\ resizing' = resizing \cup {chosen'}
  /\ UNCHANGED <<imageFile, passwords, saves, saveSuccess, deletions, closed, profile, reported>>

resizeImage(c) ==
  /\ ~closed /\ c \in resizing /\ resizing' = resizing \ {c}
  /\ imageFile' = c
  /\ UNCHANGED <<chosen, passwords, saves, saveSuccess, deletions, closed, profile, reported>>

(* What is being resized comes back. *)
handleRemoveImage ==
  /\ ~closed /\ imageFile # NoPicture /\ imageFile' = NoPicture
  /\ UNCHANGED <<resizing, chosen, passwords, saves, saveSuccess, deletions, closed, profile,
                 reported>>
-----------------------------------------------------------------------------
(* Saving.                                                                 *)

setPasswords ==
  /\ ~closed /\ passwords' = ~passwords
  /\ UNCHANGED <<picture, saves, saveSuccess, deletions, closed, profile, reported>>

(* A new password without the old one, too short or not repeated is an     *)
(* error, and nothing is sent; an old one alone is not sent.               *)
handleSubmit(n) ==
  /\ ~closed /\ saves[n].at = "none" /\ (n > 1 => saves[n - 1].at # "none") /\ MayAct
  /\ saveSuccess' = FALSE
  /\ saves' = [saves EXCEPT ![n] =
       [at |-> "sent", image |-> imageFile, password |-> passwords]]
  /\ UNCHANGED <<picture, passwords, deletions, closed, profile, reported>>

(* PATCH of the account: with a picture, the directory is emptied. *)
InServer(n) == saves[n].at \in {"emptied", "written"}
EmptyDirectory(n) ==
  /\ saves[n].at = "sent"
  /\ IF account /\ saves[n].image # NoPicture
       THEN /\ directory' = {}
            /\ torn' = (torn \/ \E m \in Saves : InServer(m) /\ saves[m].image # NoPicture)
       ELSE UNCHANGED <<directory, torn>>
  /\ saves' = [saves EXCEPT ![n].at = IF account THEN "emptied" ELSE "rejected"]
  /\ UNCHANGED <<picture, passwords, saveSuccess, deletions, closed, account, avatar, reported>>

(* Mutation: the directory is emptied when the new file is in it. *)
WriteThenEmpty(n) ==
  /\ saves[n].at = "emptied"
  /\ directory' = IF saves[n].image = NoPicture THEN directory ELSE {}
  /\ saves' = [saves EXCEPT ![n].at = "written"]
  /\ UNCHANGED <<picture, passwords, saveSuccess, deletions, closed, account, avatar, reported,
                 torn>>

(* Then the file is written, unless it cannot be. *)
WriteFile(n) ==
  /\ saves[n].at = "emptied"
  /\ \/ /\ directory' = directory \cup ({saves[n].image} \ {NoPicture})
        /\ saves' = [saves EXCEPT ![n].at = "written"]
        /\ UNCHANGED torn
     \/ /\ saves[n].image # NoPicture /\ torn' = TRUE
        /\ saves' = [saves EXCEPT ![n].at = "rejected"]
        /\ UNCHANGED directory
  /\ UNCHANGED <<picture, passwords, saveSuccess, deletions, closed, account, avatar, reported>>

(* A password is compared as a hash that was generated anew, with a salt   *)
(* of its own: it is never the stored one.  The row is not updated either  *)
(* if the email is another account's.  The row may be gone: this is no     *)
(* error.                                                                  *)
UpdateRow(n) ==
  /\ saves[n].at = "written"
  /\ \/ /\ ~saves[n].password
        /\ avatar' = IF account /\ saves[n].image # NoPicture THEN saves[n].image ELSE avatar
        /\ \E outcome \in Outcomes(TRUE) : saves' = [saves EXCEPT ![n].at = outcome]
        /\ UNCHANGED torn
     \/ /\ torn' = (torn \/ saves[n].image # NoPicture)
        /\ saves' = [saves EXCEPT ![n].at = "rejected"]
        /\ UNCHANGED avatar
  /\ UNCHANGED <<picture, passwords, saveSuccess, deletions, closed, account, directory, reported>>

(* Mutation: the picture stays in the form. *)
SaveAnsweredKeeps(n) ==
  /\ ~closed /\ saves[n].at \in {"resolved", "rejected"}
  /\ saveSuccess' = (saveSuccess \/ saves[n].at = "resolved")
  /\ reported' = reported \cup (IF saves[n].at = "resolved" THEN {saves[n].image} ELSE {})
  /\ saves' = [saves EXCEPT ![n].at = "answered"]
  /\ UNCHANGED <<picture, passwords, deletions, closed, profile>>

(* The form forgets the passwords and the picture, also those that were    *)
(* typed or chosen while it was saving.                                    *)
SaveAnswered(n) ==
  /\ ~closed /\ saves[n].at \in {"resolved", "rejected"}
  /\ IF saves[n].at = "resolved"
       THEN /\ saveSuccess' = TRUE
            /\ passwords' = FALSE /\ imageFile' = NoPicture
            /\ reported' = reported \cup ({saves[n].image} \ {NoPicture})
       ELSE UNCHANGED <<saveSuccess, passwords, imageFile, reported>>
  /\ saves' = [saves EXCEPT ![n].at = "answered"]
  /\ UNCHANGED <<resizing, chosen, deletions, closed, profile>>
-----------------------------------------------------------------------------
(* Deleting.                                                               *)

(* In the modal, with a password: without one it is an error. *)
handleDeleteAccount(d) ==
  /\ ~closed /\ deletions[d] = "none" /\ MayAct
  /\ deletions' = [deletions EXCEPT ![d] = "sent"]
  /\ UNCHANGED <<picture, passwords, saves, saveSuccess, closed, profile, reported>>

(* DELETE of the account: one transaction, if the password is right; the   *)
(* files stay.                                                             *)
AnswerDelete(d) ==
  /\ deletions[d] = "sent"
  /\ \E done \in {account, FALSE} : \E outcome \in Outcomes(done) :
       /\ account' = (account /\ ~done)
       /\ deletions' = [deletions EXCEPT ![d] = outcome]
  /\ UNCHANGED <<picture, passwords, saves, saveSuccess, closed,
                 avatar, directory, torn, reported>>

(* The page is left when the session was ended, however that ended. *)
DeleteAnswered(d) ==
  /\ ~closed /\ deletions[d] \in {"resolved", "rejected"}
  /\ closed' = (deletions[d] = "resolved")
  /\ deletions' = [deletions EXCEPT ![d] = "answered"]
  /\ UNCHANGED <<picture, passwords, saves, saveSuccess, profile, reported>>

(* "Sair da conta", with its call to the server, or "Fechar". *)
LeaveSettings ==
  /\ ~closed /\ closed' = TRUE
  /\ UNCHANGED <<picture, passwords, saves, saveSuccess, deletions, profile, reported>>
-----------------------------------------------------------------------------
SettingsNext ==
  \/ handleFileChange \/ (\E c \in Pictures : resizeImage(c)) \/ handleRemoveImage
  \/ setPasswords
  \/ \E n \in Saves : \/ handleSubmit(n) \/ EmptyDirectory(n) \/ WriteFile(n)
                      \/ UpdateRow(n) \/ SaveAnswered(n)
  \/ \E d \in Deletions : handleDeleteAccount(d) \/ AnswerDelete(d) \/ DeleteAnswered(d)
  \/ LeaveSettings

SettingsSpec == SettingsInit /\ [][SettingsNext]_settingsVars
-----------------------------------------------------------------------------
(* Properties.                                                             *)

(* "Reset image file": a picture whose upload was reported as a success is *)
(* not sent again by a later save, although it is resized and read while   *)
(* other saves are answered, and the server empties the directory for      *)
(* every picture it is sent.                                               *)
SavedOnce ==
  [][\A n \in Saves :
       saves[n].at = "none" /\ saves'[n].at = "sent" => saves'[n].image \notin reported
    ]_settingsVars

(* Between saves the file of the account's picture exists, as long as no   *)
(* save failed between the files and the row and no two overlapped.        *)
AvatarIsThere ==
  account /\ ~torn /\ (\A n \in Saves : ~InServer(n)) => avatar \in directory
=============================================================================
