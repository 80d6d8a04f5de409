----------------------------- MODULE DeviceTokens -----------------------------
(***************************************************************************)
(* Devices that get pushes: the app registers its token for the user who   *)
(* signs in and unregisters it when the user signs out; the dispatcher     *)
(* lists the tokens of those a push is for, sends to one after the other,  *)
(* and revokes what Firebase refuses (internal/notifications).             *)
(*                                                                         *)
(* A device changes hands, and the app's calls may arrive late, in another *)
(* order, or never.  Each call is one statement; a push is many steps, and *)
(* the table changes between them.                                         *)
(***************************************************************************)
EXTENDS Naturals, Sequences, SequencesExt

CONSTANTS
  Users,       \* users.id
  Tokens,      \* device tokens, one for each installation of the app
  ApnsTokens,  \* those registered with provider "apns", which Firebase never takes
  Pushes,      \* pushes the server sends at the same time
  NoUser,      \* no row, or nobody signed in
  MaxCalls     \* bound: calls of one device on their way at the same time

ASSUME NoUserAssumption == NoUser \notin Users
ASSUME ApnsTokensAssumption == ApnsTokens \subseteq Tokens
ASSUME MaxCallsAssumption == MaxCalls \in Nat

VARIABLES
  accounts,    \* the rows of users
  owner,       \* notification_device_tokens.user_id
  active,      \* the tokens with revoked_at IS NULL
  known,       \* the tokens Firebase delivers to
  holder,      \* who is signed in on the device
  calls,       \* the device's calls on their way, oldest first
  sending,        \* each push: whom it still goes to, and what is to be revoked
  orderly      \* history: the tokens none of whose calls was lost, refused or overtaken
               \* since the device last had none on their way

table      == <<accounts, owner, active>>
device     == <<known, holder, calls>>
deviceVars == <<table, device, sending, orderly>>

Call == [kind : {"register", "unregister"}, user : Users]
NoPush == [to |-> {}, refused |-> {}]

-----------------------------------------------------------------------------
(* The device. *)

\* A registration that nothing is in flight with makes up for what was lost before.
SignIn(t, u) ==
  /\ holder[t] = NoUser
  /\ u \in accounts
  /\ Len(calls[t]) < MaxCalls
  /\ holder' = [holder EXCEPT ![t] = u]
  /\ calls' = [calls EXCEPT ![t] = Append(@, [kind |-> "register", user |-> u])]
  /\ orderly' = IF calls[t] = <<>> THEN orderly \cup {t} ELSE orderly
  /\ UNCHANGED <<table, known, sending>>

SignOut(t) ==
  /\ holder[t] # NoUser
  /\ Len(calls[t]) < MaxCalls
  /\ holder' = [holder EXCEPT ![t] = NoUser]
  /\ calls' = [calls EXCEPT ![t] = Append(@, [kind |-> "unregister", user |-> holder[t]])]
  /\ UNCHANGED <<table, known, sending, orderly>>

\* The app is removed: Firebase never knows the token again.
Uninstall(t) ==
  /\ t \in known
  /\ known' = known \ {t}
  /\ UNCHANGED <<table, holder, calls, sending, orderly>>

\* The call never arrives, or arrives after its token has expired.
Lose(t, i) ==
  /\ calls' = [calls EXCEPT ![t] = RemoveAt(@, i)]
  /\ orderly' = orderly \ {t}
  /\ UNCHANGED <<table, known, holder, sending>>

-----------------------------------------------------------------------------
(* The calls. *)

\* An older call that is still on its way does not matter if it is another user's
\* unregistration.
Overtakes(t, i) ==
  \E j \in 1..(i - 1) :
    calls[t][j].kind = "register" \/ calls[t][j].user = calls[t][i].user

\* INSERT ... ON DUPLICATE KEY UPDATE: the token is the new user's, and not revoked.
\* The INSERT of a user who is gone fails by its foreign key.
\* Mutation: the row of a token keeps its user.
KeptOwner(t, u) == IF owner[t] = NoUser THEN u ELSE owner[t]
NewOwner(t, u) == u

UpsertDeviceToken(t, i) ==
  /\ calls[t][i].kind = "register"
  /\ \/ /\ calls[t][i].user \in accounts
        /\ owner' = [owner EXCEPT ![t] = NewOwner(t, calls[t][i].user)]
        /\ active' = active \cup {t}
        /\ orderly' = IF Overtakes(t, i) THEN orderly \ {t} ELSE orderly
     \/ /\ calls[t][i].user \notin accounts
        /\ orderly' = orderly \ {t}
        /\ UNCHANGED <<owner, active>>
  /\ calls' = [calls EXCEPT ![t] = RemoveAt(@, i)]
  /\ UNCHANGED <<accounts, known, holder, sending>>

\* Mutation: UPDATE ... WHERE token = ?, whose ever it is.
AnyOwner(t, u) == TRUE
OwnedBy(t, u) == owner[t] = u

RevokeUserDeviceToken(t, i) ==
  /\ calls[t][i].kind = "unregister"
  /\ active' = IF OwnedBy(t, calls[t][i].user) THEN active \ {t} ELSE active
  /\ orderly' = IF Overtakes(t, i) THEN orderly \ {t} ELSE orderly
  /\ calls' = [calls EXCEPT ![t] = RemoveAt(@, i)]
  /\ UNCHANGED <<accounts, owner, known, holder, sending>>

\* ON DELETE CASCADE.  Mutation: the rows stay.
KeptRows(u) == {}
RowsOf(u) == {t \in Tokens : owner[t] = u}

DeleteUser(u) ==
  /\ u \in accounts
  /\ accounts' = accounts \ {u}
  /\ owner' = [t \in Tokens |-> IF t \in RowsOf(u) THEN NoUser ELSE owner[t]]
  /\ active' = active \ RowsOf(u)
  /\ UNCHANGED <<device, sending, orderly>>

-----------------------------------------------------------------------------
(* A push to some users: one, the holders of tickets for an event, or all. *)

ListActiveTokens(p, us) ==
  /\ sending[p] = NoPush
  /\ sending' = [sending EXCEPT ![p].to = {t \in active : owner[t] \in us}]
  /\ sending'[p] # NoPush
  /\ UNCHANGED <<table, device, orderly>>

\* Firebase refuses a token for good, as opposed to a call to it that fails: the
\* token is not registered, or no argument Firebase takes.  The handler treats the
\* two alike, and the second can only be about the token: the texts are made from
\* a title and a name of limited length, or an order number, and stay far below
\* Firebase's limit, and the keys of the data are fixed.  Mutation: whatever fails.
AnyFailure(t) == TRUE
IsUnregistered(t) == t \notin known

SendToToken(p, t) ==
  /\ t \in sending[p].to
  /\ sending[p].refused = {}
  /\ \/ sending' = [sending EXCEPT ![p].to = @ \ {t}]
     \/ /\ IsUnregistered(t)
        /\ sending' = [sending EXCEPT ![p] = [to |-> @.to \ {t}, refused |-> {t}]]
  /\ UNCHANGED <<table, device, orderly>>

\* UPDATE ... WHERE token = ?, whose ever it is by now; or the UPDATE fails.
RevokeToken(p) ==
  /\ sending[p].refused # {}
  /\ active' \in {active, active \ sending[p].refused}
  /\ sending' = [sending EXCEPT ![p].refused = {}]
  /\ UNCHANGED <<accounts, owner, device, orderly>>

-----------------------------------------------------------------------------
DevicesInit ==
  /\ accounts = Users
  /\ owner = [t \in Tokens |-> NoUser]
  /\ active = {}
  /\ known = Tokens \ ApnsTokens
  /\ holder = [t \in Tokens |-> NoUser]
  /\ calls = [t \in Tokens |-> <<>>]
  /\ sending = [p \in Pushes |-> NoPush]
  /\ orderly = Tokens

DevicesNext ==
  \/ \E t \in Tokens :
       \/ \E u \in Users : SignIn(t, u)
       \/ SignOut(t)
       \/ Uninstall(t)
       \/ \E i \in DOMAIN calls[t] :
            Lose(t, i) \/ UpsertDeviceToken(t, i) \/ RevokeUserDeviceToken(t, i)
       \/ \E p \in Pushes : SendToToken(p, t)
  \/ \E u \in Users : DeleteUser(u)
  \/ \E p \in Pushes :
       \/ \E us \in SUBSET Users : ListActiveTokens(p, us)
       \/ RevokeToken(p)

DevicesSpec == DevicesInit /\ [][DevicesNext]_deviceVars

-----------------------------------------------------------------------------
(* Properties. *)

\* The types of the variables; a token that is not revoked has a row, and its user
\* an account: from its deletion on no push lists the devices of that user.
DevicesTypeOK ==
  /\ accounts \in SUBSET Users
  /\ owner \in [Tokens -> accounts \cup {NoUser}]
  /\ active \in SUBSET {t \in Tokens : owner[t] # NoUser}
  /\ known \in SUBSET Tokens
  /\ holder \in [Tokens -> Users \cup {NoUser}]
  /\ calls \in [Tokens -> Seq(Call)]
  /\ sending \in [Pushes -> [to : SUBSET Tokens, refused : SUBSET Tokens]]
  /\ orderly \in SUBSET Tokens

Settled(t) == t \in orderly /\ calls[t] = <<>>

\* The registration of whoever is signed in on a device stands, once the calls
\* have arrived, so every push to them lists it: neither the last user's late
\* sign-out nor a push that fails takes it away, as long as Firebase knows the
\* token (repository.go:100 and :108).
SignedInGetTheirPushes ==
  \A t \in known :
    Settled(t) /\ holder[t] \in accounts => t \in active /\ owner[t] = holder[t]

\* Once the calls of a device have arrived, no push takes it up but for the user
\* who is signed in on it: none does after a sign-out, and none for its last user.
\* Only what is taken up: a push reads its list once, and still sends to whom it
\* listed before the device changed hands (dispatcher.go:33 and :72-87).
PushesTakeUpWhoIsSignedIn ==
  [][\A p \in Pushes, t \in Tokens :
       t \in sending'[p].to \ sending[p].to /\ Settled(t)
         => holder[t] # NoUser /\ owner[t] = holder[t]]_deviceVars
=============================================================================
