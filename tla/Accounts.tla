------------------------------ MODULE Accounts ------------------------------
(***************************************************************************)
(* Accounts: the sign-in callback (internal/auth/provider.go, LinkLogin in *)
(* internal/store/users.go), sessions, the administrator's user API        *)
(* (internal/handlers/users.go) and a user's own addresses                 *)
(* (internal/handlers/me_emails.go, internal/store/user_emails.go).        *)
(*                                                                         *)
(* A request is authorised from the row the middleware read and acts in    *)
(* later statements; the look-ups of a sign-in are statements of a READ    *)
(* COMMITTED transaction, so each sees what has been committed by then.    *)
(* What a claimed invitation grants is in TripSharing.                     *)
(***************************************************************************)
EXTENDS Naturals, Sequences

CONSTANTS
  None,
  Account,         \* user ids; an id is used once
  Identity,        \* accounts at the providers
  Address, Name,
  Client,          \* requests there can be at once
  EmailOf,         \* the verified address a provider asserts, or None
  HandleOf,        \* the user name it offers, or None
  Wanted,          \* the user names tried for a new account, in order
  MaxEpoch, MaxToken, MaxRequests     \* bounds of a run

ASSUME AccountsAssumption ==
  /\ None \notin Account \cup Identity \cup Address \cup Name
  /\ EmailOf \in [Identity -> Address \cup {None}]
  /\ HandleOf \in [Identity -> Name \cup {None}]
  /\ Wanted \in [Identity -> Seq(Name)]
  /\ MaxEpoch \in Nat /\ MaxToken \in Nat /\ MaxRequests \in Nat

VARIABLES
  users,           \* rows of users
  identity,        \* user_identities: the account an identity signs in to
  row,             \* user_emails, by address
  links,           \* verification mails delivered
  tokens,          \* verification tokens made
  invites,         \* pending_friend_invites
  sessions,        \* session cookies handed out
  op,              \* what each client's request is doing
  begun,           \* requests so far
  twins,           \* history: identities with two sign-ins at once
  crossed,         \* history: an administrator acted who no longer was one
  late             \* history: invites queued after their address was verified

mail == <<row, links, tokens, invites, late>>
vars == <<users, identity, mail, sessions, op, begun, twins, crossed>>

User == [life : {"unborn", "live", "gone"}, superuser : BOOLEAN, active : BOOLEAN,
         epoch : 0..MaxEpoch, name : Name \cup {None}, by : Identity \cup {None}]
Row == [id : 0..MaxToken, owner : Account \cup {None}, verified : BOOLEAN, token : 0..MaxToken]
Link == [token : 1..MaxToken, asker : Account, address : Address]
Session == [user : Account, epoch : 0..MaxEpoch]

Changes == {"promote", "demote", "activate", "deactivate", "delete"}
SignIns == [step : {"identity", "email", "name", "write"}, identity : Identity, first : BOOLEAN,
            how : {"none", "identity", "email", "name"}, found : Account \cup {None}, active : BOOLEAN]
Errands == [step : {"change"}, account : Account, change : Changes, target : Account]
           \cup [step : {"admit"}, account : Account, superuser : BOOLEAN]
           \cup [step : {"insert", "queue"}, account : Account, address : Address]
           \cup [step : {"renew"}, account : Account, address : Address, id : 0..MaxToken]
           \cup [step : {"send", "undo"}, account : Account, address : Address,
                 id : 0..MaxToken, token : 1..MaxToken, undo : BOOLEAN]
Idle == [step |-> "idle"]

NoUser == [life |-> "unborn", superuser |-> FALSE, active |-> FALSE, epoch |-> 0,
           name |-> None, by |-> None]
NoRow == [id |-> 0, owner |-> None, verified |-> FALSE, token |-> 0]

TypeOK ==
  /\ users \in [Account -> User]
  /\ identity \in [Identity -> Account \cup {None}]
  /\ row \in [Address -> Row] /\ links \subseteq Link /\ tokens \in 0..MaxToken
  /\ invites \subseteq Account \X Address /\ late \subseteq Account \X Address
  /\ sessions \subseteq Session
  /\ op \in [Client -> SignIns \cup Errands \cup {Idle}]
  /\ begun \in 0..MaxRequests
  /\ twins \subseteq Identity /\ crossed \in BOOLEAN

Init ==
  /\ users = [a \in Account |-> NoUser]
  /\ identity = [i \in Identity |-> None]
  /\ row = [x \in Address |-> NoRow] /\ links = {} /\ tokens = 0
  /\ invites = {} /\ late = {} /\ sessions = {}
  /\ op = [c \in Client |-> Idle] /\ begun = 0
  /\ twins = {} /\ crossed = FALSE

Live == {a \in Account : users[a].life = "live"}
Unborn == {a \in Account : users[a].life = "unborn"}
IdentitiesOf(a) == {i \in Identity : identity[i] = a}
Free(n) == \A a \in Live : users[a].name # n
Administers(a) == a \in Live /\ users[a].active /\ users[a].superuser

\* userFromRequest: the cookie's version must be the account's.
userFromRequest(a) ==
  /\ a \in Live /\ users[a].active
  /\ [user |-> a, epoch |-> users[a].epoch] \in sessions

At(c, s) == op[c].step = s
Begin(c, o) ==
  /\ At(c, "idle") /\ op' = [op EXCEPT ![c] = o]
  /\ begun < MaxRequests /\ begun' = begun + 1
GoTo(c, o) == op' = [op EXCEPT ![c] = o] /\ UNCHANGED begun
Done(c) == GoTo(c, Idle)

----------------------------------------------------------------------------
(* Signing in: CountUsers, then LinkLogin's look-ups and writes. *)

SigningIn(c) == op[c].step \in {"identity", "email", "name", "write"}

Callback(c, i) ==
  /\ Begin(c, [step |-> "identity", identity |-> i, first |-> Live = {},
               how |-> "none", found |-> None, active |-> FALSE])
  /\ twins' = IF \E d \in Client : SigningIn(d) /\ op[d].identity = i
              THEN twins \cup {i} ELSE twins
  /\ UNCHANGED <<users, identity, mail, sessions, crossed>>

Found(c, how, a) ==
  GoTo(c, [op[c] EXCEPT !.step = "write", !.how = how, !.found = a, !.active = users[a].active])
NotFound(c, next) == GoTo(c, [op[c] EXCEPT !.step = next])

FindByIdentity(c) ==
  /\ At(c, "identity")
  /\ LET a == identity[op[c].identity] IN
     IF a # None THEN Found(c, "identity", a) ELSE NotFound(c, "email")
  /\ UNCHANGED <<users, identity, mail, sessions, twins, crossed>>

FindByEmail(c) ==
  /\ At(c, "email")
  /\ LET x == EmailOf[op[c].identity] IN
     IF x # None /\ row[x].verified
     THEN Found(c, "email", row[x].owner) ELSE NotFound(c, "name")
  /\ UNCHANGED <<users, identity, mail, sessions, twins, crossed>>

\* An account invited by name that no identity signs in to yet.
Invitees(i) == {a \in Live : users[a].name = HandleOf[i] /\ IdentitiesOf(a) = {}}

FindByName(c) ==
  /\ At(c, "name")
  /\ LET who == Invitees(op[c].identity) IN
     IF HandleOf[op[c].identity] # None /\ who # {}
     THEN \E a \in who : Found(c, "name", a) ELSE NotFound(c, "write")
  /\ UNCHANGED <<users, identity, mail, sessions, twins, crossed>>

\* linkIdentityTx: an identity that is linked stays where it is.
linkIdentity(i, a) == IF identity[i] = None THEN [identity EXCEPT ![i] = a] ELSE identity

\* upsertEmailTx: the row of another account is left alone.
upsertEmail(x, a) ==
  IF x # None /\ row[x].owner \in {None, a}
  THEN [row EXCEPT ![x].owner = a, ![x].verified = TRUE, ![x].token = 0] ELSE row

\* consumePendingInvitesTx, given the addresses as they will be.
consumePendingInvites(a) ==
  invites' = {v \in invites : ~(row'[v[2]].owner = a /\ row'[v[2]].verified)}

\* A cookie for the account as the transaction left it.
SetSessionCookie(a) == sessions' = sessions \cup {[user |-> a, epoch |-> users'[a].epoch]}

\* A slip: only an account that was found is linked
SignsInToUnlinked(c, a) ==
  LET i == op[c].identity IN
  /\ identity' = IF op[c].how \in {"none", "identity"} THEN identity ELSE linkIdentity(i, a)
  /\ row' = upsertEmail(EmailOf[i], a)
  /\ consumePendingInvites(a) /\ SetSessionCookie(a)
  /\ Done(c)
  /\ UNCHANGED <<links, tokens, late, twins, crossed>>

SignsInTo(c, a) ==
  LET i == op[c].identity IN
  /\ identity' = IF op[c].how = "identity" THEN identity ELSE linkIdentity(i, a)
  /\ row' = upsertEmail(EmailOf[i], a)
  /\ consumePendingInvites(a) /\ SetSessionCookie(a)
  /\ Done(c)
  /\ UNCHANGED <<links, tokens, late, twins, crossed>>

\* The account found, if it was active when it was read and still exists.
LinkLogin(c) ==
  /\ At(c, "write") /\ op[c].found \in Live /\ op[c].active
  /\ UNCHANGED users
  /\ SignsInTo(c, op[c].found)

\* The first wanted name that nobody has.
Allocated(i) ==
  {Wanted[i][k] : k \in {k \in DOMAIN Wanted[i] :
     Free(Wanted[i][k]) /\ \A j \in 1..(k - 1) : ~Free(Wanted[i][j])}}

insertNewUser(c, a, n) ==
  users' = [users EXCEPT ![a] = [life |-> "live", superuser |-> op[c].first, active |-> TRUE,
                                 epoch |-> 0, name |-> n, by |-> op[c].identity]]

\* Open sign-up; the very first account is the superuser.
SignUp(c) ==
  /\ At(c, "write") /\ op[c].found = None
  /\ \E a \in Unborn, n \in Allocated(op[c].identity) :
       insertNewUser(c, a, n) /\ SignsInTo(c, a)

\* A deactivated account, a row that has gone, a name or an address that is
\* taken, a statement that fails: the request ends without effect.
Ends(c) ==
  /\ ~At(c, "idle") /\ Done(c)
  /\ UNCHANGED <<users, identity, mail, sessions, twins, crossed>>

----------------------------------------------------------------------------
(* Sessions and the administrator's API *)

LogoutAll(a) ==
  /\ userFromRequest(a) /\ users[a].epoch < MaxEpoch
  /\ users' = [users EXCEPT ![a].epoch = @ + 1]
  /\ UNCHANGED <<identity, mail, sessions, op, begun, twins, crossed>>

\* A slip: only deleting oneself is refused
StartChangeUnguarded(c, a, ch, t) ==
  /\ userFromRequest(a) /\ users[a].superuser
  /\ ch = "delete" => t # a
  /\ Begin(c, [step |-> "change", account |-> a, change |-> ch, target |-> t])
  /\ UNCHANGED <<users, identity, mail, sessions, twins, crossed>>

\* RequireSuperuser, and the handlers' guards against acting on oneself.
StartChange(c, a, ch, t) ==
  /\ userFromRequest(a) /\ users[a].superuser
  /\ ch \in {"demote", "deactivate", "delete"} => t # a
  /\ Begin(c, [step |-> "change", account |-> a, change |-> ch, target |-> t])
  /\ UNCHANGED <<users, identity, mail, sessions, twins, crossed>>

Changed(u, ch) ==
  [u EXCEPT !.superuser = IF ch \in {"promote", "demote"} THEN ch = "promote" ELSE @,
            !.active = IF ch \in {"activate", "deactivate"} THEN ch = "activate" ELSE @]

WasAdministrator(c) == crossed' = (crossed \/ ~Administers(op[c].account))

UpdateUser(c) ==
  /\ At(c, "change") /\ op[c].change # "delete" /\ op[c].target \in Live
  /\ users' = [users EXCEPT ![op[c].target] = Changed(@, op[c].change)]
  /\ WasAdministrator(c) /\ Done(c)
  /\ UNCHANGED <<identity, mail, sessions, twins>>

\* The row goes, and by cascade its identities, addresses and invitations.
DeleteUser(c) ==
  /\ At(c, "change") /\ op[c].change = "delete" /\ op[c].target \in Live
  /\ LET t == op[c].target IN
     /\ users' = [users EXCEPT ![t] = [NoUser EXCEPT !.life = "gone"]]
     /\ identity' = [i \in Identity |-> IF identity[i] = t THEN None ELSE identity[i]]
     /\ row' = [x \in Address |-> IF row[x].owner = t THEN NoRow ELSE row[x]]
     /\ invites' = {v \in invites : v[1] # t}
  /\ WasAdministrator(c) /\ Done(c)
  /\ UNCHANGED <<links, tokens, late, sessions, twins>>

StartInviteUser(c, a, s) ==
  /\ userFromRequest(a) /\ users[a].superuser
  /\ Begin(c, [step |-> "admit", account |-> a, superuser |-> s])
  /\ UNCHANGED <<users, identity, mail, sessions, twins, crossed>>

InviteUser(c) ==
  /\ At(c, "admit")
  /\ \E a \in Unborn, n \in {n \in Name : Free(n)} :
       users' = [users EXCEPT ![a] = [life |-> "live", superuser |-> op[c].superuser,
                                      active |-> TRUE, epoch |-> 0, name |-> n, by |-> None]]
  /\ WasAdministrator(c) /\ Done(c)
  /\ UNCHANGED <<identity, mail, sessions, twins>>

----------------------------------------------------------------------------
(* A user's addresses *)

StartAddEmail(c, a, x) ==
  /\ userFromRequest(a)
  /\ Begin(c, [step |-> "insert", account |-> a, address |-> x])
  /\ UNCHANGED <<users, identity, mail, sessions, twins, crossed>>

NewToken == tokens < MaxToken /\ tokens' = tokens + 1

Sending(c, id, undo) ==
  GoTo(c, [step |-> "send", account |-> op[c].account, address |-> op[c].address,
           id |-> id, token |-> tokens', undo |-> undo])

InsertUnverifiedEmail(c) ==
  /\ At(c, "insert") /\ NewToken
  /\ op[c].account \in Live /\ row[op[c].address].owner = None
  /\ row' = [row EXCEPT ![op[c].address] = [id |-> tokens', owner |-> op[c].account,
                                            verified |-> FALSE, token |-> tokens']]
  /\ Sending(c, tokens', TRUE)
  /\ UNCHANGED <<users, identity, links, invites, late, sessions, twins, crossed>>

\* ResendVerification reads that the row is unverified, then renews its token.
StartResend(c, a, x) ==
  /\ userFromRequest(a) /\ row[x].owner = a /\ ~row[x].verified
  /\ Begin(c, [step |-> "renew", account |-> a, address |-> x, id |-> row[x].id])
  /\ UNCHANGED <<users, identity, mail, sessions, twins, crossed>>

\* A slip: the row is found by its address
SameByAddress(c) == row[op[c].address].owner = op[c].account

Same(c) == row[op[c].address].id = op[c].id /\ row[op[c].address].owner = op[c].account

ResendVerification(c) ==
  /\ At(c, "renew") /\ NewToken /\ Same(c)
  /\ row' = [row EXCEPT ![op[c].address].token = tokens']
  /\ Sending(c, op[c].id, FALSE)
  /\ UNCHANGED <<users, identity, links, invites, late, sessions, twins, crossed>>

Delivered(c) ==
  links' = links \cup {[token |-> op[c].token, asker |-> op[c].account, address |-> op[c].address]}

SendVerifyEmail(c) ==
  /\ At(c, "send") /\ Delivered(c) /\ Done(c)
  /\ UNCHANGED <<users, identity, row, tokens, invites, late, sessions, twins, crossed>>

\* A send that fails may have been delivered all the same.
SendFails(c) ==
  /\ At(c, "send") /\ (UNCHANGED links \/ Delivered(c))
  /\ IF op[c].undo THEN GoTo(c, [op[c] EXCEPT !.step = "undo"]) ELSE Done(c)
  /\ UNCHANGED <<users, identity, row, tokens, invites, late, sessions, twins, crossed>>

\* addMyEmail drops the row it inserted.
UndoAdd(c) ==
  /\ At(c, "undo") /\ Same(c)
  /\ row' = [row EXCEPT ![op[c].address] = NoRow]
  /\ Done(c)
  /\ UNCHANGED <<users, identity, links, tokens, invites, late, sessions, twins, crossed>>

\* Two slips: the row is found by its address; the invitations are left to
\* the next sign-in
VerifyEmailByAddress(l, x) ==
  /\ l.address = x /\ row[x].owner # None
  /\ row' = [row EXCEPT ![x].verified = TRUE, ![x].token = 0]
  /\ consumePendingInvites(row[x].owner)
  /\ UNCHANGED <<users, identity, links, tokens, late, sessions, op, begun, twins, crossed>>

VerifyEmailOnly(l, x) ==
  /\ row[x].token = l.token
  /\ row' = [row EXCEPT ![x].verified = TRUE, ![x].token = 0]
  /\ UNCHANGED <<users, identity, links, tokens, invites, late, sessions, op, begun, twins, crossed>>

VerifyEmailByToken(l, x) ==
  /\ row[x].token = l.token
  /\ row' = [row EXCEPT ![x].verified = TRUE, ![x].token = 0]
  /\ consumePendingInvites(row[x].owner)
  /\ UNCHANGED <<users, identity, links, tokens, late, sessions, op, begun, twins, crossed>>

DeleteUserEmail(a, x) ==
  /\ userFromRequest(a) /\ row[x].owner = a
  /\ row' = [row EXCEPT ![x] = NoRow]
  /\ UNCHANGED <<users, identity, links, tokens, invites, late, sessions, op, begun, twins, crossed>>

----------------------------------------------------------------------------
(* Inviting a friend by an address nobody has verified: looked up, then     *)
(* queued.                                                                  *)

InviteFriend(c, a, x) ==
  /\ userFromRequest(a) /\ ~row[x].verified
  /\ Begin(c, [step |-> "queue", account |-> a, address |-> x])
  /\ UNCHANGED <<users, identity, mail, sessions, twins, crossed>>

UpsertPendingFriendInvite(c) ==
  /\ At(c, "queue") /\ op[c].account \in Live
  /\ LET v == <<op[c].account, op[c].address>> IN
     /\ invites' = invites \cup {v}
     /\ late' = IF row[v[2]].verified THEN late \cup {v} ELSE late
  /\ Done(c)
  /\ UNCHANGED <<users, identity, row, links, tokens, sessions, twins, crossed>>

CancelOutgoingInvite(a, x) ==
  /\ userFromRequest(a) /\ <<a, x>> \in invites
  /\ invites' = invites \ {<<a, x>>}
  /\ UNCHANGED <<users, identity, row, links, tokens, late, sessions, op, begun, twins, crossed>>

Next ==
  \/ \E c \in Client, i \in Identity : Callback(c, i)
  \/ \E c \in Client :
       \/ FindByIdentity(c) \/ FindByEmail(c) \/ FindByName(c)
       \/ LinkLogin(c) \/ SignUp(c) \/ Ends(c)
       \/ UpdateUser(c) \/ DeleteUser(c) \/ InviteUser(c)
       \/ InsertUnverifiedEmail(c) \/ ResendVerification(c)
       \/ SendVerifyEmail(c) \/ SendFails(c) \/ UndoAdd(c)
       \/ UpsertPendingFriendInvite(c)
  \/ \E c \in Client, a, t \in Account, ch \in Changes : StartChange(c, a, ch, t)
  \/ \E c \in Client, a \in Account, s \in BOOLEAN : StartInviteUser(c, a, s)
  \/ \E c \in Client, a \in Account, x \in Address :
       StartAddEmail(c, a, x) \/ StartResend(c, a, x) \/ InviteFriend(c, a, x)
  \/ \E a \in Account : LogoutAll(a)
  \/ \E a \in Account, x \in Address : DeleteUserEmail(a, x) \/ CancelOutgoingInvite(a, x)
  \/ \E l \in links, x \in Address : VerifyEmailByToken(l, x)

----------------------------------------------------------------------------
(* Properties *)

\* Once there are accounts, one of them is an active superuser somebody can
\* sign in to, unless an administrator acted on an authority lost since the
\* middleware looked (handlers/users.go:83), or an identity signed in twice
\* at once.
AdminsRemain ==
  \/ Live = {} \/ crossed \/ twins # {}
  \/ \E a \in Live : Administers(a) /\ IdentitiesOf(a) # {}

\* An account that a sign-in opened can be signed in to again, unless its
\* identity signed in twice at once (store/users.go:316).
NoStrandedAccount ==
  \A a \in Live : IdentitiesOf(a) = {} => users[a].by \in twins \cup {None}

\* An invitation to an address waits for it to be verified: it never waits
\* for an address that is, but for one looked up before that was so
\* (store/friends.go:369, handlers/friends.go:109).
InvitesLand == \A v \in invites : row[v[2]].verified => v \in late

\* An address becomes an account's verified address only by the link that
\* account asked for, or by the word of the provider it signs in with
\* (store/user_emails.go:233, store/users.go:277).
ProofIsTheOwners ==
  [][\A x \in Address :
       row'[x].verified /\ ~(row[x].verified /\ row'[x].owner = row[x].owner) =>
         \/ \E l \in links : l = [token |-> row[x].token, asker |-> row'[x].owner, address |-> x]
         \/ \E c \in Client : At(c, "write") /\ op'[c] = Idle /\ EmailOf[op[c].identity] = x]_vars

\* A verified address goes only with its account, at its owner's word, or as
\* the very row whose mail could not be sent (handlers/me_emails.go:88).
VerifiedStays ==
  [][\A x \in Address :
       row[x].verified /\ row'[x].owner # row[x].owner =>
         \/ row[x].owner \notin Live' \/ op' = op
         \/ \E c \in Client : At(c, "undo") /\ op[c].id = row[x].id /\ op'[c] = Idle]_vars

Spec == Init /\ [][Next]_vars
=============================================================================
