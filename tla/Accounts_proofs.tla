--------------------------- MODULE Accounts_proofs ---------------------------
(***************************************************************************)
(* Proofs about Accounts, for every set of accounts, identities, addresses *)
(* and clients, and any number of requests.                                *)
(***************************************************************************)
EXTENDS Accounts, TLAPS

SignInSteps == {"identity", "email", "name", "write"}
Ops == SignIns \cup Errands \cup {Idle}
OpOK == op \in [Client -> Ops]

\* The other variables.  A row that is verified or waits for a link is
\* somebody's.
RestOK ==
  /\ users \in [Account -> User]
  /\ identity \in [Identity -> Account \cup {None}]
  /\ row \in [Address -> Row] /\ links \subseteq Link /\ tokens \in 0..MaxToken
  /\ invites \subseteq Account \X Address /\ late \subseteq Account \X Address
  /\ sessions \subseteq Session
  /\ begun \in 0..MaxRequests
  /\ twins \subseteq Identity /\ crossed \in BOOLEAN

RowsOwned == \A x \in Address : row[x].verified \/ row[x].token # 0 => row[x].owner # None

LEMMA TypeSplits == TypeOK <=> OpOK /\ RestOK
  BY DEF TypeOK, OpOK, RestOK, Ops

\* What a request under way holds, by its step.
LEMMA OpFields ==
  ASSUME NEW o \in Ops
  PROVE  /\ o.step \in SignInSteps => o \in SignIns
         /\ o.step = "change" => /\ o.account \in Account /\ o.target \in Account
                                 /\ o.change \in Changes
         /\ o.step = "admit" => o.account \in Account /\ o.superuser \in BOOLEAN
         /\ o.step \in {"insert", "queue", "renew", "send", "undo"} =>
              o.account \in Account /\ o.address \in Address
         /\ o.step \in {"renew", "send", "undo"} => o.id \in 0..MaxToken
         /\ o.step \in {"send", "undo"} => o.token \in 1..MaxToken /\ o.undo \in BOOLEAN
<1>1. CASE o \in SignIns
  BY <1>1 DEF SignIns
<1>2. CASE o \in Errands
  BY <1>2 DEF Errands, SignInSteps
<1>3. CASE o = Idle
  BY <1>3 DEF Idle, SignInSteps
<1> QED
  BY <1>1, <1>2, <1>3 DEF Ops

\* One request takes a step.
LEMMA OpMoves ==
  ASSUME OpOK, NEW c \in Client, NEW o \in Ops, op' = [op EXCEPT ![c] = o]
  PROVE  OpOK' /\ op'[c] = o /\ \A d \in Client : d # c => op'[d] = op[d]
  BY DEF OpOK

LEMMA OpEnds ==
  ASSUME OpOK, NEW c \in Client, Done(c)
  PROVE  OpOK' /\ op'[c] = Idle /\ (\A d \in Client : d # c => op'[d] = op[d]) /\ begun' = begun
<1>1. Idle \in Ops /\ op' = [op EXCEPT ![c] = Idle] /\ begun' = begun
  BY DEF Done, GoTo, Ops
<1> QED
  BY <1>1, OpMoves

LEMMA OpBegins ==
  ASSUME OpOK, RestOK, NEW c \in Client, NEW o \in Ops, Begin(c, o)
  PROVE  /\ OpOK' /\ op'[c] = o /\ \A d \in Client : d # c => op'[d] = op[d]
         /\ op[c].step = "idle" /\ begun' \in 0..MaxRequests
<1>1. op[c].step = "idle" /\ op' = [op EXCEPT ![c] = o]
  BY DEF Begin, At
<1>2. begun' \in 0..MaxRequests
  BY AccountsAssumption DEF Begin, RestOK
<1> QED
  BY <1>1, <1>2, OpMoves

\* A sign-in that found somebody, or goes on to look elsewhere.
LEMMA SignInMoves ==
  ASSUME OpOK, RestOK, NEW c \in Client, op[c].step \in SignInSteps
  PROVE  /\ \A how \in {"identity", "email", "name"}, a \in Account : Found(c, how, a) =>
              /\ OpOK' /\ begun' = begun
              /\ \A d \in Client : d # c => op'[d] = op[d]
              /\ op'[c].step = "write" /\ op'[c].how = how /\ op'[c].found = a
              /\ op'[c].identity = op[c].identity /\ op'[c].first = op[c].first
         /\ \A next \in SignInSteps : NotFound(c, next) =>
              /\ OpOK' /\ begun' = begun
              /\ \A d \in Client : d # c => op'[d] = op[d]
              /\ op'[c].step = next /\ op'[c].how = op[c].how /\ op'[c].found = op[c].found
              /\ op'[c].identity = op[c].identity /\ op'[c].first = op[c].first
<1>1. op[c] \in SignIns
  BY OpFields DEF OpOK
<1>2. ASSUME NEW how \in {"identity", "email", "name"}, NEW a \in Account, Found(c, how, a)
      PROVE  /\ OpOK' /\ begun' = begun
             /\ \A d \in Client : d # c => op'[d] = op[d]
             /\ op'[c].step = "write" /\ op'[c].how = how /\ op'[c].found = a
             /\ op'[c].identity = op[c].identity /\ op'[c].first = op[c].first
  <2> DEFINE o == [op[c] EXCEPT !.step = "write", !.how = how, !.found = a, !.active = users[a].active]
  <2>1. users[a].active \in BOOLEAN
    BY DEF RestOK, User
  <2>2. /\ o \in SignIns /\ o.step = "write" /\ o.how = how /\ o.found = a
        /\ o.identity = op[c].identity /\ o.first = op[c].first
    BY <1>1, <2>1 DEF SignIns
  <2>3. op' = [op EXCEPT ![c] = o] /\ begun' = begun
    BY <1>2 DEF Found, GoTo
  <2> QED
    BY <2>2, <2>3, OpMoves DEF Ops
<1>3. ASSUME NEW next \in SignInSteps, NotFound(c, next)
      PROVE  /\ OpOK' /\ begun' = begun
             /\ \A d \in Client : d # c => op'[d] = op[d]
             /\ op'[c].step = next /\ op'[c].how = op[c].how /\ op'[c].found = op[c].found
             /\ op'[c].identity = op[c].identity /\ op'[c].first = op[c].first
  <2> DEFINE o == [op[c] EXCEPT !.step = next]
  <2>1. /\ o \in SignIns /\ o.step = next /\ o.how = op[c].how /\ o.found = op[c].found
        /\ o.identity = op[c].identity /\ o.first = op[c].first
    BY <1>1 DEF SignIns, SignInSteps
  <2>2. op' = [op EXCEPT ![c] = o] /\ begun' = begun
    BY <1>3 DEF NotFound, GoTo
  <2> QED
    BY <2>1, <2>2, OpMoves DEF Ops
<1> QED
  BY <1>2, <1>3

\* What upsertEmailTx leaves of the addresses.
LEMMA Upserts ==
  ASSUME RestOK, NEW a \in Account, NEW x \in Address \cup {None}, row' = upsertEmail(x, a)
  PROVE  /\ row' \in [Address -> Row]
         /\ \A y \in Address :
              \/ row'[y] = row[y] /\ (y = x => row[y].owner \notin {None, a})
              \/ /\ y = x /\ row[y].owner \in {None, a}
                 /\ row'[y].owner = a /\ row'[y].verified /\ row'[y].token = 0
                 /\ row'[y].id = row[y].id
<1>a. None \notin Address
  BY AccountsAssumption
<1>1. CASE x # None /\ row[x].owner \in {None, a}
  <2> DEFINE r == [row[x] EXCEPT !.owner = a, !.verified = TRUE, !.token = 0]
  <2>1. row' = [row EXCEPT ![x] = r]
    BY <1>1 DEF upsertEmail
  <2>2. row[x] \in Row /\ x \in Address
    BY <1>1 DEF RestOK
  <2>3. 0 \in 0..MaxToken
    BY AccountsAssumption
  <2>4. r \in Row /\ r.owner = a /\ r.verified /\ r.token = 0 /\ r.id = row[x].id
    BY <2>2, <2>3 DEF Row
  <2> QED
    BY <2>1, <2>2, <2>4, <1>1 DEF RestOK
<1>2. CASE ~(x # None /\ row[x].owner \in {None, a})
  BY <1>2, <1>a DEF upsertEmail, RestOK
<1> QED
  BY <1>1, <1>2

\* What linkIdentityTx leaves of the identities.
LEMMA Links ==
  ASSUME RestOK, NEW i \in Identity, NEW a \in Account
  PROVE  /\ linkIdentity(i, a) \in [Identity -> Account \cup {None}]
         /\ \A j \in Identity : linkIdentity(i, a)[j] =
              IF j = i /\ identity[i] = None THEN a ELSE identity[j]
  BY DEF linkIdentity, RestOK

\* The writes of a sign-in, whoever is signed in.
LEMMA SignsIn ==
  ASSUME OpOK, RestOK, NEW c \in Client, op[c].step = "write", NEW a \in Account,
         users' \in [Account -> User], SignsInTo(c, a)
  PROVE  /\ OpOK' /\ RestOK' /\ op[c] \in SignIns /\ op'[c] = Idle
         /\ \A d \in Client : d # c => op'[d] = op[d]
         /\ row' = upsertEmail(EmailOf[op[c].identity], a)
         /\ EmailOf[op[c].identity] \in Address \cup {None}
         /\ identity' = IF op[c].how = "identity" THEN identity ELSE linkIdentity(op[c].identity, a)
<1>1. op[c] \in SignIns
  BY OpFields DEF OpOK, SignInSteps
<1>2. op[c].identity \in Identity /\ EmailOf[op[c].identity] \in Address \cup {None}
  BY <1>1, AccountsAssumption DEF SignIns
<1>3. /\ row' = upsertEmail(EmailOf[op[c].identity], a)
      /\ identity' = IF op[c].how = "identity" THEN identity ELSE linkIdentity(op[c].identity, a)
      /\ Done(c) /\ UNCHANGED <<links, tokens, late, twins, crossed>>
      /\ invites' \subseteq invites
  BY DEF SignsInTo, consumePendingInvites
<1>4. OpOK' /\ op'[c] = Idle /\ (\A d \in Client : d # c => op'[d] = op[d]) /\ begun' = begun
  BY <1>3, OpEnds
<1>5. row' \in [Address -> Row]
  BY <1>2, <1>3, Upserts
<1>6. identity' \in [Identity -> Account \cup {None}]
  BY <1>2, <1>3, Links DEF RestOK
<1>7. sessions' \subseteq Session
  <2>1. users'[a].epoch \in 0..MaxEpoch
    BY DEF User
  <2> QED
    BY <2>1 DEF SignsInTo, SetSessionCookie, RestOK, Session
<1> QED
  BY <1>1, <1>2, <1>3, <1>4, <1>5, <1>6, <1>7 DEF RestOK

LEMMA NewUsers ==
  ASSUME RestOK, NEW c \in Client, op[c] \in SignIns, NEW a \in Account, NEW n \in Name,
         insertNewUser(c, a, n)
  PROVE  /\ users' \in [Account -> User]
         /\ users'[a].life = "live" /\ users'[a].superuser = op[c].first /\ users'[a].active
         /\ users'[a].by = op[c].identity
         /\ \A b \in Account : b # a => users'[b] = users[b]
<1> DEFINE u == [life |-> "live", superuser |-> op[c].first, active |-> TRUE,
                 epoch |-> 0, name |-> n, by |-> op[c].identity]
<1>1. op[c].first \in BOOLEAN /\ op[c].identity \in Identity /\ 0 \in 0..MaxEpoch
  BY AccountsAssumption DEF SignIns
<1>2. u \in User
  BY <1>1 DEF User
<1>3. users' = [users EXCEPT ![a] = u]
  BY DEF insertNewUser
<1>4. u.life = "live" /\ u.superuser = op[c].first /\ u.active /\ u.by = op[c].identity
  OBVIOUS
<1> HIDE DEF u
<1> QED
  BY <1>2, <1>3, <1>4 DEF RestOK

\* Names tried are names.
LEMMA NamesWanted ==
  ASSUME NEW i \in Identity
  PROVE  Allocated(i) \subseteq Name
<1>1. Wanted[i] \in Seq(Name)
  BY AccountsAssumption
<1>2. \A k \in DOMAIN Wanted[i] : Wanted[i][k] \in Name
  BY <1>1
<1> QED
  BY <1>2 DEF Allocated

Shape == OpOK /\ RestOK /\ RowsOwned

\* A row is renewed, taken or dropped.
LEMMA RowMoves ==
  ASSUME RestOK, RowsOwned, NEW x \in Address, NEW r \in Row, row' = [row EXCEPT ![x] = r],
         r.verified \/ r.token # 0 => r.owner # None
  PROVE  /\ row' \in [Address -> Row] /\ RowsOwned'
         /\ row'[x] = r /\ \A y \in Address : y # x => row'[y] = row[y]
  BY DEF RestOK, RowsOwned

LEMMA NoRowTyped == NoRow \in Row /\ NoRow.owner = None /\ ~NoRow.verified /\ NoRow.token = 0
  BY AccountsAssumption DEF NoRow, Row

LEMMA Verifies ==
  ASSUME RestOK, RowsOwned, NEW l \in links, NEW x \in Address, row[x].token = l.token,
         row' = [row EXCEPT ![x].verified = TRUE, ![x].token = 0]
  PROVE  /\ row' \in [Address -> Row] /\ RowsOwned'
         /\ row'[x].owner = row[x].owner /\ row'[x].verified /\ row'[x].token = 0
         /\ row'[x].id = row[x].id /\ row[x].owner # None
         /\ \A y \in Address : y # x => row'[y] = row[y]
<1> DEFINE r == [row[x] EXCEPT !.verified = TRUE, !.token = 0]
<1>1. l.token \in 1..MaxToken
  BY DEF RestOK, Link
<1>2. row[x].owner # None
  BY <1>1, AccountsAssumption DEF RowsOwned
<1>3. row[x] \in Row /\ 0 \in 0..MaxToken
  BY AccountsAssumption DEF RestOK
<1>4. r \in Row /\ r.owner = row[x].owner /\ r.verified /\ r.token = 0 /\ r.id = row[x].id
  BY <1>3 DEF Row
<1>5. row' = [row EXCEPT ![x] = r]
  BY DEF RestOK
<1> HIDE DEF r
<1> QED
  BY <1>2, <1>4, <1>5, RowMoves

\* A token is made for the row of a request.
LEMMA Sends ==
  ASSUME OpOK, RestOK, NEW c \in Client, op[c].step \in {"insert", "renew"}, NewToken,
         NEW id \in 0..MaxToken, NEW undo \in BOOLEAN, Sending(c, id, undo)
  PROVE  /\ tokens' = tokens + 1 /\ tokens' \in 1..MaxToken /\ OpOK' /\ begun' = begun
         /\ op'[c].step = "send" /\ op'[c].account = op[c].account
         /\ op'[c].address = op[c].address /\ op'[c].id = id /\ op'[c].token = tokens'
         /\ \A d \in Client : d # c => op'[d] = op[d]
<1> DEFINE o == [step |-> "send", account |-> op[c].account, address |-> op[c].address,
                 id |-> id, token |-> tokens', undo |-> undo]
<1>1. tokens' = tokens + 1 /\ tokens' \in 1..MaxToken
  BY AccountsAssumption DEF NewToken, RestOK
<1>2. op[c].account \in Account /\ op[c].address \in Address
  BY OpFields DEF OpOK
<1>3. o \in Ops /\ o.step = "send" /\ o.account = op[c].account /\ o.address = op[c].address
      /\ o.id = id /\ o.token = tokens'
  BY <1>1, <1>2 DEF Ops, Errands
<1>4. op' = [op EXCEPT ![c] = o] /\ begun' = begun
  BY DEF Sending, GoTo
<1> HIDE DEF o
<1> QED
  BY <1>1, <1>3, <1>4, OpMoves

\* A mail is on its way or could not be sent: the row stands.
LEMMA Mails ==
  ASSUME OpOK, RestOK, NEW c \in Client, SendVerifyEmail(c) \/ SendFails(c)
  PROVE  /\ OpOK' /\ RestOK' /\ op[c].step = "send"
         /\ UNCHANGED <<users, identity, row, tokens, invites, late, sessions, twins, crossed>>
         /\ links' \in {links, links \cup {[token |-> op[c].token, asker |-> op[c].account,
                                            address |-> op[c].address]}}
         /\ \A d \in Client : d # c => op'[d] = op[d]
         /\ \/ op'[c] = Idle
            \/ /\ op'[c].step = "undo" /\ op'[c].account = op[c].account
               /\ op'[c].address = op[c].address /\ op'[c].id = op[c].id
               /\ op'[c].token = op[c].token
<1>1. /\ op[c].step = "send"
      /\ UNCHANGED <<users, identity, row, tokens, invites, late, sessions, twins, crossed>>
      /\ links' \in {links, links \cup {[token |-> op[c].token, asker |-> op[c].account,
                                         address |-> op[c].address]}}
      /\ Done(c) \/ GoTo(c, [op[c] EXCEPT !.step = "undo"])
  BY DEF SendVerifyEmail, SendFails, At, Delivered
<1>2. op[c] \in Ops
  BY DEF OpOK
<1>3. links' \subseteq Link
  BY <1>1, <1>2, OpFields DEF RestOK, Link
<1>4. CASE Done(c)
  BY <1>1, <1>3, <1>4, OpEnds DEF RestOK
<1>5. CASE GoTo(c, [op[c] EXCEPT !.step = "undo"])
  <2> DEFINE o == [op[c] EXCEPT !.step = "undo"]
  <2>1. op[c] \in [step : {"send", "undo"}, account : Account, address : Address,
                   id : 0..MaxToken, token : 1..MaxToken, undo : BOOLEAN]
    BY <1>1, <1>2 DEF Ops, SignIns, Errands, Idle
  <2>2. /\ o \in Errands /\ o.step = "undo" /\ o.account = op[c].account
        /\ o.address = op[c].address /\ o.id = op[c].id /\ o.token = op[c].token
    BY <2>1 DEF Errands
  <2>3. op' = [op EXCEPT ![c] = o] /\ begun' = begun /\ o \in Ops
    BY <1>5, <2>2 DEF GoTo, Ops
  <2> HIDE DEF o
  <2>4. /\ OpOK' /\ op'[c] = o /\ \A d \in Client : d # c => op'[d] = op[d]
    BY <2>3, OpMoves
  <2> QED
    BY <1>1, <1>3, <2>2, <2>3, <2>4 DEF RestOK
<1> QED
  BY <1>1, <1>4, <1>5

\* What an administrator's change leaves of the accounts.
LEMMA UserChanges ==
  ASSUME RestOK, NEW c \in Client, op[c].target \in Account, UpdateUser(c)
  PROVE  /\ users' \in [Account -> User]
         /\ \A b \in Account : /\ users'[b].life = users[b].life /\ users'[b].by = users[b].by
                               /\ b # op[c].target => users'[b] = users[b]
<1> DEFINE u == Changed(users[op[c].target], op[c].change)
<1>1. users[op[c].target] \in User
  BY DEF RestOK
<1>2. u \in User /\ u.life = users[op[c].target].life /\ u.by = users[op[c].target].by
  BY <1>1 DEF User, Changed
<1>3. users' = [users EXCEPT ![op[c].target] = u]
  BY DEF UpdateUser
<1> HIDE DEF u
<1> QED
  BY <1>2, <1>3 DEF RestOK

LEMMA GoneTyped == [NoUser EXCEPT !.life = "gone"] \in User
                   /\ [NoUser EXCEPT !.life = "gone"].life = "gone"
<1>1. NoUser \in User
  BY AccountsAssumption DEF NoUser, User
<1> QED
  BY <1>1 DEF User

LEMMA ShapeStays == Shape /\ [Next]_vars => Shape'
<1> SUFFICES ASSUME OpOK, RestOK, RowsOwned, [Next]_vars PROVE Shape'
  BY DEF Shape
<1>o. \A c \in Client : op[c] \in Ops
  BY DEF OpOK
<1>1. ASSUME NEW c \in Client, NEW i \in Identity, Callback(c, i) PROVE Shape'
  <2> DEFINE o == [step |-> "identity", identity |-> i, first |-> Live = {},
                   how |-> "none", found |-> None, active |-> FALSE]
  <2>1. o \in Ops /\ Begin(c, o)
    BY <1>1 DEF Callback, Ops, SignIns
  <2>2. UNCHANGED <<users, identity, mail, sessions, crossed>> /\ twins' \subseteq Identity
    BY <1>1 DEF Callback, RestOK
  <2> HIDE DEF o
  <2> QED
    BY <2>1, <2>2, OpBegins DEF Shape, RestOK, RowsOwned, mail
<1>2. ASSUME NEW c \in Client, FindByIdentity(c) PROVE Shape'
  <2>1. op[c] \in SignIns /\ op[c].step \in SignInSteps
    BY <1>2, <1>o, OpFields DEF FindByIdentity, At, SignInSteps
  <2>2. identity[op[c].identity] \in Account \cup {None}
    BY <2>1 DEF SignIns, RestOK
  <2>3. OpOK' /\ begun' = begun
    BY <1>2, <2>1, <2>2, SignInMoves DEF FindByIdentity, SignInSteps
  <2> QED
    BY <1>2, <2>3 DEF FindByIdentity, Shape, RestOK, RowsOwned, mail
<1>3. ASSUME NEW c \in Client, FindByEmail(c) PROVE Shape'
  <2> DEFINE x == EmailOf[op[c].identity]
  <2>1. op[c] \in SignIns /\ op[c].step \in SignInSteps
    BY <1>3, <1>o, OpFields DEF FindByEmail, At, SignInSteps
  <2>2. x \in Address \cup {None}
    BY <2>1, AccountsAssumption DEF SignIns
  <2>3. x # None /\ row[x].verified => row[x].owner \in Account
    BY <2>2 DEF RowsOwned, RestOK, Row
  <2>4. OpOK' /\ begun' = begun
    BY <1>3, <2>1, <2>3, SignInMoves DEF FindByEmail, SignInSteps
  <2> QED
    BY <1>3, <2>4 DEF FindByEmail, Shape, RestOK, RowsOwned, mail
<1>4. ASSUME NEW c \in Client, FindByName(c) PROVE Shape'
  <2>1. op[c] \in SignIns /\ op[c].step \in SignInSteps
    BY <1>4, <1>o, OpFields DEF FindByName, At, SignInSteps
  <2>2. Invitees(op[c].identity) \subseteq Account
    BY DEF Invitees, Live
  <2>3. OpOK' /\ begun' = begun
    BY <1>4, <2>1, <2>2, SignInMoves DEF FindByName, SignInSteps
  <2> QED
    BY <1>4, <2>3 DEF FindByName, Shape, RestOK, RowsOwned, mail
<1>s. ASSUME NEW c \in Client, op[c].step = "write", NEW a \in Account,
             users' \in [Account -> User], SignsInTo(c, a)
      PROVE  Shape'
  <2>1. OpOK' /\ RestOK' /\ row' = upsertEmail(EmailOf[op[c].identity], a)
        /\ EmailOf[op[c].identity] \in Address \cup {None}
    BY <1>s, SignsIn
  <2>2. \A y \in Address : row'[y] = row[y] \/ row'[y].owner = a
    BY <2>1, Upserts
  <2>3. a # None
    BY AccountsAssumption
  <2> QED
    BY <2>1, <2>2, <2>3 DEF Shape, RowsOwned
<1>5. ASSUME NEW c \in Client, LinkLogin(c) PROVE Shape'
  <2>1. op[c].step = "write" /\ op[c].found \in Account /\ users' = users /\ SignsInTo(c, op[c].found)
    BY <1>5 DEF LinkLogin, At, Live
  <2> QED
    BY <2>1, <1>s DEF RestOK
<1>6. ASSUME NEW c \in Client, SignUp(c) PROVE Shape'
  <2>1. op[c].step = "write" /\ op[c] \in SignIns
    BY <1>6, <1>o, OpFields DEF SignUp, At, SignInSteps
  <2>2. PICK a \in Unborn, n \in Allocated(op[c].identity) : insertNewUser(c, a, n) /\ SignsInTo(c, a)
    BY <1>6 DEF SignUp
  <2>3. a \in Account /\ n \in Name
    BY <2>1, <2>2, NamesWanted DEF Unborn, SignIns
  <2> QED
    BY <2>1, <2>2, <2>3, NewUsers, <1>s
<1>7. ASSUME NEW c \in Client, Ends(c) PROVE Shape'
  BY <1>7, OpEnds DEF Ends, Shape, RestOK, RowsOwned, mail
<1>8. ASSUME NEW c \in Client, UpdateUser(c) PROVE Shape'
  <2>1. op[c].target \in Account /\ crossed' \in BOOLEAN
    BY <1>8 DEF UpdateUser, Live, WasAdministrator, RestOK
  <2> QED
    BY <1>8, <2>1, UserChanges, OpEnds DEF UpdateUser, Shape, RestOK, RowsOwned, mail
<1>9. ASSUME NEW c \in Client, DeleteUser(c) PROVE Shape'
  <2> DEFINE t == op[c].target
  <2>1. t \in Account /\ crossed' \in BOOLEAN
    BY <1>9 DEF DeleteUser, Live, WasAdministrator, RestOK
  <2>2. users' \in [Account -> User]
    BY <1>9, <2>1, GoneTyped DEF DeleteUser, RestOK
  <2>3. identity' \in [Identity -> Account \cup {None}] /\ invites' \subseteq Account \X Address
    BY <1>9 DEF DeleteUser, RestOK
  <2>4. row' \in [Address -> Row] /\ \A x \in Address : row'[x] \in {row[x], NoRow}
    BY <1>9, NoRowTyped DEF DeleteUser, RestOK
  <2>5. RowsOwned'
    BY <2>4, NoRowTyped DEF RowsOwned
  <2> QED
    BY <1>9, <2>1, <2>2, <2>3, <2>4, <2>5, OpEnds DEF DeleteUser, Shape, RestOK
<1>10. ASSUME NEW c \in Client, InviteUser(c) PROVE Shape'
  <2>1. op[c].superuser \in BOOLEAN /\ crossed' \in BOOLEAN /\ 0 \in 0..MaxEpoch
    BY <1>10, <1>o, OpFields, AccountsAssumption DEF InviteUser, At, WasAdministrator, RestOK
  <2>2. PICK a \in Unborn, n \in {n \in Name : Free(n)} :
          users' = [users EXCEPT ![a] = [life |-> "live", superuser |-> op[c].superuser,
                                         active |-> TRUE, epoch |-> 0, name |-> n, by |-> None]]
    BY <1>10 DEF InviteUser
  <2>3. users' \in [Account -> User]
    BY <2>1, <2>2 DEF RestOK, User
  <2> QED
    BY <1>10, <2>1, <2>3, OpEnds DEF InviteUser, Shape, RestOK, RowsOwned, mail
<1>11. ASSUME NEW c \in Client, InsertUnverifiedEmail(c) PROVE Shape'
  <2> DEFINE x == op[c].address
             r == [id |-> tokens', owner |-> op[c].account, verified |-> FALSE, token |-> tokens']
  <2>1. op[c].step = "insert" /\ op[c].account \in Account /\ x \in Address
    BY <1>11, <1>o, OpFields DEF InsertUnverifiedEmail, At
  <2>a. NewToken /\ Sending(c, tokens', TRUE)
    BY <1>11 DEF InsertUnverifiedEmail
  <2>2. tokens' \in 0..MaxToken
    BY <2>a, AccountsAssumption DEF NewToken, RestOK
  <2>3. OpOK' /\ begun' = begun
    BY <2>1, <2>a, <2>2, Sends
  <2>4. r \in Row /\ r.owner # None
    BY <2>1, <2>2, AccountsAssumption DEF Row
  <2>5. row' = [row EXCEPT ![x] = r]
    BY <1>11 DEF InsertUnverifiedEmail
  <2> HIDE DEF r
  <2>6. row' \in [Address -> Row] /\ RowsOwned'
    BY <2>1, <2>4, <2>5, RowMoves
  <2> QED
    BY <1>11, <2>2, <2>3, <2>6 DEF InsertUnverifiedEmail, Shape, RestOK
<1>12. ASSUME NEW c \in Client, ResendVerification(c) PROVE Shape'
  <2> DEFINE x == op[c].address
             r == [row[x] EXCEPT !.token = tokens']
  <2>1. /\ op[c].step = "renew" /\ op[c].account \in Account /\ x \in Address
        /\ op[c].id \in 0..MaxToken
    BY <1>12, <1>o, OpFields DEF ResendVerification, At
  <2>a. NewToken /\ Sending(c, op[c].id, FALSE)
    BY <1>12 DEF ResendVerification
  <2>2. tokens' \in 0..MaxToken
    BY <2>a, AccountsAssumption DEF NewToken, RestOK
  <2>3. OpOK' /\ begun' = begun
    BY <2>1, <2>a, <2>2, Sends
  <2>4. r \in Row /\ r.owner # None
    BY <1>12, <2>1, <2>2, AccountsAssumption DEF Row, RestOK, ResendVerification, Same
  <2>5. row' = [row EXCEPT ![x] = r]
    BY <1>12 DEF ResendVerification
  <2> HIDE DEF r
  <2>6. row' \in [Address -> Row] /\ RowsOwned'
    BY <2>1, <2>4, <2>5, RowMoves
  <2> QED
    BY <1>12, <2>2, <2>3, <2>6 DEF ResendVerification, Shape, RestOK
<1>13. ASSUME NEW c \in Client, SendVerifyEmail(c) \/ SendFails(c) PROVE Shape'
  BY <1>13, Mails DEF Shape, RowsOwned
<1>14. ASSUME NEW c \in Client, UndoAdd(c) PROVE Shape'
  <2>1. op[c].address \in Address /\ row' = [row EXCEPT ![op[c].address] = NoRow]
    BY <1>14, <1>o, OpFields DEF UndoAdd, At
  <2>2. row' \in [Address -> Row] /\ RowsOwned'
    BY <2>1, RowMoves, NoRowTyped
  <2> QED
    BY <1>14, <2>2, OpEnds DEF UndoAdd, Shape, RestOK
<1>15. ASSUME NEW c \in Client, UpsertPendingFriendInvite(c) PROVE Shape'
  <2>1. <<op[c].account, op[c].address>> \in Account \X Address
    BY <1>15, <1>o, OpFields DEF UpsertPendingFriendInvite, At
  <2> QED
    BY <1>15, <2>1, OpEnds DEF UpsertPendingFriendInvite, Shape, RestOK, RowsOwned
<1>16. ASSUME NEW c \in Client, NEW a \in Account, NEW t \in Account, NEW ch \in Changes,
              StartChange(c, a, ch, t)
       PROVE  Shape'
  <2>1. [step |-> "change", account |-> a, change |-> ch, target |-> t] \in Ops
    BY DEF Ops, Errands
  <2> QED
    BY <1>16, <2>1, OpBegins DEF StartChange, Shape, RestOK, RowsOwned, mail
<1>17. ASSUME NEW c \in Client, NEW a \in Account, NEW s \in BOOLEAN, StartInviteUser(c, a, s)
       PROVE  Shape'
  <2>1. [step |-> "admit", account |-> a, superuser |-> s] \in Ops
    BY DEF Ops, Errands
  <2> QED
    BY <1>17, <2>1, OpBegins DEF StartInviteUser, Shape, RestOK, RowsOwned, mail
<1>18. ASSUME NEW c \in Client, NEW a \in Account, NEW x \in Address,
              StartAddEmail(c, a, x) \/ StartResend(c, a, x) \/ InviteFriend(c, a, x)
       PROVE  Shape'
  <2>1. row[x].id \in 0..MaxToken
    BY DEF RestOK, Row
  <2>2. /\ [step |-> "insert", account |-> a, address |-> x] \in Ops
        /\ [step |-> "renew", account |-> a, address |-> x, id |-> row[x].id] \in Ops
        /\ [step |-> "queue", account |-> a, address |-> x] \in Ops
    BY <2>1 DEF Ops, Errands
  <2>3. OpOK' /\ begun' \in 0..MaxRequests
    BY <1>18, <2>2, OpBegins DEF StartAddEmail, StartResend, InviteFriend
  <2>4. UNCHANGED <<users, identity, mail, sessions, twins, crossed>>
    BY <1>18 DEF StartAddEmail, StartResend, InviteFriend
  <2> QED
    BY <2>3, <2>4 DEF Shape, RestOK, RowsOwned, mail
<1>19. ASSUME NEW a \in Account, LogoutAll(a) PROVE Shape'
  <2>1. users' \in [Account -> User]
    <3> DEFINE u == [users[a] EXCEPT !.epoch = @ + 1]
    <3>1. users[a] \in User /\ users[a].epoch < MaxEpoch /\ users' = [users EXCEPT ![a] = u]
      BY <1>19 DEF LogoutAll, RestOK
    <3>2. users[a].epoch + 1 \in 0..MaxEpoch
      BY <3>1, AccountsAssumption DEF User
    <3>3. u \in User
      BY <3>1, <3>2 DEF User
    <3> HIDE DEF u
    <3> QED
      BY <3>1, <3>3 DEF RestOK
  <2> QED
    BY <1>19, <2>1 DEF LogoutAll, Shape, OpOK, RestOK, RowsOwned, mail
<1>20. ASSUME NEW a \in Account, NEW x \in Address, DeleteUserEmail(a, x) PROVE Shape'
  <2>1. row' \in [Address -> Row] /\ RowsOwned'
    BY <1>20, RowMoves, NoRowTyped DEF DeleteUserEmail
  <2> QED
    BY <1>20, <2>1 DEF DeleteUserEmail, Shape, OpOK, RestOK
<1>21. ASSUME NEW a \in Account, NEW x \in Address, CancelOutgoingInvite(a, x) PROVE Shape'
  BY <1>21 DEF CancelOutgoingInvite, Shape, OpOK, RestOK, RowsOwned
<1>22. ASSUME NEW l \in links, NEW x \in Address, VerifyEmailByToken(l, x) PROVE Shape'
  <2>1. row' \in [Address -> Row] /\ RowsOwned'
    BY <1>22, Verifies DEF VerifyEmailByToken
  <2>2. invites' \subseteq invites
    BY <1>22 DEF VerifyEmailByToken, consumePendingInvites
  <2> QED
    BY <1>22, <2>1, <2>2 DEF VerifyEmailByToken, Shape, OpOK, RestOK
<1>23. CASE UNCHANGED vars
  BY <1>23 DEF vars, mail, Shape, OpOK, RestOK, RowsOwned
<1> QED
  BY <1>1, <1>2, <1>3, <1>4, <1>5, <1>6, <1>7, <1>8, <1>9, <1>10, <1>11, <1>12, <1>13, <1>14, <1>15,
     <1>16, <1>17, <1>18, <1>19, <1>20, <1>21, <1>22, <1>23 DEF Next

\* Types, for any number of requests, and that a row which is verified or waits
\* for a link is somebody's.
THEOREM ShapeHolds == Spec => []Shape
<1>1. Init => Shape
  <2> SUFFICES ASSUME Init PROVE Shape
    OBVIOUS
  <2>1. NoUser \in User /\ 0 \in 0..MaxToken /\ 0 \in 0..MaxRequests /\ Idle \in Ops
    BY AccountsAssumption DEF NoUser, User, Ops
  <2> QED
    BY <2>1, NoRowTyped DEF Init, Shape, OpOK, RestOK, RowsOwned
<1> QED
  BY <1>1, ShapeStays, PTL DEF Spec

\* Every variable keeps its type, for any number of requests.
THEOREM TypeCorrect == Spec => []TypeOK
<1>1. Shape => TypeOK
  BY TypeSplits DEF Shape
<1> QED
  BY <1>1, ShapeHolds, PTL

----------------------------------------------------------------------------
(* How the row of an address changes. *)

ByProvider(c, x) ==
  /\ op[c].step = "write" /\ op'[c] = Idle /\ op[c] \in SignIns /\ EmailOf[op[c].identity] = x
  /\ row[x].owner \in {None, row'[x].owner} /\ row'[x].owner # None
  /\ row'[x].verified /\ row'[x].token = 0
  /\ \A v \in invites' : ~(row'[v[2]].owner = row'[x].owner /\ row'[v[2]].verified)

ByRequest(c, x) ==
  /\ op[c].step \in {"insert", "renew", "undo"} /\ op[c].address = x
  /\ InsertUnverifiedEmail(c) \/ ResendVerification(c) \/ UndoAdd(c)

Dropped(x) == row'[x] = NoRow

LEMMA HowRowsMove ==
  ASSUME Shape, [Next]_vars, NEW x \in Address, row'[x] # row[x]
  PROVE  \/ \E c \in Client : ByProvider(c, x)
         \/ \E c \in Client : ByRequest(c, x)
         \/ \E c \in Client : DeleteUser(c) /\ row[x].owner = op[c].target /\ Dropped(x)
         \/ \E a \in Account : DeleteUserEmail(a, x) /\ Dropped(x)
         \/ \E l \in links : VerifyEmailByToken(l, x)
<1>r. row \in [Address -> Row] /\ row # row'
  BY DEF Shape, RestOK
<1>s. ASSUME NEW c \in Client, op[c].step = "write", NEW a \in Account,
             users' \in [Account -> User], SignsInTo(c, a)
      PROVE  ByProvider(c, x)
  <2>1. /\ op[c] \in SignIns /\ op'[c] = Idle /\ row' = upsertEmail(EmailOf[op[c].identity], a)
        /\ EmailOf[op[c].identity] \in Address \cup {None} /\ a # None
    BY <1>s, SignsIn, AccountsAssumption DEF Shape
  <2> QED
    BY <2>1, <1>s, Upserts DEF ByProvider, Shape, SignsInTo, consumePendingInvites
<1>1. ASSUME NEW c \in Client, LinkLogin(c) PROVE ByProvider(c, x)
  <2>1. op[c].step = "write" /\ op[c].found \in Account /\ users' = users /\ SignsInTo(c, op[c].found)
    BY <1>1 DEF LinkLogin, At, Live
  <2> QED
    BY <2>1, <1>s DEF Shape, RestOK
<1>2. ASSUME NEW c \in Client, SignUp(c) PROVE ByProvider(c, x)
  <2>1. op[c].step = "write" /\ op[c] \in SignIns
    BY <1>2, OpFields DEF SignUp, At, SignInSteps, Shape, OpOK
  <2>2. PICK a \in Unborn, n \in Allocated(op[c].identity) : insertNewUser(c, a, n) /\ SignsInTo(c, a)
    BY <1>2 DEF SignUp
  <2>3. a \in Account /\ n \in Name
    BY <2>1, <2>2, NamesWanted DEF Unborn, SignIns
  <2> QED
    BY <2>1, <2>2, <2>3, NewUsers, <1>s DEF Shape
<1>3. ASSUME NEW c \in Client, InsertUnverifiedEmail(c) \/ ResendVerification(c) \/ UndoAdd(c)
      PROVE  ByRequest(c, x)
  <2>1. op[c].step \in {"insert", "renew", "undo"}
    BY <1>3 DEF InsertUnverifiedEmail, ResendVerification, UndoAdd, At
  <2>2. x # op[c].address => row'[x] = row[x]
    BY <1>3, <1>r DEF InsertUnverifiedEmail, ResendVerification, UndoAdd
  <2> QED
    BY <2>1, <2>2, <1>3 DEF ByRequest
<1>4. ASSUME NEW c \in Client, DeleteUser(c) PROVE row[x].owner = op[c].target /\ Dropped(x)
  BY <1>4 DEF DeleteUser, Dropped
<1>5. ASSUME NEW a \in Account, NEW y \in Address, DeleteUserEmail(a, y) PROVE x = y /\ Dropped(x)
  BY <1>5, <1>r DEF DeleteUserEmail, Dropped
<1>6. ASSUME NEW l \in links, NEW y \in Address, VerifyEmailByToken(l, y) PROVE x = y
  BY <1>6, Verifies DEF VerifyEmailByToken, Shape
<1>7. ASSUME NEW c \in Client,
             \/ FindByIdentity(c) \/ FindByEmail(c) \/ FindByName(c) \/ Ends(c) \/ UpdateUser(c)
             \/ InviteUser(c) \/ SendVerifyEmail(c) \/ SendFails(c) \/ UpsertPendingFriendInvite(c)
             \/ \E i \in Identity : Callback(c, i)
             \/ \E a, t \in Account, ch \in Changes : StartChange(c, a, ch, t)
             \/ \E a \in Account, s \in BOOLEAN : StartInviteUser(c, a, s)
             \/ \E a \in Account, y \in Address :
                  StartAddEmail(c, a, y) \/ StartResend(c, a, y) \/ InviteFriend(c, a, y)
      PROVE  FALSE
  BY <1>7, <1>r
     DEF FindByIdentity, FindByEmail, FindByName, Ends, UpdateUser, InviteUser, SendVerifyEmail, SendFails,
         UpsertPendingFriendInvite, Callback, StartChange, StartInviteUser, StartAddEmail, StartResend,
         InviteFriend, mail
<1>8. ASSUME NEW a \in Account,
             LogoutAll(a) \/ \E y \in Address : CancelOutgoingInvite(a, y)
      PROVE  FALSE
  BY <1>8, <1>r DEF LogoutAll, CancelOutgoingInvite, mail
<1>9. CASE UNCHANGED vars
  BY <1>9, <1>r DEF vars, mail
<1> QED
  BY <1>1, <1>2, <1>3, <1>4, <1>5, <1>6, <1>7, <1>8, <1>9 DEF Next

\* A verified address goes only with its account, at its owner's word or as
\* the row whose mail could not be sent.
THEOREM VerifiedAlwaysStays == Spec => VerifiedStays
<1>1. ASSUME Shape, [Next]_vars, NEW x \in Address, row[x].verified, row'[x].owner # row[x].owner
      PROVE  \/ row[x].owner \notin Live' \/ op' = op
             \/ \E c \in Client : At(c, "undo") /\ op[c].id = row[x].id /\ op'[c] = Idle
  <2>o. row[x].owner # None
    BY <1>1 DEF Shape, RowsOwned
  <2>1. ASSUME NEW c \in Client, ByProvider(c, x) PROVE FALSE
    BY <2>1, <2>o, <1>1 DEF ByProvider
  <2>2. ASSUME NEW c \in Client, ByRequest(c, x)
        PROVE  At(c, "undo") /\ op[c].id = row[x].id /\ op'[c] = Idle
    <3>1. ~InsertUnverifiedEmail(c)
      BY <2>2, <2>o DEF InsertUnverifiedEmail, ByRequest
    <3>2. ~ResendVerification(c)
      BY <2>2, <1>1 DEF ResendVerification, ByRequest, Shape, RestOK, Row
    <3> QED
      BY <3>1, <3>2, <2>2, <1>1, OpEnds DEF ByRequest, UndoAdd, Same, Shape
  <2>3. ASSUME NEW c \in Client, DeleteUser(c), row[x].owner = op[c].target PROVE row[x].owner \notin Live'
    BY <2>3, <1>1, GoneTyped DEF DeleteUser, Live, Shape, RestOK
  <2>4. ASSUME NEW a \in Account, DeleteUserEmail(a, x) PROVE op' = op
    BY <2>4 DEF DeleteUserEmail
  <2>5. ASSUME NEW l \in links, VerifyEmailByToken(l, x) PROVE FALSE
    BY <2>5, <1>1, Verifies DEF VerifyEmailByToken, Shape
  <2>6. row'[x] # row[x]
    BY <1>1
  <2> QED
    BY <2>1, <2>2, <2>3, <2>4, <2>5, <2>6, <1>1, HowRowsMove
<1>2. Shape /\ [Next]_vars =>
        [\A x \in Address :
           row[x].verified /\ row'[x].owner # row[x].owner =>
             \/ row[x].owner \notin Live' \/ op' = op
             \/ \E c \in Client : At(c, "undo") /\ op[c].id = row[x].id /\ op'[c] = Idle]_vars
  BY <1>1
<1> QED
  BY <1>2, ShapeHolds, PTL DEF Spec, VerifiedStays

----------------------------------------------------------------------------
(* Invitations *)

LEMMA InvitesStay == Shape /\ InvitesLand /\ [Next]_vars => InvitesLand'
<1> SUFFICES ASSUME Shape, InvitesLand, [Next]_vars, NEW v \in invites', row'[v[2]].verified
             PROVE  v \in late'
  BY DEF InvitesLand
<1>t. Shape'
  BY ShapeStays
<1>x. v[2] \in Address
  BY <1>t DEF Shape, RestOK
<1> DEFINE x == v[2]
<1>1. ASSUME NEW c \in Client, UpsertPendingFriendInvite(c) PROVE v \in late'
  <2>1. row' = row /\ late \subseteq late'
    BY <1>1 DEF UpsertPendingFriendInvite
  <2>2. CASE v \in invites
    BY <2>1, <2>2 DEF InvitesLand
  <2>3. CASE v \notin invites
    <3>1. v = <<op[c].account, op[c].address>>
      BY <1>1, <2>3 DEF UpsertPendingFriendInvite
    <3> QED
      BY <3>1, <2>1, <1>1 DEF UpsertPendingFriendInvite
  <2> QED
    BY <2>2, <2>3
<1>2. ASSUME ~ \E c \in Client : UpsertPendingFriendInvite(c) PROVE v \in invites /\ late' = late
  BY <1>2
     DEF Next, vars, Callback, FindByIdentity, FindByEmail, FindByName, LinkLogin, SignUp, SignsInTo, Ends,
         UpdateUser, DeleteUser, InviteUser, InsertUnverifiedEmail, ResendVerification, SendVerifyEmail,
         SendFails, UndoAdd, StartChange, StartInviteUser, StartAddEmail, StartResend, InviteFriend,
         LogoutAll, DeleteUserEmail, CancelOutgoingInvite, VerifyEmailByToken, consumePendingInvites, mail
<1>3. ASSUME ~ \E c \in Client : UpsertPendingFriendInvite(c), row'[x] # row[x] PROVE v \in late'
  <2>1. ASSUME NEW c \in Client, ByProvider(c, x) PROVE FALSE
    BY <2>1 DEF ByProvider
  <2>2. ASSUME NEW c \in Client, ByRequest(c, x) PROVE v \in late'
    <3>a. op[c].address = x /\ x \in Address /\ row \in [Address -> Row]
      BY <2>2, <1>x DEF ByRequest, Shape, RestOK
    <3>b. ~InsertUnverifiedEmail(c)
      <4>1. ASSUME InsertUnverifiedEmail(c) PROVE ~row'[x].verified
        BY <4>1, <3>a DEF InsertUnverifiedEmail
      <4> QED
        BY <4>1
    <3>c. ~UndoAdd(c)
      <4>1. ASSUME UndoAdd(c) PROVE row'[x] = NoRow
        BY <4>1, <3>a DEF UndoAdd
      <4> QED
        BY <4>1, NoRowTyped
    <3>1. ~InsertUnverifiedEmail(c) /\ ~UndoAdd(c)
      BY <3>b, <3>c
    <3>2. row[x].verified
      BY <3>1, <2>2, <1>x DEF ByRequest, ResendVerification, Shape, RestOK, Row
    <3> QED
      BY <3>2, <1>2, <1>3 DEF InvitesLand
  <2>3. ~Dropped(x)
    BY NoRowTyped DEF Dropped
  <2>4. ASSUME NEW l \in links, VerifyEmailByToken(l, x) PROVE FALSE
    <3>1. row'[x].owner = row[x].owner
      BY <2>4, <1>x, Verifies DEF VerifyEmailByToken, Shape
    <3> QED
      BY <2>4, <3>1 DEF VerifyEmailByToken, consumePendingInvites
  <2> QED
    BY <2>1, <2>2, <2>3, <2>4, <1>3, <1>x, HowRowsMove
<1> QED
  BY <1>1, <1>2, <1>3 DEF InvitesLand

\* An invitation never waits for an address that is verified, but for one
\* looked up before that was so.
THEOREM InvitesAlwaysLand == Spec => []InvitesLand
<1>1. Init => InvitesLand
  BY DEF Init, InvitesLand
<1> QED
  BY <1>1, InvitesStay, ShapeHolds, PTL DEF Spec

----------------------------------------------------------------------------
(* How a request moves. *)

Begins(c) ==
  /\ op[c].step = "idle"
  /\ \/ \E i \in Identity : Callback(c, i)
     \/ \E a, t \in Account, ch \in Changes : StartChange(c, a, ch, t)
     \/ op'[c].step \in {"admit", "insert", "renew", "queue"}

Finds(c) ==
  /\ op[c].step \in {"identity", "email", "name"}
  /\ FindByIdentity(c) \/ FindByEmail(c) \/ FindByName(c)

Posts(c) == InsertUnverifiedEmail(c) \/ ResendVerification(c)

Undoes(c) ==
  /\ op[c].step = "send" /\ op'[c].step = "undo" /\ op'[c].account = op[c].account
  /\ op'[c].address = op[c].address /\ op'[c].token = op[c].token

LEMMA HowOpsMove ==
  ASSUME Shape, [Next]_vars, NEW c \in Client, op'[c] # op[c]
  PROVE  op'[c] = Idle \/ Begins(c) \/ Finds(c) \/ Posts(c) \/ Undoes(c)
<1>s. OpOK /\ RestOK /\ \A d \in Client : op[d] \in Ops
  BY DEF Shape, OpOK
<1>1. ASSUME NEW d \in Client, NEW i \in Identity, Callback(d, i) PROVE c = d /\ Begins(d)
  <2>1. [step |-> "identity", identity |-> i, first |-> Live = {},
         how |-> "none", found |-> None, active |-> FALSE] \in Ops
    BY DEF Ops, SignIns
  <2> QED
    BY <1>1, <2>1, <1>s, OpBegins DEF Callback, Begins
<1>2. ASSUME NEW d \in Client, FindByIdentity(d) \/ FindByEmail(d) \/ FindByName(d) PROVE c = d /\ Finds(d)
  <2>1. op[d].step \in {"identity", "email", "name"}
    BY <1>2 DEF FindByIdentity, FindByEmail, FindByName, At
  <2>2. c # d => op'[c] = op[c]
    BY <1>2, <1>s DEF FindByIdentity, FindByEmail, FindByName, Found, NotFound, GoTo, OpOK
  <2> QED
    BY <1>2, <2>1, <2>2 DEF Finds
<1>3. ASSUME NEW d \in Client,
             \/ LinkLogin(d) \/ SignUp(d) \/ Ends(d) \/ UpdateUser(d) \/ DeleteUser(d) \/ InviteUser(d)
             \/ UndoAdd(d) \/ UpsertPendingFriendInvite(d)
      PROVE  op'[c] = Idle
  <2>1. Done(d)
    BY <1>3 DEF LinkLogin, SignUp, SignsInTo, Ends, UpdateUser, DeleteUser, InviteUser, UndoAdd,
                UpsertPendingFriendInvite
  <2> QED
    BY <2>1, <1>s, OpEnds
<1>4. ASSUME NEW d \in Client, InsertUnverifiedEmail(d) \/ ResendVerification(d) PROVE c = d /\ Posts(d)
  <2>1. c # d => op'[c] = op[c]
    BY <1>4, <1>s DEF InsertUnverifiedEmail, ResendVerification, Sending, GoTo, OpOK
  <2> QED
    BY <1>4, <2>1 DEF Posts
<1>5. ASSUME NEW d \in Client, SendVerifyEmail(d) \/ SendFails(d) PROVE op'[c] = Idle \/ Undoes(c)
  BY <1>5, <1>s, Mails DEF Undoes
<1>6. ASSUME NEW d \in Client, NEW a \in Account, NEW t \in Account, NEW ch \in Changes,
             StartChange(d, a, ch, t)
      PROVE  c = d /\ Begins(d)
  <2>1. [step |-> "change", account |-> a, change |-> ch, target |-> t] \in Ops
    BY DEF Ops, Errands
  <2> QED
    BY <1>6, <2>1, <1>s, OpBegins DEF StartChange, Begins
<1>7. ASSUME NEW d \in Client, NEW a \in Account, NEW u \in BOOLEAN, StartInviteUser(d, a, u)
      PROVE  c = d /\ Begins(d)
  <2>1. [step |-> "admit", account |-> a, superuser |-> u] \in Ops
    BY DEF Ops, Errands
  <2> QED
    BY <1>7, <2>1, <1>s, OpBegins DEF StartInviteUser, Begins
<1>8. ASSUME NEW d \in Client, NEW a \in Account, NEW x \in Address,
             StartAddEmail(d, a, x) \/ StartResend(d, a, x) \/ InviteFriend(d, a, x)
      PROVE  c = d /\ Begins(d)
  <2>1. row[x].id \in 0..MaxToken
    BY <1>s DEF RestOK, Row
  <2>2. /\ [step |-> "insert", account |-> a, address |-> x] \in Ops
        /\ [step |-> "renew", account |-> a, address |-> x, id |-> row[x].id] \in Ops
        /\ [step |-> "queue", account |-> a, address |-> x] \in Ops
    BY <2>1 DEF Ops, Errands
  <2> QED
    BY <1>8, <2>2, <1>s, OpBegins DEF StartAddEmail, StartResend, InviteFriend, Begins
<1>9. ASSUME \/ \E a \in Account : LogoutAll(a)
             \/ \E a \in Account, x \in Address : DeleteUserEmail(a, x) \/ CancelOutgoingInvite(a, x)
             \/ \E l \in links, x \in Address : VerifyEmailByToken(l, x)
             \/ UNCHANGED vars
      PROVE  FALSE
  BY <1>9 DEF LogoutAll, DeleteUserEmail, CancelOutgoingInvite, VerifyEmailByToken, vars
<1> QED
  BY <1>1, <1>2, <1>3, <1>4, <1>5, <1>6, <1>7, <1>8, <1>9 DEF Next

LEMMA FindsMove ==
  ASSUME Shape, NEW c \in Client, Finds(c)
  PROVE  /\ op'[c].step \in {"email", "name", "write"}
         /\ op'[c].identity = op[c].identity /\ op'[c].first = op[c].first
         /\ \/ /\ op[c].step = "identity" /\ identity[op[c].identity] # None /\ op'[c].step = "write"
               /\ op'[c].how = "identity" /\ op'[c].found = identity[op[c].identity]
            \/ /\ op[c].step = "identity" => identity[op[c].identity] = None
               /\ op'[c].how = op[c].how /\ op'[c].found = op[c].found
            \/ /\ op[c].step \in {"email", "name"} /\ op'[c].step = "write"
               /\ op'[c].how \in {"email", "name"} /\ op'[c].found \in Account
         /\ UNCHANGED <<users, identity, mail, sessions, twins, crossed>>
<1>s. OpOK /\ RestOK
  BY DEF Shape
<1>1. op[c] \in SignIns /\ op[c].step \in SignInSteps
  BY <1>s, OpFields DEF Finds, SignInSteps, OpOK
<1>2. CASE FindByIdentity(c)
  <2>1. op[c].step = "identity" /\ identity[op[c].identity] \in Account \cup {None}
    BY <1>2, <1>1, <1>s DEF FindByIdentity, At, SignIns, RestOK
  <2> QED
    BY <1>2, <2>1, <1>1, <1>s, SignInMoves DEF FindByIdentity, SignInSteps
<1>3. CASE FindByEmail(c)
  <2>1. op[c].step = "email" /\ EmailOf[op[c].identity] \in Address \cup {None}
    BY <1>3, <1>1, AccountsAssumption DEF FindByEmail, At, SignIns
  <2>2. EmailOf[op[c].identity] # None /\ row[EmailOf[op[c].identity]].verified
          => row[EmailOf[op[c].identity]].owner \in Account
    BY <2>1 DEF Shape, RowsOwned, RestOK, Row
  <2> QED
    BY <1>3, <2>1, <2>2, <1>1, <1>s, SignInMoves DEF FindByEmail, SignInSteps
<1>4. CASE FindByName(c)
  <2>1. op[c].step = "name" /\ Invitees(op[c].identity) \subseteq Account
    BY <1>4 DEF FindByName, At, Invitees, Live
  <2> QED
    BY <1>4, <2>1, <1>1, <1>s, SignInMoves DEF FindByName, SignInSteps
<1> QED
  BY <1>2, <1>3, <1>4 DEF Finds

----------------------------------------------------------------------------
(* Links *)

\* A token is of one row and one asker: the row it is on, the links that
\* carry it and the requests that are sending it agree.
Agree(token, account, address) ==
  /\ token <= tokens
  /\ \A x \in Address : row[x].token = token => x = address /\ row[x].owner = account

TokensAgree ==
  /\ \A x \in Address : row[x].token <= tokens
  /\ \A l \in links : Agree(l.token, l.asker, l.address)
  /\ \A c \in Client : op[c].step \in {"send", "undo"} =>
       Agree(op[c].token, op[c].account, op[c].address)

\* No row gets an old token from anybody else.
LEMMA AgreeStays ==
  ASSUME RestOK, RestOK', tokens <= tokens', NEW t \in 1..MaxToken, NEW a \in Account, NEW y \in Address,
         Agree(t, a, y),
         \A x \in Address : \/ row'[x].token = row[x].token /\ row'[x].owner = row[x].owner
                           \/ row'[x].token = 0 \/ row'[x].token > tokens
  PROVE  Agree(t, a, y)'
<1>1. t <= tokens'
  BY DEF Agree, RestOK
<1>2. ASSUME NEW x \in Address, row'[x].token = t PROVE x = y /\ row'[x].owner = a
  BY <1>2 DEF Agree, RestOK
<1> QED
  BY <1>1, <1>2 DEF Agree

\* A row keeps its token and its owner, or has none, or gets the newest one.
LEMMA RowTokens ==
  ASSUME Shape, [Next]_vars
  PROVE  /\ tokens <= tokens'
         /\ \A x \in Address :
              \/ row'[x].token = row[x].token /\ row'[x].owner = row[x].owner
              \/ row'[x].token = 0
              \/ row'[x].token = tokens' /\ tokens' = tokens + 1
<1>s. Shape'
  BY ShapeStays
<1>1. tokens' = tokens \/ tokens' = tokens + 1
  BY DEF Next, vars, Callback, FindByIdentity, FindByEmail, FindByName, LinkLogin, SignUp, SignsInTo, Ends,
         UpdateUser, DeleteUser, InviteUser, InsertUnverifiedEmail, ResendVerification, SendVerifyEmail,
         SendFails, UndoAdd, StartChange, StartInviteUser, StartAddEmail, StartResend, InviteFriend,
         LogoutAll, DeleteUserEmail, CancelOutgoingInvite, VerifyEmailByToken, UpsertPendingFriendInvite,
         NewToken, mail
<1>2. ASSUME NEW x \in Address, row'[x] # row[x]
      PROVE  \/ row'[x].token = row[x].token /\ row'[x].owner = row[x].owner
             \/ row'[x].token = 0
             \/ row'[x].token = tokens' /\ tokens' = tokens + 1
  <2>1. ASSUME NEW c \in Client, ByProvider(c, x) PROVE row'[x].token = 0
    BY <2>1 DEF ByProvider
  <2>2. ASSUME NEW c \in Client, ByRequest(c, x)
        PROVE  row'[x].token = 0 \/ (row'[x].token = tokens' /\ tokens' = tokens + 1)
    <3>1. op[c].address = x /\ row \in [Address -> Row] /\ row[x] \in Row
      BY <2>2 DEF ByRequest, Shape, RestOK
    <3>2. CASE InsertUnverifiedEmail(c)
      BY <3>1, <3>2 DEF InsertUnverifiedEmail, NewToken
    <3>3. CASE ResendVerification(c)
      BY <3>1, <3>3 DEF ResendVerification, NewToken, Row
    <3>4. CASE UndoAdd(c)
      <4>1. row'[x] = NoRow
        BY <3>1, <3>4 DEF UndoAdd
      <4> QED
        BY <4>1, NoRowTyped
    <3> QED
      BY <3>2, <3>3, <3>4, <2>2 DEF ByRequest
  <2>3. Dropped(x) => row'[x].token = 0
    BY NoRowTyped DEF Dropped
  <2>4. ASSUME NEW l \in links, VerifyEmailByToken(l, x) PROVE row'[x].token = 0
    BY <2>4, Verifies DEF VerifyEmailByToken, Shape
  <2> QED
    BY <2>1, <2>2, <2>3, <2>4, <1>2, HowRowsMove
<1>3. tokens <= tokens'
  BY <1>1 DEF Shape, RestOK
<1> QED
  BY <1>2, <1>3

\* A link is new only when its mail goes out.
LEMMA HowLinksCome ==
  ASSUME Shape, [Next]_vars, NEW l \in links', l \notin links
  PROVE  \E c \in Client : /\ op[c].step = "send" /\ row' = row /\ tokens' = tokens
                          /\ l = [token |-> op[c].token, asker |-> op[c].account,
                                  address |-> op[c].address]
<1>1. \E c \in Client : SendVerifyEmail(c) \/ SendFails(c)
  BY DEF Next, vars, Callback, FindByIdentity, FindByEmail, FindByName, LinkLogin, SignUp, SignsInTo, Ends,
         UpdateUser, DeleteUser, InviteUser, InsertUnverifiedEmail, ResendVerification,
         UndoAdd, StartChange, StartInviteUser, StartAddEmail, StartResend, InviteFriend,
         LogoutAll, DeleteUserEmail, CancelOutgoingInvite, VerifyEmailByToken, UpsertPendingFriendInvite,
         mail
<1> QED
  BY <1>1, Mails DEF Shape

\* Whoever posts a new token sends it to the asker of the row it is on.
LEMMA PostsAgree ==
  ASSUME Shape, Shape', \A x \in Address : row[x].token <= tokens, NEW c \in Client, Posts(c)
  PROVE  Agree(op[c].token, op[c].account, op[c].address)'
<1>2. NewToken
  BY DEF Posts, InsertUnverifiedEmail, ResendVerification
<1>3. /\ op'[c].account = op[c].account /\ op'[c].address = op[c].address /\ op'[c].token = tokens'
      /\ tokens' = tokens + 1 /\ tokens' \in 1..MaxToken
  <2>1. CASE InsertUnverifiedEmail(c)
    <3>1. Sending(c, tokens', TRUE) /\ op[c].step = "insert" /\ tokens' \in 0..MaxToken
      BY <2>1 DEF InsertUnverifiedEmail, At, Shape, RestOK
    <3> QED
      BY <3>1, <1>2, Sends DEF Shape
  <2>2. CASE ResendVerification(c)
    <3>1. Sending(c, op[c].id, FALSE) /\ op[c].step = "renew" /\ op[c].id \in 0..MaxToken
      BY <2>2, OpFields DEF ResendVerification, At, Shape, OpOK
    <3> QED
      BY <3>1, <1>2, Sends DEF Shape
  <2> QED
    BY <2>1, <2>2 DEF Posts
<1>4. op[c].address \in Address
  BY OpFields DEF Posts, InsertUnverifiedEmail, ResendVerification, At, Shape, OpOK
<1>5. row'[op[c].address].owner = op[c].account /\ \A y \in Address : y # op[c].address => row'[y] = row[y]
  <2>1. row \in [Address -> Row] /\ row[op[c].address] \in Row
    BY <1>4 DEF Shape, RestOK
  <2>2. CASE InsertUnverifiedEmail(c)
    BY <2>1, <2>2, <1>4 DEF InsertUnverifiedEmail
  <2>3. CASE ResendVerification(c)
    BY <2>1, <2>3, <1>4 DEF ResendVerification, Same, Row
  <2> QED
    BY <2>2, <2>3 DEF Posts
<1>6. ASSUME NEW y \in Address, row'[y].token = tokens' PROVE y = op[c].address
  <2>1. row[y].token <= tokens /\ row[y].token \in Nat /\ tokens \in Nat
    BY AccountsAssumption DEF Shape, RestOK, Row
  <2> QED
    BY <2>1, <1>3, <1>5, <1>6
<1> QED
  BY <1>3, <1>5, <1>6 DEF Agree

LEMMA TokensStay == Shape /\ TokensAgree /\ [Next]_vars => TokensAgree'
<1> SUFFICES ASSUME Shape, TokensAgree, [Next]_vars PROVE TokensAgree'
  OBVIOUS
<1>s. Shape'
  BY ShapeStays
<1>k. RestOK /\ RestOK' /\ tokens \in Nat /\ tokens' \in Nat
  BY <1>s, AccountsAssumption DEF Shape, RestOK
<1>r. /\ tokens <= tokens'
      /\ \A x \in Address : \/ row'[x].token = row[x].token /\ row'[x].owner = row[x].owner
                            \/ row'[x].token = 0 \/ row'[x].token > tokens
  BY <1>k, RowTokens
<1>a. ASSUME NEW t \in 1..MaxToken, NEW a \in Account, NEW y \in Address, Agree(t, a, y)
      PROVE  Agree(t, a, y)'
  BY <1>a, <1>r, <1>k, AgreeStays
<1>1. ASSUME NEW x \in Address PROVE row'[x].token <= tokens'
  <2>1. row[x].token <= tokens /\ row[x].token \in Nat
    BY <1>k DEF TokensAgree, RestOK, Row
  <2> QED
    BY <2>1, <1>k, RowTokens
<1>2. ASSUME NEW l \in links' PROVE Agree(l.token, l.asker, l.address)'
  <2>t. l.token \in 1..MaxToken /\ l.asker \in Account /\ l.address \in Address
    BY <1>k DEF RestOK, Link
  <2>1. CASE l \in links
    BY <2>1, <2>t, <1>a DEF TokensAgree
  <2>2. CASE l \notin links
    <3>1. PICK c \in Client :
            op[c].step = "send" /\ l = [token |-> op[c].token, asker |-> op[c].account,
                                        address |-> op[c].address]
      BY <2>2, HowLinksCome
    <3>2. Agree(op[c].token, op[c].account, op[c].address)
      BY <3>1 DEF TokensAgree
    <3> QED
      BY <3>1, <3>2, <2>t, <1>a
  <2> QED
    BY <2>1, <2>2
<1>3. ASSUME NEW c \in Client, op'[c].step \in {"send", "undo"}
      PROVE  Agree(op[c].token, op[c].account, op[c].address)'
  <2>1. CASE Posts(c)
    BY <2>1, <1>s, PostsAgree DEF TokensAgree
  <2>2. CASE ~Posts(c)
    <3>1. /\ op[c].step \in {"send", "undo"} /\ op'[c].token = op[c].token
          /\ op'[c].account = op[c].account /\ op'[c].address = op[c].address
      <4>1. op'[c] # Idle
        BY <1>3 DEF Idle
      <4>2. ~Begins(c)
        <5>1. ASSUME NEW i \in Identity, Callback(c, i) PROVE op'[c].step = "identity"
          <6>1. [step |-> "identity", identity |-> i, first |-> Live = {},
                 how |-> "none", found |-> None, active |-> FALSE] \in Ops
            BY DEF Ops, SignIns
          <6> QED
            BY <5>1, <6>1, OpBegins DEF Callback, Shape
        <5>2. ASSUME NEW a \in Account, NEW t \in Account, NEW ch \in Changes, StartChange(c, a, ch, t)
              PROVE  op'[c].step = "change"
          <6>1. [step |-> "change", account |-> a, change |-> ch, target |-> t] \in Ops
            BY DEF Ops, Errands
          <6> QED
            BY <5>2, <6>1, OpBegins DEF StartChange, Shape
        <5> QED
          BY <5>1, <5>2, <1>3 DEF Begins
      <4>3. ~Finds(c)
        <5>1. ASSUME Finds(c) PROVE op'[c].step \in SignInSteps
          BY <5>1, FindsMove DEF SignInSteps
        <5> QED
          BY <5>1, <1>3 DEF SignInSteps
      <4> QED
        BY <4>1, <4>2, <4>3, <2>2, <1>3, HowOpsMove DEF Undoes
    <3>2. op[c].token \in 1..MaxToken /\ op[c].account \in Account /\ op[c].address \in Address
      BY <3>1, OpFields DEF Shape, OpOK
    <3>3. Agree(op[c].token, op[c].account, op[c].address)
      BY <3>1 DEF TokensAgree
    <3>4. Agree(op[c].token, op[c].account, op[c].address)
          => \A t, a, y : t = op[c].token /\ a = op[c].account /\ y = op[c].address => Agree(t, a, y)'
      BY <3>2, <1>a
    <3> QED
      BY <3>1, <3>3, <3>4
  <2> QED
    BY <2>1, <2>2
<1> QED
  BY <1>1, <1>2, <1>3 DEF TokensAgree
\* An address becomes an account's verified one by the link that account asked
\* for, or by the word of its provider.
THEOREM ProofAlwaysOwners == Spec => ProofIsTheOwners
<1>1. Init => TokensAgree
  BY NoRowTyped DEF Init, TokensAgree, Idle
<1>2. ASSUME Shape, TokensAgree, [Next]_vars, NEW x \in Address,
             row'[x].verified /\ ~(row[x].verified /\ row'[x].owner = row[x].owner)
      PROVE  \/ \E l \in links : l = [token |-> row[x].token, asker |-> row'[x].owner, address |-> x]
             \/ \E c \in Client : At(c, "write") /\ op'[c] = Idle /\ EmailOf[op[c].identity] = x
  <2>1. ASSUME NEW c \in Client, ByProvider(c, x)
        PROVE  At(c, "write") /\ op'[c] = Idle /\ EmailOf[op[c].identity] = x
    BY <2>1 DEF ByProvider, At
  <2>2. ASSUME NEW c \in Client, ByRequest(c, x) PROVE FALSE
    <3>1. op[c].address = x /\ row \in [Address -> Row] /\ row[x] \in Row
      BY <2>2, <1>2 DEF ByRequest, Shape, RestOK
    <3>2. ASSUME InsertUnverifiedEmail(c) PROVE ~row'[x].verified
      BY <3>1, <3>2 DEF InsertUnverifiedEmail
    <3>3. ASSUME ResendVerification(c) PROVE row'[x].verified = row[x].verified /\ row'[x].owner = row[x].owner
      BY <3>1, <3>3 DEF ResendVerification, Row
    <3>4. ASSUME UndoAdd(c) PROVE row'[x] = NoRow
      BY <3>1, <3>4 DEF UndoAdd
    <3> QED
      BY <3>2, <3>3, <3>4, <2>2, <1>2, NoRowTyped DEF ByRequest
  <2>3. ~Dropped(x)
    BY <1>2, NoRowTyped DEF Dropped
  <2>4. ASSUME NEW l \in links, VerifyEmailByToken(l, x)
        PROVE  l = [token |-> row[x].token, asker |-> row'[x].owner, address |-> x]
    <3>1. row[x].token = l.token /\ row'[x].owner = row[x].owner
      BY <2>4, <1>2, Verifies DEF VerifyEmailByToken, Shape
    <3>2. l.asker = row[x].owner /\ l.address = x
      BY <3>1, <1>2 DEF TokensAgree, Agree
    <3>3. l \in Link
      BY <1>2 DEF Shape, RestOK
    <3> QED
      BY <3>1, <3>2, <3>3 DEF Link
  <2>5. row'[x] # row[x]
    BY <1>2
  <2> QED
    BY <2>1, <2>2, <2>3, <2>4, <2>5, <1>2, HowRowsMove
<1>3. Shape /\ TokensAgree /\ [Next]_vars =>
        [\A x \in Address :
           row'[x].verified /\ ~(row[x].verified /\ row'[x].owner = row[x].owner) =>
             \/ \E l \in links : l = [token |-> row[x].token, asker |-> row'[x].owner, address |-> x]
             \/ \E c \in Client : At(c, "write") /\ op'[c] = Idle /\ EmailOf[op[c].identity] = x]_vars
  BY <1>2
<1> QED
  BY <1>1, <1>3, TokensStay, ShapeHolds, PTL DEF Spec, ProofIsTheOwners

----------------------------------------------------------------------------
(* Accounts and administrators *)

\* A new account is of a sign-in that found nobody, or of an invitation.
Opened(c, b) ==
  /\ users[b].life = "unborn" /\ users'[b].life = "live" /\ UNCHANGED <<twins, crossed>>
  /\ op[c].step = "write" /\ op[c] \in SignIns /\ op[c].found = None
  /\ users'[b].by = op[c].identity /\ users'[b].superuser = op[c].first /\ users'[b].active
  /\ identity' = IF op[c].how = "identity" THEN identity ELSE linkIdentity(op[c].identity, b)

LEMMA HowUsersMove ==
  ASSUME Shape, [Next]_vars, NEW b \in Account
  PROVE  \/ /\ users'[b].life = users[b].life /\ users'[b].by = users[b].by
            /\ users'[b].superuser = users[b].superuser /\ users'[b].active = users[b].active
         \/ \E c \in Client : /\ UpdateUser(c) /\ b = op[c].target
                              /\ users'[b].life = users[b].life /\ users'[b].by = users[b].by
         \/ \E c \in Client : DeleteUser(c) /\ b = op[c].target /\ users'[b].life = "gone"
         \/ \E c \in Client : Opened(c, b)
         \/ \E c \in Client : /\ InviteUser(c) /\ users[b].life = "unborn"
                              /\ users'[b].life = "live" /\ users'[b].by = None
<1>s. users \in [Account -> User] /\ OpOK /\ RestOK
  BY DEF Shape, RestOK
<1> SUFFICES ASSUME users'[b] # users[b]
             PROVE  \/ /\ users'[b].life = users[b].life /\ users'[b].by = users[b].by
                       /\ users'[b].superuser = users[b].superuser /\ users'[b].active = users[b].active
                    \/ \E c \in Client : /\ UpdateUser(c) /\ b = op[c].target
                              /\ users'[b].life = users[b].life /\ users'[b].by = users[b].by
                    \/ \E c \in Client : DeleteUser(c) /\ b = op[c].target /\ users'[b].life = "gone"
                    \/ \E c \in Client : Opened(c, b)
                    \/ \E c \in Client : /\ InviteUser(c) /\ users[b].life = "unborn"
                                         /\ users'[b].life = "live" /\ users'[b].by = None
  OBVIOUS
<1>1. ASSUME NEW c \in Client, UpdateUser(c)
      PROVE  b = op[c].target /\ users'[b].life = users[b].life /\ users'[b].by = users[b].by
  <2>1. op[c].target \in Account
    BY <1>1 DEF UpdateUser, Live
  <2> QED
    BY <2>1, <1>1, <1>s, UserChanges
<1>2. ASSUME NEW c \in Client, DeleteUser(c) PROVE b = op[c].target /\ users'[b].life = "gone"
  BY <1>2, <1>s, GoneTyped DEF DeleteUser
<1>3. ASSUME NEW c \in Client, InviteUser(c)
      PROVE  users[b].life = "unborn" /\ users'[b].life = "live" /\ users'[b].by = None
  <2>1. PICK a \in Unborn, n \in {n \in Name : Free(n)} :
          users' = [users EXCEPT ![a] = [life |-> "live", superuser |-> op[c].superuser,
                                         active |-> TRUE, epoch |-> 0, name |-> n, by |-> None]]
    BY <1>3 DEF InviteUser
  <2>2. a = b /\ a \in Account /\ users[a].life = "unborn"
    BY <2>1, <1>s DEF Unborn
  <2> QED
    BY <2>1, <2>2, <1>s
<1>4. ASSUME NEW c \in Client, SignUp(c) PROVE Opened(c, b)
  <2>1. op[c].step = "write" /\ op[c] \in SignIns /\ op[c].found = None
    BY <1>4, <1>s, OpFields DEF SignUp, At, SignInSteps, OpOK
  <2>2. PICK a \in Unborn, n \in Allocated(op[c].identity) : insertNewUser(c, a, n) /\ SignsInTo(c, a)
    BY <1>4 DEF SignUp
  <2>3. a \in Account /\ n \in Name /\ users[a].life = "unborn"
    BY <2>1, <2>2, NamesWanted DEF Unborn, SignIns
  <2>4. a = b
    BY <2>1, <2>2, <2>3, <1>s, NewUsers
  <2> QED
    BY <2>1, <2>2, <2>3, <2>4, <1>s, NewUsers DEF Opened, SignsInTo
<1>5. ASSUME NEW a \in Account, LogoutAll(a)
      PROVE  /\ users'[b].life = users[b].life /\ users'[b].by = users[b].by
             /\ users'[b].superuser = users[b].superuser /\ users'[b].active = users[b].active
  <2> DEFINE u == [users[a] EXCEPT !.epoch = @ + 1]
  <2>1. users' = [users EXCEPT ![a] = u] /\ users[a] \in User
    BY <1>5, <1>s DEF LogoutAll
  <2>2. /\ u.life = users[a].life /\ u.by = users[a].by
        /\ u.superuser = users[a].superuser /\ u.active = users[a].active
    BY <2>1 DEF User
  <2> HIDE DEF u
  <2> QED
    BY <2>1, <2>2, <1>s
<1>6. ASSUME ~ \E c \in Client : UpdateUser(c) \/ DeleteUser(c) \/ InviteUser(c) \/ SignUp(c),
             ~ \E a \in Account : LogoutAll(a)
      PROVE  FALSE
  BY <1>6
     DEF Next, vars, Callback, FindByIdentity, FindByEmail, FindByName, LinkLogin, Ends,
         InsertUnverifiedEmail, ResendVerification, SendVerifyEmail,
         SendFails, UndoAdd, StartChange, StartInviteUser, StartAddEmail, StartResend, InviteFriend,
         DeleteUserEmail, CancelOutgoingInvite, VerifyEmailByToken, UpsertPendingFriendInvite
<1> QED
  BY <1>1, <1>2, <1>3, <1>4, <1>5, <1>6

LEMMA HowIdentitiesMove ==
  ASSUME Shape, [Next]_vars, NEW i \in Identity, identity'[i] # identity[i]
  PROVE  \/ \E c \in Client : /\ op[c].step = "write" /\ op'[c] = Idle /\ op[c].identity = i
                              /\ op[c].how # "identity" /\ identity[i] = None
                              /\ identity'[i] \in Live'
         \/ \E c \in Client : DeleteUser(c) /\ identity[i] = op[c].target /\ identity'[i] = None
<1>s. OpOK /\ RestOK
  BY DEF Shape
<1>1. ASSUME NEW c \in Client, op[c].step = "write", NEW a \in Account,
             users' \in [Account -> User], SignsInTo(c, a)
      PROVE  /\ op[c].step = "write" /\ op'[c] = Idle /\ op[c].identity = i
             /\ op[c].how # "identity" /\ identity[i] = None /\ identity'[i] = a
  <2>1. /\ op'[c] = Idle /\ op[c] \in SignIns
        /\ identity' = IF op[c].how = "identity" THEN identity ELSE linkIdentity(op[c].identity, a)
    BY <1>1, <1>s, SignsIn
  <2>2. op[c].identity \in Identity /\ op[c].how # "identity"
    BY <2>1 DEF SignIns
  <2> QED
    BY <2>1, <2>2, <1>1, <1>s, Links
<1>2. ASSUME NEW c \in Client, LinkLogin(c)
      PROVE  /\ op[c].step = "write" /\ op'[c] = Idle /\ op[c].identity = i
             /\ op[c].how # "identity" /\ identity[i] = None /\ identity'[i] \in Live'
  <2>1. op[c].step = "write" /\ op[c].found \in Live /\ users' = users /\ SignsInTo(c, op[c].found)
    BY <1>2 DEF LinkLogin, At
  <2>2. op[c].found \in Account /\ users' \in [Account -> User] /\ op[c].found \in Live'
    BY <2>1, <1>s DEF Live, RestOK
  <2> QED
    BY <2>1, <2>2, <1>1
<1>3. ASSUME NEW c \in Client, SignUp(c)
      PROVE  /\ op[c].step = "write" /\ op'[c] = Idle /\ op[c].identity = i
             /\ op[c].how # "identity" /\ identity[i] = None /\ identity'[i] \in Live'
  <2>1. op[c].step = "write" /\ op[c] \in SignIns
    BY <1>3, <1>s, OpFields DEF SignUp, At, SignInSteps, OpOK
  <2>2. PICK a \in Unborn, n \in Allocated(op[c].identity) : insertNewUser(c, a, n) /\ SignsInTo(c, a)
    BY <1>3 DEF SignUp
  <2>3. a \in Account /\ n \in Name
    BY <2>1, <2>2, NamesWanted DEF Unborn, SignIns
  <2>4. users' \in [Account -> User] /\ a \in Live'
    BY <2>1, <2>2, <2>3, <1>s, NewUsers DEF Live
  <2> QED
    BY <2>1, <2>2, <2>3, <2>4, <1>1
<1>4. ASSUME NEW c \in Client, DeleteUser(c) PROVE identity[i] = op[c].target /\ identity'[i] = None
  BY <1>4 DEF DeleteUser
<1>5. ASSUME ~ \E c \in Client : LinkLogin(c) \/ DeleteUser(c) \/ SignUp(c)
      PROVE  FALSE
  BY <1>5
     DEF Next, vars, Callback, FindByIdentity, FindByEmail, FindByName, Ends, UpdateUser, InviteUser,
         InsertUnverifiedEmail, ResendVerification, SendVerifyEmail, LogoutAll,
         SendFails, UndoAdd, StartChange, StartInviteUser, StartAddEmail, StartResend, InviteFriend,
         DeleteUserEmail, CancelOutgoingInvite, VerifyEmailByToken, UpsertPendingFriendInvite
<1> QED
  BY <1>2, <1>3, <1>4, <1>5

\* A sign-in goes on as it was, looks somebody up, or has just begun.
LEMMA HowSignInsMove ==
  ASSUME Shape, [Next]_vars, NEW c \in Client, SigningIn(c)'
  PROVE  /\ op'[c] \in SignIns
         /\ \/ SigningIn(c) /\ op'[c] = op[c]
            \/ SigningIn(c) /\ Finds(c)
            \/ \E i \in Identity :
                 /\ Callback(c, i)
                 /\ op'[c] = [step |-> "identity", identity |-> i, first |-> Live = {},
                              how |-> "none", found |-> None, active |-> FALSE]
<1>s. OpOK /\ RestOK /\ OpOK' /\ tokens' \in 0..MaxToken
  BY ShapeStays DEF Shape, RestOK
<1>1. op'[c] \in SignIns /\ op'[c].step \in SignInSteps
  <2>1. op'[c].step \in SignInSteps /\ op'[c] \in Ops
    BY <1>s DEF SigningIn, SignInSteps, OpOK
  <2> QED
    BY <2>1, OpFields
<1>2. op'[c] # Idle /\ ~Undoes(c)
  BY <1>1 DEF Idle, Undoes, SignInSteps
<1>3. ~Posts(c)
  <2>1. ASSUME InsertUnverifiedEmail(c) PROVE op'[c].step = "send"
    <3>1. /\ Sending(c, tokens', TRUE) /\ NewToken /\ op[c].step = "insert"
          /\ tokens' \in 0..MaxToken
      BY <2>1, <1>s DEF InsertUnverifiedEmail, At
    <3> QED
      BY <3>1, <1>s, Sends
  <2>2. ASSUME ResendVerification(c) PROVE op'[c].step = "send"
    <3>1. /\ Sending(c, op[c].id, FALSE) /\ NewToken /\ op[c].step = "renew"
          /\ op[c].id \in 0..MaxToken
      BY <2>2, <1>s, OpFields DEF ResendVerification, At, OpOK
    <3> QED
      BY <3>1, <1>s, Sends
  <2> QED
    BY <2>1, <2>2, <1>1 DEF Posts, SignInSteps
<1>4. CASE op'[c] = op[c]
  BY <1>1, <1>4 DEF SigningIn, SignInSteps
<1>5. CASE Finds(c)
  BY <1>1, <1>5 DEF Finds, SigningIn
<1>6. CASE Begins(c)
  <2>1. ASSUME NEW i \in Identity, Callback(c, i)
        PROVE  op'[c] = [step |-> "identity", identity |-> i, first |-> Live = {},
                         how |-> "none", found |-> None, active |-> FALSE]
    <3>1. [step |-> "identity", identity |-> i, first |-> Live = {},
           how |-> "none", found |-> None, active |-> FALSE] \in Ops
      BY DEF Ops, SignIns
    <3> QED
      BY <2>1, <3>1, <1>s, OpBegins DEF Callback
  <2>2. ASSUME NEW a \in Account, NEW t \in Account, NEW ch \in Changes, StartChange(c, a, ch, t)
        PROVE  op'[c].step = "change"
    <3>1. [step |-> "change", account |-> a, change |-> ch, target |-> t] \in Ops
      BY DEF Ops, Errands
    <3> QED
      BY <2>2, <3>1, <1>s, OpBegins DEF StartChange
  <2> QED
    BY <2>1, <2>2, <1>1, <1>6 DEF Begins, SignInSteps
<1> QED
  BY <1>1, <1>2, <1>3, <1>4, <1>5, <1>6, HowOpsMove

\* History only grows, and so do the cookies handed out.
LEMMA HistoryGrows ==
  ASSUME [Next]_vars
  PROVE  twins \subseteq twins' /\ (crossed => crossed') /\ sessions \subseteq sessions'
<1> USE DEF Next, vars, Callback, FindByIdentity, FindByEmail, FindByName, LinkLogin, SignUp, SignsInTo, Ends,
         UpdateUser, DeleteUser, InviteUser, InsertUnverifiedEmail, ResendVerification, SendVerifyEmail,
         SendFails, UndoAdd, StartChange, StartInviteUser, StartAddEmail, StartResend, InviteFriend,
         LogoutAll, DeleteUserEmail, CancelOutgoingInvite, VerifyEmailByToken, UpsertPendingFriendInvite
<1>1. twins \subseteq twins'
  OBVIOUS
<1>2. sessions \subseteq sessions'
  BY DEF SetSessionCookie
<1>3. crossed => crossed'
  BY DEF WasAdministrator
<1> QED
  BY <1>1, <1>2, <1>3

IdentitiesLive == \A i \in Identity : identity[i] # None => identity[i] \in Live

\* Two sign-ins of one identity are twins; what a sign-in has found agrees with
\* the identity it signs in with.
SignInsApart ==
  /\ \A c, d \in Client :
       SigningIn(c) /\ SigningIn(d) /\ c # d /\ op[c].identity = op[d].identity
         => op[c].identity \in twins
  /\ \A c \in Client : SigningIn(c) =>
       /\ op[c].step # "write" => op[c].how = "none" /\ op[c].found = None
       /\ op[c].found = None => op[c].how = "none"
       /\ op[c].step # "identity" /\ op[c].how # "identity" =>
            identity[op[c].identity] = None \/ op[c].identity \in twins
       /\ op[c].how = "identity" =>
            /\ op[c].found \in Account /\ users[op[c].found].life # "unborn"
            /\ op[c].found \in Live => identity[op[c].identity] = op[c].found

LEMMA LiveStays ==
  ASSUME Shape, [Next]_vars, NEW a \in Account, users[a].life # "unborn"
  PROVE  /\ users'[a].life # "unborn"
         /\ a \in Live' => /\ a \in Live /\ users'[a].by = users[a].by
                          /\ ~ \E c \in Client : DeleteUser(c) /\ a = op[c].target
<1>1. users[a].life # "unborn" => ~ \E c \in Client : Opened(c, a)
  BY DEF Opened
<1>2. ASSUME NEW c \in Client, DeleteUser(c), a = op[c].target PROVE a \notin Live'
  BY <1>2, GoneTyped DEF DeleteUser, Live, Shape, RestOK
<1> QED
  BY <1>1, <1>2, HowUsersMove DEF Live

\* An identity of a live account stays its own.
LEMMA IdentityStays ==
  ASSUME Shape, [Next]_vars, NEW i \in Identity, NEW a \in Live, a \in Live', identity[i] = a
  PROVE  identity'[i] = a
<1>1. a # None /\ a \in Account /\ users[a].life # "unborn"
  BY AccountsAssumption DEF Live
<1> QED
  BY <1>1, LiveStays, HowIdentitiesMove

LEMMA IdentitiesLiveStays == Shape /\ IdentitiesLive /\ [Next]_vars => IdentitiesLive'
<1> SUFFICES ASSUME Shape, IdentitiesLive, [Next]_vars, NEW i \in Identity, identity'[i] # None
             PROVE  identity'[i] \in Live'
  BY DEF IdentitiesLive
<1>1. CASE identity'[i] # identity[i]
  BY <1>1, HowIdentitiesMove
<1>2. CASE identity'[i] = identity[i]
  <2> DEFINE a == identity[i]
  <2>1. a \in Live /\ a \in Account /\ users[a].life = "live"
    BY <1>2 DEF IdentitiesLive, Live
  <2>2. ~ \E c \in Client : DeleteUser(c) /\ a = op[c].target
    BY <1>2 DEF DeleteUser
  <2>3. users'[a].life = "live"
    BY <2>1, <2>2, HowUsersMove DEF Opened
  <2> QED
    BY <1>2, <2>1, <2>3 DEF Live
<1> QED
  BY <1>1, <1>2

\* An identity is linked under a sign-in's feet only by its twin.
LEMMA StillUnlinked ==
  ASSUME Shape, SignInsApart, [Next]_vars, NEW c \in Client, SigningIn(c), SigningIn(c)',
         op'[c].identity = op[c].identity, identity[op[c].identity] = None
  PROVE  identity'[op[c].identity] = None \/ op[c].identity \in twins'
<1> DEFINE i == op[c].identity
<1>1. i \in Identity
  BY OpFields DEF SigningIn, Shape, OpOK, SignInSteps, SignIns
<1>2. ASSUME NEW d \in Client, op[d].step = "write", op'[d] = Idle, op[d].identity = i
      PROVE  i \in twins
  <2>1. d # c /\ SigningIn(d)
    BY <1>2 DEF SigningIn, Idle
  <2> QED
    BY <2>1, <1>2 DEF SignInsApart
<1>3. CASE identity'[i] # identity[i]
  BY <1>1, <1>2, <1>3, HowIdentitiesMove, HistoryGrows
<1> QED
  BY <1>3

LEMMA TwinsStay == Shape /\ SignInsApart /\ [Next]_vars =>
  \A c, d \in Client :
    SigningIn(c)' /\ SigningIn(d)' /\ c # d /\ op'[c].identity = op'[d].identity
      => op'[c].identity \in twins'
<1> SUFFICES ASSUME Shape, SignInsApart, [Next]_vars, NEW c \in Client, NEW d \in Client,
                    SigningIn(c)', SigningIn(d)', c # d, op'[c].identity = op'[d].identity
             PROVE  op'[c].identity \in twins'
  OBVIOUS
<1>h. twins \subseteq twins'
  BY HistoryGrows
<1>1. ASSUME NEW e \in Client, NEW f \in Client, e # f, NEW i \in Identity, Callback(e, i),
             SigningIn(f)', op'[f].identity = i
      PROVE  i \in twins'
  <2>1. op'[f] = op[f]
    BY <1>1 DEF Callback, Begin, Shape, OpOK
  <2>2. SigningIn(f) /\ op[f].identity = i
    BY <2>1, <1>1 DEF SigningIn
  <2> QED
    BY <2>2, <1>1 DEF Callback
<1>2. CASE SigningIn(c) /\ SigningIn(d) /\ op'[c].identity = op[c].identity /\ op'[d].identity = op[d].identity
  BY <1>2, <1>h DEF SignInsApart
<1>3. ASSUME NEW e \in Client, SigningIn(e)'
      PROVE  \/ SigningIn(e) /\ op'[e].identity = op[e].identity
             \/ \E i \in Identity : Callback(e, i) /\ op'[e].identity = i
  <2>1. CASE SigningIn(e) /\ op'[e] = op[e]
    BY <2>1
  <2>2. CASE SigningIn(e) /\ Finds(e)
    BY <2>2, FindsMove
  <2>3. ASSUME NEW i \in Identity, Callback(e, i),
               op'[e] = [step |-> "identity", identity |-> i, first |-> Live = {},
                         how |-> "none", found |-> None, active |-> FALSE]
        PROVE  op'[e].identity = i
    BY <2>3
  <2> QED
    BY <2>1, <2>2, <2>3, <1>3, HowSignInsMove
<1> QED
  BY <1>1, <1>2, <1>3

LEMMA SignInsStayApart == Shape /\ SignInsApart /\ IdentitiesLive /\ [Next]_vars => SignInsApart'
<1> SUFFICES ASSUME Shape, SignInsApart, IdentitiesLive, [Next]_vars, NEW c \in Client, SigningIn(c)'
             PROVE  /\ op'[c].step # "write" => op'[c].how = "none" /\ op'[c].found = None
                    /\ op'[c].found = None => op'[c].how = "none"
                    /\ op'[c].step # "identity" /\ op'[c].how # "identity" =>
                         identity'[op'[c].identity] = None \/ op'[c].identity \in twins'
                    /\ op'[c].how = "identity" =>
                         /\ op'[c].found \in Account /\ users'[op'[c].found].life # "unborn"
                         /\ op'[c].found \in Live' => identity'[op'[c].identity] = op'[c].found
  BY TwinsStay DEF SignInsApart, SigningIn
<1>n. None \notin Account
  BY AccountsAssumption
<1>h. twins \subseteq twins'
  BY HistoryGrows
<1>1. CASE SigningIn(c) /\ op'[c] = op[c]
  <2>1. op[c].identity \in Identity
    BY <1>1, OpFields DEF SigningIn, Shape, OpOK, SignInSteps, SignIns
  <2>2. op[c].step # "identity" /\ op[c].how # "identity" =>
          identity'[op[c].identity] = None \/ op[c].identity \in twins'
    BY <1>1, <1>h, StillUnlinked DEF SignInsApart
  <2>3. ASSUME op[c].how = "identity"
        PROVE  /\ op[c].found \in Account /\ users'[op[c].found].life # "unborn"
               /\ op[c].found \in Live' => identity'[op[c].identity] = op[c].found
    <3>1. /\ op[c].found \in Account /\ users[op[c].found].life # "unborn"
          /\ op[c].found \in Live => identity[op[c].identity] = op[c].found
      BY <1>1, <2>3 DEF SignInsApart
    <3> QED
      BY <3>1, <2>1, LiveStays, IdentityStays
  <2> QED
    BY <1>1, <2>2, <2>3 DEF SignInsApart
<1>2. CASE SigningIn(c) /\ Finds(c)
  <2> DEFINE i == op[c].identity
  <2>1. /\ op[c].step # "write" /\ op[c].how = "none" /\ op[c].found = None
        /\ op'[c].step # "identity" /\ op'[c].identity = i /\ identity' = identity /\ users' = users
    BY <1>2, FindsMove DEF Finds, SignInsApart
  <2>2. i \in Identity
    BY <1>2, OpFields DEF SigningIn, Shape, OpOK, SignInSteps, SignIns
  <2>3. CASE /\ op[c].step = "identity" /\ identity[i] # None /\ op'[c].step = "write"
             /\ op'[c].how = "identity" /\ op'[c].found = identity[i]
    <3>1. identity[i] \in Live
      BY <2>2, <2>3 DEF IdentitiesLive
    <3> QED
      BY <2>1, <2>3, <3>1, <1>n DEF Live
  <2>4. CASE /\ op[c].step = "identity" => identity[i] = None
             /\ op'[c].how = op[c].how /\ op'[c].found = op[c].found
    <3>1. op[c].step # "identity" => identity[i] = None \/ i \in twins
      BY <2>1, <1>2 DEF SignInsApart
    <3> QED
      BY <2>1, <2>4, <3>1, <1>h
  <2>5. CASE /\ op[c].step \in {"email", "name"} /\ op'[c].step = "write"
             /\ op'[c].how \in {"email", "name"} /\ op'[c].found \in Account
    <3>1. identity[i] = None \/ i \in twins
      BY <2>1, <2>5, <1>2 DEF SignInsApart
    <3> QED
      BY <2>1, <2>5, <3>1, <1>h, <1>n
  <2> QED
    BY <2>3, <2>4, <2>5, <1>2, FindsMove
<1>3. CASE \E i \in Identity :
             /\ Callback(c, i)
             /\ op'[c] = [step |-> "identity", identity |-> i, first |-> Live = {},
                          how |-> "none", found |-> None, active |-> FALSE]
  BY <1>3
<1> QED
  BY <1>1, <1>2, <1>3, HowSignInsMove

\* An account just opened is linked to the identity that opened it.
LEMMA OpenedLinked ==
  ASSUME Shape, SignInsApart, [Next]_vars, NEW c \in Client, NEW b \in Account, Opened(c, b)
  PROVE  op[c].identity \in Identity /\ (identity'[op[c].identity] = b \/ op[c].identity \in twins)
<1>1. op[c].identity \in Identity /\ SigningIn(c)
  BY DEF Opened, SignIns, SigningIn
<1>2. op[c].how = "none"
  BY <1>1 DEF Opened, SignInsApart
<1>3. identity[op[c].identity] = None \/ op[c].identity \in twins
  BY <1>1, <1>2 DEF Opened, SignInsApart
<1> QED
  BY <1>1, <1>2, <1>3, Links DEF Opened, Shape

Apart == Shape /\ SignInsApart /\ IdentitiesLive

LEMMA ApartHolds == Spec => []Apart
<1>1. Init => SignInsApart /\ IdentitiesLive
  BY DEF Init, SignInsApart, IdentitiesLive, SigningIn, Idle
<1>2. Apart /\ [Next]_vars => SignInsApart' /\ IdentitiesLive'
  BY SignInsStayApart, IdentitiesLiveStays DEF Apart
<1> QED
  BY <1>1, <1>2, ShapeHolds, PTL DEF Spec, Apart

LEMMA NoneStrandedStays == Apart /\ NoStrandedAccount /\ [Next]_vars => NoStrandedAccount'
<1> SUFFICES ASSUME Shape, SignInsApart, IdentitiesLive, NoStrandedAccount, [Next]_vars,
                    NEW a \in Account, a \in Live', IdentitiesOf(a)' = {}
             PROVE  users'[a].by \in twins' \cup {None}
  BY DEF NoStrandedAccount, Apart, Live
<1>h. twins \subseteq twins'
  BY HistoryGrows
<1>1. CASE a \in Live
  <2>1. users'[a].by = users[a].by
    BY <1>1, LiveStays DEF Live
  <2>2. ASSUME NEW i \in Identity, identity[i] = a PROVE FALSE
    BY <2>2, <1>1, IdentityStays DEF IdentitiesOf
  <2>3. IdentitiesOf(a) = {}
    BY <2>2 DEF IdentitiesOf
  <2> QED
    BY <2>1, <2>3, <1>1, <1>h DEF NoStrandedAccount
<1>2. CASE a \notin Live
  <2>1. users'[a].life = "live" /\ users[a].life # "live"
    BY <1>2 DEF Live
  <2>2. ASSUME NEW c \in Client, Opened(c, a) PROVE users'[a].by \in twins'
    <3>1. identity'[op[c].identity] # a
      BY <2>2, OpenedLinked DEF IdentitiesOf
    <3> QED
      BY <3>1, <2>2, <1>h, OpenedLinked DEF Opened
  <2> QED
    BY <2>1, <2>2, HowUsersMove
<1> QED
  BY <1>1, <1>2

\* An account a sign-in opened can be signed in to again.
THEOREM NoAccountStranded == Spec => []NoStrandedAccount
<1>1. Init => NoStrandedAccount
  BY DEF Init, NoStrandedAccount, Live, NoUser
<1> QED
  BY <1>1, NoneStrandedStays, ApartHolds, PTL DEF Spec

\* A sign-in that began before there was an account opens the first superuser.
FirstInv == \A c \in Client : SigningIn(c) /\ Live = {} => op[c].first \/ crossed

\* A cookie is of an account that was there, and that an identity signs in to.
SessionsLinked ==
  \A s \in sessions :
    /\ users[s.user].life # "unborn"
    /\ s.user \in Live => IdentitiesOf(s.user) # {} \/ twins # {}

\* Who changes an account holds a cookie, and does not bring himself down.
ChangesApart ==
  \A c \in Client : op[c].step = "change" =>
    /\ \E s \in sessions : s.user = op[c].account
    /\ op[c].change \in {"demote", "deactivate", "delete"} => op[c].target # op[c].account

LEMMA LinkedStays ==
  ASSUME Shape, [Next]_vars, NEW a \in Live, a \in Live', IdentitiesOf(a) # {}
  PROVE  IdentitiesOf(a)' # {}
<1>1. PICK i \in Identity : identity[i] = a
  BY DEF IdentitiesOf
<1>2. identity'[i] = a
  BY <1>1, IdentityStays
<1> QED
  BY <1>2 DEF IdentitiesOf

\* A cookie is new only at the end of a sign-in, which has linked the account.
LEMMA HowSessionsCome ==
  ASSUME Shape, SignInsApart, [Next]_vars, NEW s \in sessions', s \notin sessions
  PROVE  /\ s.user \in Account /\ s.user \in Live'
         /\ IdentitiesOf(s.user)' # {} \/ twins # {}
<1>s. OpOK /\ RestOK
  BY DEF Shape
<1>1. ASSUME NEW c \in Client, op[c].step = "write", NEW a \in Account, a \in Live',
             users' \in [Account -> User], SignsInTo(c, a),
             op[c].how = "identity" => identity[op[c].identity] = a
      PROVE  s.user \in Account /\ s.user \in Live' /\ (IdentitiesOf(s.user)' # {} \/ twins # {})
  <2>1. /\ op[c] \in SignIns
        /\ identity' = IF op[c].how = "identity" THEN identity ELSE linkIdentity(op[c].identity, a)
    BY <1>1, <1>s, SignsIn
  <2>2. op[c].identity \in Identity /\ SigningIn(c)
    BY <2>1, <1>1 DEF SignIns, SigningIn
  <2>3. s = [user |-> a, epoch |-> users'[a].epoch]
    BY <1>1 DEF SignsInTo, SetSessionCookie
  <2>4. op[c].how # "identity" => identity[op[c].identity] = None \/ op[c].identity \in twins
    BY <2>2, <1>1 DEF SignInsApart
  <2>5. identity'[op[c].identity] = a \/ twins # {}
    BY <2>1, <2>2, <2>4, <1>1, <1>s, Links
  <2> QED
    BY <2>2, <2>3, <2>5, <1>1 DEF IdentitiesOf
<1>2. ASSUME NEW c \in Client, LinkLogin(c)
      PROVE  s.user \in Account /\ s.user \in Live' /\ (IdentitiesOf(s.user)' # {} \/ twins # {})
  <2>1. op[c].step = "write" /\ op[c].found \in Live /\ users' = users /\ SignsInTo(c, op[c].found)
    BY <1>2 DEF LinkLogin, At
  <2>2. op[c].found \in Account /\ users' \in [Account -> User] /\ op[c].found \in Live'
    BY <2>1, <1>s DEF Live, RestOK
  <2>3. op[c].how = "identity" => identity[op[c].identity] = op[c].found
    BY <2>1 DEF SignInsApart, SigningIn
  <2> QED
    BY <2>1, <2>2, <2>3, <1>1
<1>3. ASSUME NEW c \in Client, SignUp(c)
      PROVE  s.user \in Account /\ s.user \in Live' /\ (IdentitiesOf(s.user)' # {} \/ twins # {})
  <2>1. op[c].step = "write" /\ op[c] \in SignIns /\ op[c].found = None
    BY <1>3, <1>s, OpFields DEF SignUp, At, SignInSteps, OpOK
  <2>2. PICK a \in Unborn, n \in Allocated(op[c].identity) : insertNewUser(c, a, n) /\ SignsInTo(c, a)
    BY <1>3 DEF SignUp
  <2>3. a \in Account /\ n \in Name
    BY <2>1, <2>2, NamesWanted DEF Unborn, SignIns
  <2>4. users' \in [Account -> User] /\ a \in Live'
    BY <2>1, <2>2, <2>3, <1>s, NewUsers DEF Live
  <2>5. op[c].how # "identity"
    BY <2>1 DEF SignInsApart, SigningIn
  <2> QED
    BY <2>1, <2>2, <2>3, <2>4, <2>5, <1>1
<1>4. ASSUME ~ \E c \in Client : LinkLogin(c) \/ SignUp(c)
      PROVE  sessions' = sessions
  BY <1>4
     DEF Next, vars, Callback, FindByIdentity, FindByEmail, FindByName, Ends, UpdateUser, InviteUser,
         InsertUnverifiedEmail, ResendVerification, SendVerifyEmail, LogoutAll, DeleteUser,
         SendFails, UndoAdd, StartChange, StartInviteUser, StartAddEmail, StartResend, InviteFriend,
         DeleteUserEmail, CancelOutgoingInvite, VerifyEmailByToken, UpsertPendingFriendInvite
<1> QED
  BY <1>2, <1>3, <1>4

LEMMA SessionsStayLinked == Shape /\ SignInsApart /\ SessionsLinked /\ [Next]_vars => SessionsLinked'
<1> SUFFICES ASSUME Shape, SignInsApart, SessionsLinked, [Next]_vars, NEW s \in sessions'
             PROVE  /\ users'[s.user].life # "unborn"
                    /\ s.user \in Live' => IdentitiesOf(s.user)' # {} \/ twins' # {}
  BY DEF SessionsLinked, IdentitiesOf, Live
<1>h. twins \subseteq twins'
  BY HistoryGrows
<1>1. CASE s \in sessions
  <2>1. s.user \in Account /\ users[s.user].life # "unborn"
    BY <1>1 DEF SessionsLinked, Shape, RestOK, Session
  <2>2. s.user \in Live => IdentitiesOf(s.user) # {} \/ twins # {}
    BY <1>1 DEF SessionsLinked
  <2> QED
    BY <2>1, <2>2, <1>h, LiveStays, LinkedStays
<1>2. CASE s \notin sessions
  BY <1>2, <1>h, HowSessionsCome DEF Live
<1> QED
  BY <1>1, <1>2

LEMMA ChangesStayApart == Shape /\ ChangesApart /\ [Next]_vars => ChangesApart'
<1> SUFFICES ASSUME Shape, ChangesApart, [Next]_vars, NEW c \in Client, op'[c].step = "change"
             PROVE  /\ \E s \in sessions' : s.user = op'[c].account
                    /\ op'[c].change \in {"demote", "deactivate", "delete"} =>
                         op'[c].target # op'[c].account
  BY DEF ChangesApart
<1>h. sessions \subseteq sessions'
  BY HistoryGrows
<1>s. OpOK /\ RestOK
  BY DEF Shape
<1>1. CASE op'[c] = op[c]
  BY <1>1, <1>h DEF ChangesApart
<1>2. ASSUME NEW a \in Account, NEW t \in Account, NEW ch \in Changes, StartChange(c, a, ch, t)
      PROVE  /\ op'[c].account = a /\ op'[c].change = ch /\ op'[c].target = t
             /\ ch \in {"demote", "deactivate", "delete"} => t # a
             /\ \E s \in sessions' : s.user = a
  <2>1. [step |-> "change", account |-> a, change |-> ch, target |-> t] \in Ops
    BY DEF Ops, Errands
  <2>2. op'[c] = [step |-> "change", account |-> a, change |-> ch, target |-> t]
    BY <1>2, <2>1, <1>s, OpBegins DEF StartChange
  <2>3. [user |-> a, epoch |-> users[a].epoch] \in sessions
    BY <1>2 DEF StartChange, userFromRequest
  <2> QED
    BY <2>2, <2>3, <1>2, <1>h DEF StartChange
<1>3. ASSUME NEW i \in Identity, Callback(c, i) PROVE FALSE
  <2>1. SigningIn(c)'
    <3>1. [step |-> "identity", identity |-> i, first |-> Live = {},
           how |-> "none", found |-> None, active |-> FALSE] \in Ops
      BY DEF Ops, SignIns
    <3> QED
      BY <1>3, <3>1, <1>s, OpBegins DEF Callback, SigningIn
  <2> QED
    BY <2>1 DEF SigningIn
<1>4. ~Finds(c)
  BY FindsMove
<1>5. ~Posts(c)
  <2>1. ASSUME Posts(c) PROVE op'[c].step = "send"
    <3>1. CASE InsertUnverifiedEmail(c)
      <4>1. Sending(c, tokens', TRUE) /\ NewToken /\ op[c].step = "insert" /\ tokens' \in 0..MaxToken
        BY <3>1, ShapeStays DEF InsertUnverifiedEmail, At, Shape, RestOK
      <4> QED
        BY <4>1, <1>s, Sends
    <3>2. CASE ResendVerification(c)
      <4>1. Sending(c, op[c].id, FALSE) /\ NewToken /\ op[c].step = "renew" /\ op[c].id \in 0..MaxToken
        BY <3>2, <1>s, OpFields DEF ResendVerification, At, OpOK
      <4> QED
        BY <4>1, <1>s, Sends
    <3> QED
      BY <2>1, <3>1, <3>2 DEF Posts
  <2> QED
    BY <2>1
<1>6. op'[c] # Idle /\ ~Undoes(c)
  BY DEF Idle, Undoes
<1> QED
  BY <1>1, <1>2, <1>3, <1>4, <1>5, <1>6, HowOpsMove DEF Begins

\* Who changes an account as an administrator still is one afterwards.
LEMMA ActorRemains ==
  ASSUME Shape, ChangesApart, [Next]_vars, NEW c \in Client, UpdateUser(c) \/ DeleteUser(c), ~crossed',
         NEW a, a = op[c].account
  PROVE  a \in Live /\ a \in Live' /\ Administers(a)'
<1> DEFINE t == op[c].target
<1>1. op[c].step = "change" /\ t \in Live /\ Administers(a) /\ op[c].change \in Changes
  BY OpFields DEF UpdateUser, DeleteUser, At, WasAdministrator, Shape, OpOK
<1>2. /\ a \in Live /\ a \in Account /\ t \in Account /\ users[a] \in User
      /\ users[a].life = "live" /\ users[a].active /\ users[a].superuser
  BY <1>1 DEF Administers, Live, Shape, RestOK
<1>3. op[c].change \in {"demote", "deactivate", "delete"} => t # a
  BY <1>1 DEF ChangesApart
<1>4. users'[a].life = "live" /\ users'[a].active /\ users'[a].superuser
  <2>1. CASE UpdateUser(c)
    <3> DEFINE u == Changed(users[t], op[c].change)
    <3>1. users' = [users EXCEPT ![t] = u]
      BY <2>1 DEF UpdateUser
    <3>2. t # a => users'[a] = users[a]
      BY <3>1, <1>2 DEF Shape, RestOK
    <3>3. t = a => u.life = "live" /\ u.active /\ u.superuser
      <4>1. t = a => op[c].change \in {"promote", "activate"}
        BY <1>1, <1>3 DEF Changes
      <4> QED
        BY <4>1, <1>2 DEF Changed, User
    <3> HIDE DEF u
    <3>4. t = a => users'[a] = u
      BY <3>1, <1>2 DEF Shape, RestOK
    <3> QED
      BY <3>2, <3>3, <3>4, <1>2
  <2>2. CASE DeleteUser(c)
    <3>1. t # a
      BY <2>2, <1>3 DEF DeleteUser
    <3> QED
      BY <3>1, <2>2, <1>2 DEF DeleteUser, Shape, RestOK
  <2> QED
    BY <2>1, <2>2
<1> QED
  BY <1>2, <1>4 DEF Live, Administers

LEMMA FirstStays == Shape /\ ChangesApart /\ FirstInv /\ [Next]_vars => FirstInv'
<1> SUFFICES ASSUME Shape, ChangesApart, FirstInv, [Next]_vars, NEW c \in Client,
                    SigningIn(c)', Live' = {}, ~crossed'
             PROVE  op'[c].first
  BY DEF FirstInv, SigningIn, Live
<1>h. ~crossed
  BY HistoryGrows
<1>1. Live = {}
  <2> SUFFICES ASSUME NEW b \in Live PROVE FALSE
    OBVIOUS
  <2>1. b \in Account /\ users[b].life = "live" /\ users'[b].life # "live"
    BY DEF Live
  <2>2. PICK d \in Client : DeleteUser(d)
    BY <2>1, HowUsersMove DEF Opened
  <2> QED
    BY <2>2, ActorRemains
<1>2. CASE SigningIn(c) /\ op'[c] = op[c]
  BY <1>1, <1>2, <1>h DEF FirstInv
<1>3. CASE SigningIn(c) /\ Finds(c)
  <2>1. op[c].first
    BY <1>1, <1>3, <1>h DEF FirstInv
  <2>2. op'[c].first = op[c].first
    BY <1>3, FindsMove
  <2> QED
    BY <2>1, <2>2
<1>4. ASSUME NEW i \in Identity,
             op'[c] = [step |-> "identity", identity |-> i, first |-> Live = {},
                       how |-> "none", found |-> None, active |-> FALSE]
      PROVE  op'[c].first
  <2>1. op'[c].first = (Live = {})
    BY <1>4
  <2> QED
    BY <2>1, <1>1
<1> QED
  BY <1>2, <1>3, <1>4, HowSignInsMove

AdminInv == Apart /\ FirstInv /\ SessionsLinked /\ ChangesApart

LEMMA AdminInvHolds == Spec => []AdminInv
<1>1. Init => FirstInv /\ SessionsLinked /\ ChangesApart
  BY DEF Init, FirstInv, SessionsLinked, ChangesApart, SigningIn, Idle
<1>2. AdminInv /\ [Next]_vars => FirstInv' /\ SessionsLinked' /\ ChangesApart'
  BY FirstStays, SessionsStayLinked, ChangesStayApart DEF AdminInv, Apart
<1> QED
  BY <1>1, <1>2, ApartHolds, PTL DEF Spec, AdminInv

LEMMA AdminsStay == AdminInv /\ AdminsRemain /\ [Next]_vars => AdminsRemain'
<1> SUFFICES ASSUME Shape, SignInsApart, FirstInv, SessionsLinked, ChangesApart, AdminsRemain, [Next]_vars,
                    ~crossed', twins' = {}, NEW b \in Live'
             PROVE  \E a \in Live' : Administers(a)' /\ IdentitiesOf(a)' # {}
  BY DEF AdminInv, Apart, AdminsRemain, Live, Administers, IdentitiesOf
<1>h. ~crossed /\ twins = {}
  BY HistoryGrows
<1>1. ASSUME NEW c \in Client, UpdateUser(c) \/ DeleteUser(c)
      PROVE  \E a \in Live' : Administers(a)' /\ IdentitiesOf(a)' # {}
  <2>a. PICK a : a = op[c].account
    OBVIOUS
  <2>1. a \in Live /\ a \in Live' /\ Administers(a)'
    BY <1>1, <2>a, ActorRemains
  <2>2. PICK s \in sessions : s.user = a
    BY <1>1, <2>a DEF ChangesApart, UpdateUser, DeleteUser, At
  <2>3. IdentitiesOf(a) # {}
    BY <2>1, <2>2, <1>h DEF SessionsLinked
  <2> QED
    BY <2>1, <2>3, LinkedStays
<1>2. ASSUME ~ \E c \in Client : UpdateUser(c) \/ DeleteUser(c), NEW a \in Live,
             Administers(a), IdentitiesOf(a) # {}
      PROVE  \E d \in Live' : Administers(d)' /\ IdentitiesOf(d)' # {}
  <2>1. a \in Account /\ users[a].life = "live" /\ users[a].active /\ users[a].superuser
    BY <1>2 DEF Live, Administers
  <2>2. users'[a].life = users[a].life /\ users'[a].active = users[a].active
        /\ users'[a].superuser = users[a].superuser
    BY <2>1, <1>2, HowUsersMove DEF Opened
  <2>3. a \in Live' /\ Administers(a)'
    BY <2>1, <2>2 DEF Live, Administers
  <2> QED
    BY <2>3, <1>2, LinkedStays
<1>3. ASSUME Live = {}
      PROVE  Administers(b)' /\ IdentitiesOf(b)' # {}
  <2>1. b \in Account /\ users'[b].life = "live" /\ users[b].life # "live"
    BY <1>3 DEF Live
  <2>2. ASSUME NEW c \in Client, InviteUser(c) PROVE FALSE
    <3>1. ~Administers(op[c].account)
      BY <1>3 DEF Administers
    <3> QED
      BY <3>1, <2>2 DEF InviteUser, WasAdministrator
  <2>3. ASSUME NEW c \in Client, Opened(c, b) PROVE Administers(b)' /\ IdentitiesOf(b)' # {}
    <3>1. op[c].first
      BY <2>3, <1>3, <1>h DEF FirstInv, Opened, SigningIn
    <3>2. op[c].identity \in Identity /\ identity'[op[c].identity] = b
      BY <2>3, <2>1, <1>h, OpenedLinked
    <3> QED
      BY <3>1, <3>2, <2>1, <2>3 DEF Opened, Administers, Live, IdentitiesOf
  <2> QED
    BY <2>1, <2>2, <2>3, HowUsersMove
<1>4. Live = {} \/ \E a \in Live : Administers(a) /\ IdentitiesOf(a) # {}
  BY <1>h DEF AdminsRemain
<1> QED
  BY <1>1, <1>2, <1>3, <1>4

\* Once there are accounts one of them is an active superuser somebody can sign
\* in to, but for an authority that was lost meanwhile and a double sign-in.
THEOREM AdminsAlwaysRemain == Spec => []AdminsRemain
<1>1. Init => AdminsRemain
  BY DEF Init, AdminsRemain, Live, NoUser
<1> QED
  BY <1>1, AdminsStay, AdminInvHolds, PTL DEF Spec
=============================================================================
