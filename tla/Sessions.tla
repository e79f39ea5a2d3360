------------------------------ MODULE Sessions -------------------------------
(***************************************************************************)
(* Users and their refresh sessions (AuthService, UsersService).           *)
(*                                                                         *)
(* A request is a chain of repository calls, each a statement of its own:  *)
(* nothing holds a row from the call that reads it to the call that        *)
(* writes it.  Requests overlap, and may fail after any call.  The request *)
(* that inserted a user or a session gives that row its name.              *)
(***************************************************************************)
EXTENDS Naturals, FiniteSets

CONSTANTS
    Requests,   \* requests that may be made, each once
    Ask,        \* what each request asks for
    Emails,
    Passwords,
    Parallel,   \* bound on the requests in flight
    Made,       \* bound on the requests made
    None        \* no row

Opening == {"register", "login", "refresh"}
Ending == {"refresh", "logout"}

\* The columns of a user that an update can change.
Columns == {"email", "password", "active"}

\* Rows of `users` and of `auth_refresh_tokens`.
UserRow == [email : Emails, password : Passwords, active : BOOLEAN]
SessionRow == [user : Requests, revoked : BOOLEAN, expired : BOOLEAN]

\* Some of the columns, with values.
IsChange(change) ==
    /\ DOMAIN change \subseteq Columns
    /\ "email" \in DOMAIN change => change["email"] \in Emails
    /\ "password" \in DOMAIN change => change["password"] \in Passwords
    /\ "active" \in DOMAIN change => change["active"] \in BOOLEAN

IsAsk(a) ==
    \/ /\ a.kind \in {"register", "login"} /\ DOMAIN a = {"kind", "email", "password"}
       /\ a.email \in Emails /\ a.password \in Passwords
    \/ a.kind \in Ending /\ DOMAIN a = {"kind", "token"} /\ a.token \in Requests
    \/ /\ a.kind = "update" /\ DOMAIN a = {"kind", "user", "change"}
       /\ a.user \in Requests /\ IsChange(a.change)

ASSUME SessionsAssumption ==
    /\ IsFiniteSet(Requests) /\ Parallel \in Nat /\ Made \in Nat
    /\ None \notin UserRow \cup SessionRow
    /\ DOMAIN Ask = Requests /\ \A r \in Requests : IsAsk(Ask[r])
    /\ \A r \in Requests : Ask[r].kind \in Ending =>
          Ask[r].token # r /\ Ask[Ask[r].token].kind \in Opening
    /\ \A r \in Requests : Ask[r].kind = "update" => Ask[Ask[r].user].kind = "register"

VARIABLES
    users,      \* row of the user that each request registered, or None
    sessions,   \* row of the session that each request opened, or None
    at,         \* the next call of each request, or how it ended
    got,        \* what it read: the user to log in, the columns to save
    before      \* ghost: endings and updates that were over when it began

vars == <<users, sessions, at, got, before>>

\* Answered, or ended by an exception.
Over == {"answered", "failed"}
Calls == {"exists", "insert", "check", "find", "load", "revoke", "open",
          "read", "taken", "diff", "write"}

Kind(r) == Ask[r].kind
InFlight == {r \in Requests : at[r] \notin Over \cup {"new"}}
Registered == {u \in Requests : users[u] # None}

\* existsByEmail
EmailTaken(m) == \E u \in Registered : users[u].email = m

\* findActiveByTokenHash: the row itself; a raw token names one row.
Active(t) == sessions[t] # None /\ ~sessions[t].revoked /\ ~sessions[t].expired

GoTo(r, call) ==
    /\ at' = [at EXCEPT ![r] = call]
    /\ got' = IF call \in Over THEN [got EXCEPT ![r] = None] ELSE got

\* The same with something read.
GoOnWith(r, call, x) ==
    /\ at' = [at EXCEPT ![r] = call]
    /\ got' = [got EXCEPT ![r] = x]
-----------------------------------------------------------------------------

Init ==
    /\ users = [r \in Requests |-> None]
    /\ sessions = [r \in Requests |-> None]
    /\ at = [r \in Requests |-> "new"]
    /\ got = [r \in Requests |-> None]
    /\ before = [r \in Requests |-> {}]

FirstCall == [register |-> "exists", login |-> "check", refresh |-> "find",
              logout |-> "find", update |-> "read"]

\* A client that refreshes or logs out was given the token.
Begin(r) ==
    /\ at[r] = "new"
    /\ Cardinality(InFlight) < Parallel
    /\ Cardinality({q \in Requests : at[q] # "new"}) < Made
    /\ Kind(r) \in Ending => at[Ask[r].token] = "answered"
    /\ GoTo(r, FirstCall[Kind(r)])
    /\ before' = [before EXCEPT ![r] = 
          {q \in Requests : at[q] \in Over /\ Kind(q) \in Ending \cup {"update"}}]
    /\ UNCHANGED <<users, sessions>>

\* A query fails, or the process dies.
Fail(r) ==
    /\ r \in InFlight
    /\ GoTo(r, "failed")
    /\ UNCHANGED <<users, sessions, before>>

\* Of sessions that somebody may still present.
Expire(s) ==
    /\ \E r \in Requests : at[r] \notin Over /\ Kind(r) \in Ending /\ Ask[r].token = s
    /\ sessions[s] # None /\ ~sessions[s].expired
    /\ sessions' = [sessions EXCEPT ![s].expired = TRUE]
    /\ UNCHANGED <<users, at, got, before>>
-----------------------------------------------------------------------------
(* Register and log in. *)

Exists(r) ==
    /\ at[r] = "exists"
    /\ GoTo(r, IF EmailTaken(Ask[r].email) THEN "failed" ELSE "insert")
    /\ UNCHANGED <<users, sessions, before>>

\* UQ_users_email stops a twin that passed existsByEmail too.
Insert(r) ==
    /\ at[r] = "insert"
    /\ \/ /\ EmailTaken(Ask[r].email)
          /\ GoTo(r, "failed")
          /\ UNCHANGED users
       \/ /\ ~EmailTaken(Ask[r].email)
          /\ users' = [users EXCEPT ![r] =
                [email |-> Ask[r].email, password |-> Ask[r].password, active |-> TRUE]]
          /\ GoOnWith(r, "open", r)
    /\ UNCHANGED <<sessions, before>>

Credentials(r, u) ==
    /\ users[u].email = Ask[r].email /\ users[u].active
    /\ users[u].password = Ask[r].password

Check(r) ==
    /\ at[r] = "check"
    /\ \/ \E u \in Registered : Credentials(r, u) /\ GoOnWith(r, "open", u)
       \/ (\A u \in Registered : ~Credentials(r, u)) /\ GoTo(r, "failed")
    /\ UNCHANGED <<users, sessions, before>>

\* The answer of the insert may be lost.
Open(r) ==
    /\ at[r] = "open"
    /\ sessions' = [sessions EXCEPT ![r] =
          [user |-> got[r], revoked |-> FALSE, expired |-> FALSE]]
    /\ \E out \in {"answered", "failed"} : GoTo(r, out)
    /\ UNCHANGED <<users, before>>
-----------------------------------------------------------------------------
(* Refresh and log out. *)

Find(r) ==
    /\ at[r] = "find"
    /\ GoTo(r, IF Active(Ask[r].token)
               THEN IF Kind(r) = "refresh" THEN "load" ELSE "revoke"
               ELSE IF Kind(r) = "refresh" THEN "failed" ELSE "answered")
    /\ UNCHANGED <<users, sessions, before>>

\* The user is loaded and not looked at.
MayRefreshAnyone(u) == u \in Registered

MayRefresh(u) == u \in Registered /\ users[u].active

LoadUser(r) ==
    LET u == sessions[Ask[r].token].user IN
    /\ at[r] = "load"
    /\ \/ MayRefresh(u) /\ GoOnWith(r, "revoke", u)
       \/ ~MayRefresh(u) /\ GoTo(r, "failed")
    /\ UNCHANGED <<users, sessions, before>>

\* A token in use left open.
RevokedIfExpired(t) == [sessions EXCEPT ![t].revoked = sessions[t].expired]

\* An update by id: of a row that somebody else may have revoked meanwhile.
Revoked(t) == [sessions EXCEPT ![t].revoked = TRUE]

Revoke(r) ==
    /\ at[r] = "revoke"
    /\ sessions' = Revoked(Ask[r].token)
    /\ IF Kind(r) = "refresh" THEN GoTo(r, "open")
       ELSE \E out \in {"answered", "failed"} : GoTo(r, out)
    /\ UNCHANGED <<users, before>>
-----------------------------------------------------------------------------
(* Update a user. *)

\* A row with some columns changed.
Merged(change, row) ==
    [c \in Columns |-> IF c \in DOMAIN change THEN change[c] ELSE row[c]]

\* The entity in memory, with the columns the request asks for.
ReadUser(r) ==
    LET u == Ask[r].user
        new == Merged(Ask[r].change, users[u])
    IN
    /\ at[r] = "read"
    /\ \/ u \notin Registered /\ GoTo(r, "failed")
       \/ /\ u \in Registered
          /\ GoOnWith(r, IF new.email # users[u].email THEN "taken" ELSE "diff", new)
    /\ UNCHANGED <<users, sessions, before>>

Taken(r) ==
    /\ at[r] = "taken"
    /\ GoTo(r, IF EmailTaken(got[r].email) THEN "failed" ELSE "diff")
    /\ UNCHANGED <<users, sessions, before>>

\* save reads the row again and writes the columns in which the entity differs,
\* those included that somebody else has changed since the first read.
Diff(r) ==
    LET row == users[Ask[r].user] IN
    /\ at[r] = "diff"
    /\ GoOnWith(r, "write", [c \in {d \in Columns : got[r][d] # row[d]} |-> got[r][c]])
    /\ UNCHANGED <<users, sessions, before>>

SavedRow(r) == Merged(got[r], users[Ask[r].user])

\* The unique index overlooked.
EmailStolenNever(r) == r \notin Requests

EmailStolen(r) ==
    \E u \in Registered \ {Ask[r].user} : users[u].email = SavedRow(r).email

WriteUser(r) ==
    /\ at[r] = "write"
    /\ \/ EmailStolen(r) /\ GoTo(r, "failed") /\ UNCHANGED users
       \/ /\ ~EmailStolen(r)
          /\ users' = [users EXCEPT ![Ask[r].user] = SavedRow(r)]
          /\ \E out \in {"answered", "failed"} : GoTo(r, out)
    /\ UNCHANGED <<sessions, before>>

Next ==
    \E r \in Requests :
        \/ Begin(r) \/ Fail(r) \/ Expire(r)
        \/ Exists(r) \/ Insert(r) \/ Check(r) \/ Open(r)
        \/ Find(r) \/ LoadUser(r) \/ Revoke(r)
        \/ ReadUser(r) \/ Taken(r) \/ Diff(r) \/ WriteUser(r)

Spec == Init /\ [][Next]_vars
-----------------------------------------------------------------------------
(* Properties. *)

\* One type invariant: tables, requests, one user per email, no orphan session.
TypeOK ==
    /\ users \in [Requests -> UserRow \cup {None}]
    /\ \A u, v \in Registered : users[u].email = users[v].email => u = v
    /\ sessions \in [Requests -> SessionRow \cup {None}]
    /\ \A r \in Requests : sessions[r] # None => sessions[r].user \in Registered
    /\ at \in [Requests -> {"new"} \cup Calls \cup Over]
    /\ before \in [Requests -> SUBSET Requests]

Opened(r) == sessions[r] # None

\* The answer to a logout, or to a refresh, is the end of that token.
Ended(t) ==
    {q \in Requests : Kind(q) \in Ending /\ Ask[q].token = t /\ at[q] = "answered"}

\* Refreshes that overlap may each turn one token into a new session, since
\* find and revoke are two calls; but a refresh that begins when a logout or
\* another refresh of the token has been answered opens none.
TokensEndForGood ==
    \A r \in Requests :
        Kind(r) = "refresh" /\ Opened(r) => before[r] \cap Ended(Ask[r].token) = {}

\* What the user's row must have said for a request to open a session.
Relied(r) ==
    IF Kind(r) = "login"
    THEN [email |-> Ask[r].email, password |-> Ask[r].password, active |-> TRUE]
    ELSE [active |-> TRUE]

Updates(u) == {q \in Requests : Kind(q) = "update" /\ Ask[q].user = u}

\* An answered update (a deactivation, a new password) binds every login and
\* refresh that begins later, unless another update of the user was not over
\* when it began and either changes that column too or overlapped it: the
\* whole-row save of an overlapping one may put the old value back.
UpdatesStick ==
    \A r \in Requests :
        Opened(r) /\ Kind(r) # "register" =>
            \A q \in Updates(sessions[r].user) \cap before[r] :
                at[q] = "answered" =>
                    \A c \in DOMAIN Ask[q].change \cap DOMAIN Relied(r) :
                        \/ Relied(r)[c] = Ask[q].change[c]
                        \/ \E x \in Updates(sessions[r].user) \ (before[q] \cup {q}) :
                              /\ at[x] # "new"
                              /\ c \in DOMAIN Ask[x].change \/ q \notin before[x]
=============================================================================
