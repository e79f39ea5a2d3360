--------------------------- MODULE SessionsProofs ---------------------------
(***************************************************************************)
(* Theorems about Sessions for every set of requests, every choice of what *)
(* they ask for and every bound.  No row is locked between two calls, so   *)
(* the inductive invariant says of each request what the rows it read, and *)
(* the requests over when it began, still guarantee at its next call.      *)
(***************************************************************************)
EXTENDS Sessions, TLAPS

\* A request makes the calls of its kind.
StageOfKind(r) ==
    /\ at[r] \in {"exists", "insert"} => Kind(r) = "register"
    /\ at[r] = "check" => Kind(r) = "login"
    /\ at[r] = "load" => Kind(r) = "refresh"
    /\ at[r] \in {"find", "revoke"} => Kind(r) \in Ending
    /\ at[r] = "open" => Kind(r) \in Opening
    /\ at[r] \in {"read", "taken", "diff", "write"} => Kind(r) = "update"

\* It carries the id of a user there is.
HasUser(r) == at[r] = "open" \/ (at[r] = "revoke" /\ Kind(r) = "refresh")

\* It carries an entity, or the columns of it that are to be written.
HasColumns(r) == at[r] \in {"taken", "diff", "write"}

CarriesRows(r) ==
    /\ HasUser(r) => got[r] \in Registered
    /\ HasColumns(r) => IsChange(got[r]) /\ Ask[r].user \in Registered
    /\ at[r] \in {"taken", "diff"} => DOMAIN got[r] = Columns

\* Its user and its session are the last rows it inserts.
InsertsLast(r) ==
    /\ at[r] \in {"new", "exists", "insert"} => users[r] = None
    /\ sessions[r] # None => at[r] \in Over

BeganAfter(r) ==
    /\ \A q \in before[r] : at[q] \in Over
    /\ at[r] = "new" => before[r] = {}

\* A token that is presented was handed out, and was found before it is used.
TokenGiven(r) ==
    Kind(r) \in Ending =>
        /\ at[r] # "new" => at[Ask[r].token] = "answered"
        /\ at[r] \in {"load", "revoke"} => Opened(Ask[r].token)

\* Once a logout or a refresh has been answered, or only has its new session to
\* open, the token is dead.
DeadToken(r) ==
    Kind(r) \in Ending /\ at[r] \in {"answered", "open"} => ~Active(Ask[r].token)

\* A refresh that began after that does not get past find.
ComesTooLate(r) ==
    Kind(r) = "refresh" /\ before[r] \cap Ended(Ask[r].token) # {} =>
        at[r] \in {"find", "failed"} /\ ~Opened(r)

-----------------------------------------------------------------------------
(* Updates *)

\* Another update of the user was not over when q began, and either changes the
\* column too or began before q was over.
Excused(q, c) ==
    \E x \in Updates(Ask[q].user) \ (before[q] \cup {q}) :
        at[x] # "new" /\ (c \in DOMAIN Ask[x].change \/ q \notin before[x])

\* The row still says what the update q wrote to column c.
Holds(q, row, c) == row[c] = Ask[q].change[c] \/ Excused(q, c)

\* What an answered update wrote is in the user's row.
AnsweredHolds(q) ==
    Kind(q) = "update" /\ at[q] = "answered" =>
        /\ Ask[q].user \in Registered
        /\ \A c \in DOMAIN Ask[q].change : Holds(q, users[Ask[q].user], c)

\* The columns that an update asks for are the ones it has in hand.
EntityChanged(q) ==
    HasColumns(q) =>
        \A c \in DOMAIN Ask[q].change \cap DOMAIN got[q] : got[q][c] = Ask[q].change[c]

\* A column that it asks for and will not write is right already.
WriteHolds(q) ==
    at[q] = "write" =>
        \A c \in DOMAIN Ask[q].change \ DOMAIN got[q] : Holds(q, users[Ask[q].user], c)

\* A column that an update does not ask for and may write back has what the
\* updates answered before it began wrote there.
EntityHolds(x) ==
    HasColumns(x) =>
        \A q \in Updates(Ask[x].user) \cap before[x] :
            at[q] = "answered" =>
                \A c \in DOMAIN Ask[q].change :
                    c \in DOMAIN got[x] /\ c \notin DOMAIN Ask[x].change =>
                        Holds(q, got[x], c)

\* What a login or refresh relied on agrees with the updates answered before.
BoundBy(r, u) ==
    \A q \in Updates(u) \cap before[r] :
        at[q] = "answered" =>
            \A c \in DOMAIN Ask[q].change \cap DOMAIN Relied(r) : Holds(q, Relied(r), c)

WillOpenBound(r) == HasUser(r) /\ Kind(r) # "register" => BoundBy(r, got[r])

OpenedBound(r) == Opened(r) /\ Kind(r) # "register" => BoundBy(r, sessions[r].user)

-----------------------------------------------------------------------------

Sound(r) ==
    /\ StageOfKind(r)
    /\ CarriesRows(r)
    /\ InsertsLast(r)
    /\ BeganAfter(r)
    /\ TokenGiven(r)
    /\ DeadToken(r)
    /\ ComesTooLate(r)
    /\ EntityChanged(r)
    /\ EntityHolds(r)
    /\ WillOpenBound(r)
    /\ OpenedBound(r)

IInv ==
    /\ TypeOK
    /\ DOMAIN got = Requests
    /\ \A r \in Requests : Sound(r) /\ AnsweredHolds(r) /\ WriteHolds(r)

LEMMA InitEstablishes == Init => IInv
<1> SUFFICES ASSUME Init PROVE IInv
  OBVIOUS
<1> USE DEF Init
<1>1. TypeOK
  BY DEF TypeOK, Registered
<1>2. ASSUME NEW r \in Requests PROVE Sound(r) /\ AnsweredHolds(r) /\ WriteHolds(r)
  <2>1. at[r] = "new" /\ users[r] = None /\ ~Opened(r) /\ before[r] = {}
    BY DEF Opened
  <2>2. Sound(r)
    BY <2>1 DEF Sound, StageOfKind, CarriesRows, HasUser, HasColumns, InsertsLast, Over,
       Opened, BeganAfter, TokenGiven, DeadToken, ComesTooLate, EntityChanged,
       EntityHolds, WillOpenBound, OpenedBound
  <2>3. QED
    BY <2>1, <2>2 DEF AnsweredHolds, WriteHolds
<1>3. QED
  BY <1>1, <1>2 DEF IInv

-----------------------------------------------------------------------------
(* What a step leaves as it was *)

\* Requests that are over stay over, those begun keep what they began after,
\* users stay, and a token whose request is over is not opened or revived.
Stable ==
    /\ \A p \in Requests : /\ at[p] \in Over => at'[p] = at[p]
                           /\ at[p] # "new" => at'[p] # "new" /\ before'[p] = before[p]
                           /\ p \in Registered => p \in Registered'
                           /\ at[p] \in Over => /\ Opened(p)' = Opened(p)
                                                /\ Active(p)' => Active(p)

\* The request q takes no part in the step.
Same(q) ==
    /\ at'[q] = at[q] /\ got'[q] = got[q] /\ before'[q] = before[q]
    /\ at[q] \in {"new", "exists", "insert"} => users'[q] = users[q]
    /\ Opened(q)' = Opened(q)
    /\ Opened(q) => sessions'[q].user = sessions[q].user

LEMMA ExcusedStays ==
    ASSUME IInv, Stable, NEW q \in Requests, at[q] # "new", NEW c, Excused(q, c)
    PROVE  Excused(q, c)'
<1>1. PICK x \in Updates(Ask[q].user) \ (before[q] \cup {q}) :
          at[x] # "new" /\ (c \in DOMAIN Ask[x].change \/ q \notin before[x])
  BY DEF Excused
<1>2. x \in Requests
  BY DEF Updates
<1>3. before'[q] = before[q] /\ before'[x] = before[x] /\ at'[x] # "new"
  BY <1>1, <1>2 DEF Stable
<1>4. QED
  BY <1>1, <1>3 DEF Excused, Updates

LEMMA HoldsStays ==
    ASSUME IInv, Stable, NEW q \in Requests, at[q] # "new", NEW row, NEW c, Holds(q, row, c)
    PROVE  row[c] = Ask[q].change[c] \/ Excused(q, c)'
BY ExcusedStays DEF Holds

\* What was over when q began is over for good.
LEMMA BeforeStays ==
    ASSUME IInv, Stable, NEW q \in Requests, NEW p \in before[q]
    PROVE  p \in Requests /\ at[p] # "new" /\ at'[p] = at[p]
BY DEF IInv, Sound, BeganAfter, Stable, TypeOK, Over

LEMMA BoundStays ==
    ASSUME IInv, Stable, NEW r \in Requests, before'[r] = before[r], NEW u, BoundBy(r, u)
    PROVE  \A q \in Updates(u) \cap before'[r] :
              at'[q] = "answered" =>
                  \A c \in DOMAIN Ask[q].change \cap DOMAIN Relied(r) :
                      Relied(r)[c] = Ask[q].change[c] \/ Excused(q, c)'
<1> SUFFICES ASSUME NEW q \in Updates(u) \cap before[r], at'[q] = "answered",
                    NEW c \in DOMAIN Ask[q].change \cap DOMAIN Relied(r)
             PROVE  Relied(r)[c] = Ask[q].change[c] \/ Excused(q, c)'
  OBVIOUS
<1>1. q \in Requests /\ at[q] = "answered"
  BY BeforeStays
<1>2. Holds(q, Relied(r), c)
  BY <1>1 DEF BoundBy
<1>3. QED
  BY <1>1, <1>2, HoldsStays

\* A request that takes no part in a step is as sound after it.
LEMMA OthersSound ==
    ASSUME IInv, Stable, NEW q \in Requests, Same(q)
    PROVE  Sound(q)'
<1> USE DEF Same
<1>0. Sound(q)
  BY DEF IInv
<1>1. StageOfKind(q)'
  BY <1>0 DEF Sound, StageOfKind, Kind
<1>2. CarriesRows(q)'
  <2>1. HasUser(q)' = HasUser(q) /\ HasColumns(q)' = HasColumns(q)
    BY DEF HasUser, HasColumns, Kind
  <2>2. \A u \in Registered : u \in Registered'
    BY DEF Stable, Registered
  <2>3. QED
    BY <1>0, <2>1, <2>2 DEF Sound, CarriesRows, IsChange
<1>3. InsertsLast(q)'
  BY <1>0 DEF Sound, InsertsLast, Opened
<1>4. BeganAfter(q)'
  BY <1>0, BeforeStays DEF Sound, BeganAfter
<1>5. TokenGiven(q)' /\ DeadToken(q)'
  <2>1. CASE Kind(q) \in Ending /\ at[q] # "new"
    <3>1. Ask[q].token \in Requests /\ at[Ask[q].token] = "answered"
      BY <1>0, <2>1, SessionsAssumption DEF Sound, TokenGiven, IsAsk, Kind, Ending
    <3>2. /\ at'[Ask[q].token] = "answered"
          /\ Opened(Ask[q].token)' = Opened(Ask[q].token)
          /\ Active(Ask[q].token)' => Active(Ask[q].token)
      BY <3>1 DEF Stable, Over
    <3>3. QED
      BY <1>0, <2>1, <3>2 DEF Sound, TokenGiven, DeadToken, Kind
  <2>2. CASE ~(Kind(q) \in Ending /\ at[q] # "new")
    BY <2>2 DEF TokenGiven, DeadToken, Kind
  <2>3. QED
    BY <2>1, <2>2
<1>6. ComesTooLate(q)'
  <2>1. \A p \in before[q] : p \in Ended(Ask[q].token)' => p \in Ended(Ask[q].token)
    BY BeforeStays DEF Ended, Kind
  <2>2. QED
    BY <1>0, <2>1 DEF Sound, ComesTooLate, Kind
<1>7. EntityChanged(q)'
  BY <1>0 DEF Sound, EntityChanged, HasColumns
<1>8. EntityHolds(q)'
  <2> SUFFICES ASSUME HasColumns(q)', NEW p \in Updates(Ask[q].user) \cap before[q],
                      at'[p] = "answered", NEW c \in DOMAIN Ask[p].change,
                      c \in DOMAIN got[q], c \notin DOMAIN Ask[q].change
               PROVE  got[q][c] = Ask[p].change[c] \/ Excused(p, c)'
    BY DEF EntityHolds, Holds, Updates
  <2>1. p \in Requests /\ at[p] = "answered"
    BY BeforeStays
  <2>2. Holds(p, got[q], c)
    BY <1>0, <2>1 DEF Sound, EntityHolds, HasColumns
  <2>3. QED
    BY <2>1, <2>2, HoldsStays
<1>9. WillOpenBound(q)'
  <2>1. HasUser(q)' = HasUser(q)
    BY DEF HasUser, Kind
  <2> SUFFICES ASSUME HasUser(q), Kind(q) # "register"
               PROVE  BoundBy(q, got[q])'
    BY <2>1 DEF WillOpenBound, Kind
  <2>2. BoundBy(q, got[q])
    BY <1>0 DEF Sound, WillOpenBound
  <2>3. QED
    BY <2>2, BoundStays DEF BoundBy, Holds, Updates, Relied, Kind
<1>10. OpenedBound(q)'
  <2> SUFFICES ASSUME Opened(q), Kind(q) # "register"
               PROVE  BoundBy(q, sessions[q].user)'
    BY DEF OpenedBound, Kind
  <2>1. BoundBy(q, sessions[q].user)
    BY <1>0 DEF Sound, OpenedBound
  <2>2. sessions'[q].user = sessions[q].user
    OBVIOUS
  <2>3. QED
    BY <2>1, <2>2, BoundStays DEF BoundBy, Holds, Updates, Relied, Kind
<1>11. QED
  BY <1>1, <1>2, <1>3, <1>4, <1>5, <1>6, <1>7, <1>8, <1>9, <1>10 DEF Sound

\* So are the rows it wrote, or is about to write, while no user's row changes.
LEMMA OthersHold ==
    ASSUME IInv, Stable, \A u \in Registered : users'[u] = users[u],
           NEW q \in Requests, Same(q)
    PROVE  AnsweredHolds(q)' /\ WriteHolds(q)'
<1> DEFINE u == Ask[q].user
<1> USE DEF Same
<1>0. Sound(q) /\ AnsweredHolds(q) /\ WriteHolds(q)
  BY DEF IInv
<1>1. AnsweredHolds(q)'
  <2> SUFFICES ASSUME Kind(q) = "update", at[q] = "answered"
               PROVE  /\ u \in Registered'
                      /\ \A c \in DOMAIN Ask[q].change :
                            users'[u][c] = Ask[q].change[c] \/ Excused(q, c)'
    BY DEF AnsweredHolds, Holds, Kind
  <2>1. u \in Registered /\ u \in Requests /\ users'[u] = users[u]
    BY <1>0 DEF AnsweredHolds, Registered
  <2>2. \A c \in DOMAIN Ask[q].change : Holds(q, users[u], c)
    BY <1>0 DEF AnsweredHolds
  <2>3. QED
    BY <2>1, <2>2, HoldsStays DEF Stable
<1>2. WriteHolds(q)'
  <2> SUFFICES ASSUME at[q] = "write", NEW c \in DOMAIN Ask[q].change \ DOMAIN got[q]
               PROVE  users'[u][c] = Ask[q].change[c] \/ Excused(q, c)'
    BY DEF WriteHolds, Holds
  <2>1. users'[u] = users[u]
    BY <1>0 DEF Sound, CarriesRows, HasColumns
  <2>2. Holds(q, users[u], c)
    BY <1>0 DEF WriteHolds
  <2>3. QED
    BY <2>1, <2>2, HoldsStays
<1>3. QED
  BY <1>1, <1>2

-----------------------------------------------------------------------------
(* Every action keeps IInv *)

Moved(r, call) ==
    /\ at'[r] = call
    /\ at' \in [Requests -> {"new"} \cup Calls \cup Over]
    /\ DOMAIN got' = Requests
    /\ \A q \in Requests \ {r} : at'[q] = at[q] /\ got'[q] = got[q]

LEMMA GoToMoves ==
    ASSUME IInv, NEW r \in Requests, NEW call \in Calls \cup Over, GoTo(r, call)
    PROVE  Moved(r, call) /\ (call \notin Over => got'[r] = got[r])
BY DEF IInv, TypeOK, GoTo, Moved

LEMMA GoOnMoves ==
    ASSUME IInv, NEW r \in Requests, NEW call \in Calls \cup Over, NEW x,
           GoOnWith(r, call, x)
    PROVE  Moved(r, call) /\ got'[r] = x
BY DEF IInv, TypeOK, GoOnWith, Moved

\* Most calls write nothing: all that has to be shown is about the request itself.
LEMMA QuietStep ==
    ASSUME IInv, NEW r \in InFlight, NEW call, Moved(r, call), call # "new",
           UNCHANGED <<users, sessions, before>>,
           call \in {"exists", "insert"} => users[r] = None,
           StageOfKind(r)', CarriesRows(r)', TokenGiven(r)', DeadToken(r)',
           ComesTooLate(r)', EntityChanged(r)', EntityHolds(r)', WillOpenBound(r)',
           AnsweredHolds(r)', WriteHolds(r)'
    PROVE  IInv'
<1>0. r \in Requests /\ at[r] # "new" /\ at[r] \notin Over
  BY DEF InFlight
<1>1. TypeOK' /\ DOMAIN got' = Requests
  BY DEF IInv, TypeOK, Moved, Registered
<1>2. Stable
  BY <1>0 DEF Stable, Moved, Registered, Opened, Active
<1>3. ASSUME NEW q \in Requests \ {r}
      PROVE  Sound(q)' /\ AnsweredHolds(q)' /\ WriteHolds(q)'
  <2>1. Same(q)
    BY DEF Same, Moved, Opened
  <2>2. QED
    BY <1>2, <2>1, OthersSound, OthersHold
<1>4. Sound(r)'
  <2>1. ~Opened(r)' /\ BeganAfter(r)'
    BY <1>0, <1>2, BeforeStays DEF IInv, Sound, InsertsLast, BeganAfter, Opened, Moved
  <2>2. InsertsLast(r)' /\ OpenedBound(r)'
    BY <2>1 DEF InsertsLast, OpenedBound, Opened, Moved
  <2>3. QED
    BY <2>1, <2>2 DEF Sound
<1>5. QED
  BY <1>0, <1>1, <1>3, <1>4 DEF IInv

\* The token a request presents stays handed out.
LEMMA TokenStays ==
    ASSUME IInv, NEW r \in Requests, at[r] # "new", Kind(r) \in Ending,
           NEW call, Moved(r, call)
    PROVE  Ask[r].token \in Requests \ {r} /\ at'[Ask[r].token] = "answered"
<1>1. Ask[r].token \in Requests \ {r}
  BY SessionsAssumption DEF Kind, IsAsk, Ending
<1>2. at[Ask[r].token] = "answered"
  BY DEF IInv, Sound, TokenGiven
<1>3. QED
  BY <1>1, <1>2 DEF Moved

\* A request that fails has nothing left to show.
LEMMA FailedStep ==
    ASSUME IInv, NEW r \in InFlight, GoTo(r, "failed"), UNCHANGED <<users, sessions, before>>
    PROVE  IInv'
<1>0. r \in Requests /\ at[r] # "new" /\ at[r] \notin Over
  BY DEF InFlight
<1>1. Moved(r, "failed")
  BY <1>0, GoToMoves DEF Over
<1>2. at'[r] = "failed"
  BY <1>1 DEF Moved
<1>3. StageOfKind(r)' /\ CarriesRows(r)' /\ DeadToken(r)'
  BY <1>2 DEF StageOfKind, CarriesRows, HasUser, HasColumns, DeadToken
<1>4. TokenGiven(r)'
  BY <1>0, <1>1, <1>2, TokenStays DEF TokenGiven, Kind
<1>5. ComesTooLate(r)'
  BY <1>0, <1>2 DEF IInv, Sound, InsertsLast, ComesTooLate, Opened
<1>6. EntityChanged(r)' /\ EntityHolds(r)' /\ WillOpenBound(r)' /\ AnsweredHolds(r)'
      /\ WriteHolds(r)'
  BY <1>2 DEF EntityChanged, EntityHolds, HasColumns, WillOpenBound, HasUser, AnsweredHolds,
     WriteHolds
<1>7. QED
  BY <1>1, <1>3, <1>4, <1>5, <1>6, QuietStep

LEMMA BeginPreserves ==
    ASSUME IInv, NEW r \in Requests, Begin(r)
    PROVE  IInv'
<1> DEFINE call == FirstCall[Kind(r)]
<1>0. /\ at[r] = "new" /\ UNCHANGED <<users, sessions>>
      /\ before' = [before EXCEPT ![r] = {q \in Requests : at[q] \in Over
                                            /\ Kind(q) \in Ending \cup {"update"}}]
      /\ Sound(r)
  BY DEF Begin, IInv
<1>1. /\ \/ Kind(r) = "register" /\ call = "exists"
         \/ Kind(r) = "login" /\ call = "check"
         \/ Kind(r) \in Ending /\ call = "find"
         \/ Kind(r) = "update" /\ call = "read"
      /\ call \in Calls
  BY SessionsAssumption DEF IsAsk, Kind, FirstCall, Ending, Calls
<1>2. Moved(r, call)
  BY <1>1, GoToMoves DEF Begin
<1> HIDE DEF call
<1>3. /\ TypeOK' /\ DOMAIN got' = Requests
      /\ \A q \in Requests \ {r} : before'[q] = before[q]
      /\ at'[r] = call
      /\ before'[r] = {q \in Requests : at[q] \in Over /\ Kind(q) \in Ending \cup {"update"}}
  BY <1>0, <1>2 DEF IInv, TypeOK, Moved, Registered
<1>4. call \notin Over \cup {"new"}
  BY <1>1 DEF Over
<1>5. Stable
  BY <1>0, <1>2, <1>3, <1>4 DEF Stable, Moved, Registered, Opened, Active, Over
<1>6. ASSUME NEW q \in Requests \ {r}
      PROVE  Sound(q)' /\ AnsweredHolds(q)' /\ WriteHolds(q)'
  <2>1. Same(q)
    BY <1>0, <1>2, <1>3 DEF Same, Moved, Opened
  <2>2. QED
    BY <1>0, <1>5, <2>1, OthersSound, OthersHold
<1>7. Sound(r)'
  <2>1. ~Opened(r) /\ users[r] = None /\ ~Opened(r)'
    BY <1>0 DEF Sound, InsertsLast, Opened, Over
  <2>2. StageOfKind(r)' /\ CarriesRows(r)' /\ InsertsLast(r)'
    BY <1>0, <1>1, <1>3, <2>1 DEF StageOfKind, Opening, CarriesRows, HasUser, HasColumns,
       InsertsLast, Opened, Kind
  <2>3. BeganAfter(r)'
    BY <1>3, <1>4, <1>5 DEF BeganAfter, Stable
  <2>4. TokenGiven(r)'
    <3>1. Kind(r) \in Ending => /\ at[Ask[r].token] = "answered"
                                /\ Ask[r].token \in Requests \ {r}
      BY SessionsAssumption DEF Begin, Kind, IsAsk, Ending
    <3>2. QED
      BY <1>1, <1>2, <1>3, <3>1 DEF TokenGiven, Moved, Kind
  <2>5. DeadToken(r)' /\ EntityChanged(r)' /\ EntityHolds(r)' /\ WillOpenBound(r)'
        /\ OpenedBound(r)'
    BY <1>1, <1>3, <2>1 DEF DeadToken, EntityChanged, EntityHolds, HasColumns,
       WillOpenBound, HasUser, OpenedBound
  <2>6. ComesTooLate(r)'
    BY <1>1, <1>3, <2>1 DEF ComesTooLate, Kind, Ending
  <2>7. QED
    BY <2>2, <2>3, <2>4, <2>5, <2>6 DEF Sound
<1>8. AnsweredHolds(r)' /\ WriteHolds(r)'
  BY <1>1, <1>3, <1>4 DEF AnsweredHolds, WriteHolds, Over
<1>9. QED
  BY <1>3, <1>6, <1>7, <1>8 DEF IInv

LEMMA FailPreserves ==
    ASSUME IInv, NEW r \in Requests, Fail(r)
    PROVE  IInv'
BY FailedStep DEF Fail

\* An expired token can only become less active.
LEMMA ExpirePreserves ==
    ASSUME IInv, NEW s \in Requests, Expire(s)
    PROVE  IInv'
<1>1. /\ sessions[s] \in SessionRow
      /\ sessions' = [sessions EXCEPT ![s].expired = TRUE]
      /\ UNCHANGED <<users, at, got, before>>
  BY DEF Expire, IInv, TypeOK
<1>2. /\ sessions'[s] \in SessionRow
      /\ sessions'[s].user = sessions[s].user
      /\ sessions'[s].expired
      /\ \A t \in Requests \ {s} : sessions'[t] = sessions[t]
      /\ sessions' \in [Requests -> SessionRow \cup {None}]
  BY <1>1 DEF SessionRow, IInv, TypeOK
<1>3. sessions[s] # None /\ sessions'[s] # None
  BY <1>1, <1>2, SessionsAssumption
<1>4. TypeOK' /\ DOMAIN got' = Requests
  BY <1>1, <1>2, <1>3 DEF IInv, TypeOK, Registered
<1>5. Stable
  BY <1>1, <1>2, <1>3 DEF Stable, Registered, Opened, Active
<1>6. ASSUME NEW q \in Requests
      PROVE  Sound(q)' /\ AnsweredHolds(q)' /\ WriteHolds(q)'
  <2>1. Same(q)
    BY <1>1, <1>2, <1>3 DEF Same, Opened
  <2>2. QED
    BY <1>1, <1>5, <2>1, OthersSound, OthersHold
<1>7. QED
  BY <1>4, <1>6 DEF IInv

-----------------------------------------------------------------------------
(* Register and log in *)

LEMMA ExistsPreserves ==
    ASSUME IInv, NEW r \in Requests, Exists(r)
    PROVE  IInv'
<1>0. at[r] = "exists" /\ r \in InFlight /\ Sound(r) /\ UNCHANGED <<users, sessions, before>>
  BY DEF Exists, InFlight, Over, IInv
<1>1. CASE GoTo(r, "failed")
  BY <1>0, <1>1, FailedStep
<1>2. CASE GoTo(r, "insert")
  <2>1. Moved(r, "insert") /\ at'[r] = "insert"
    BY <1>2, GoToMoves DEF Calls, Moved
  <2>2. Kind(r) = "register" /\ users[r] = None
    BY <1>0 DEF Sound, StageOfKind, InsertsLast
  <2>3. /\ StageOfKind(r)' /\ CarriesRows(r)' /\ TokenGiven(r)' /\ DeadToken(r)'
        /\ ComesTooLate(r)' /\ EntityChanged(r)' /\ EntityHolds(r)' /\ WillOpenBound(r)'
        /\ AnsweredHolds(r)' /\ WriteHolds(r)'
    BY <2>1, <2>2 DEF StageOfKind, CarriesRows, HasUser, HasColumns, TokenGiven, DeadToken,
       ComesTooLate, EntityChanged, EntityHolds, WillOpenBound, AnsweredHolds, WriteHolds,
       Kind, Ending
  <2>4. QED
    BY <1>0, <2>1, <2>2, <2>3, QuietStep
<1>3. QED
  BY <1>1, <1>2 DEF Exists

\* A new user's row has an email that no other row has.
LEMMA InsertPreserves ==
    ASSUME IInv, NEW r \in Requests, Insert(r)
    PROVE  IInv'
<1>0. at[r] = "insert" /\ r \in InFlight /\ Sound(r) /\ UNCHANGED <<sessions, before>>
  BY DEF Insert, InFlight, Over, IInv
<1>1. CASE GoTo(r, "failed") /\ UNCHANGED users
  BY <1>0, <1>1, FailedStep
<1>2. CASE /\ ~EmailTaken(Ask[r].email)
           /\ users' = [users EXCEPT ![r] =
                 [email |-> Ask[r].email, password |-> Ask[r].password, active |-> TRUE]]
           /\ GoOnWith(r, "open", r)
  <2> DEFINE row == [email |-> Ask[r].email, password |-> Ask[r].password, active |-> TRUE]
  <2>1. Moved(r, "open") /\ got'[r] = r /\ at'[r] = "open"
    BY <1>2, GoOnMoves DEF Calls, Moved
  <2>2. Kind(r) = "register" /\ users[r] = None /\ ~Opened(r)
    BY <1>0 DEF Sound, StageOfKind, InsertsLast, Opened, Over
  <2>3. row \in UserRow /\ row # None /\ row.email = Ask[r].email
    <3>1. Ask[r].email \in Emails /\ Ask[r].password \in Passwords
      BY <2>2, SessionsAssumption DEF IsAsk, Kind, Ending
    <3>2. row \in UserRow
      BY <3>1 DEF UserRow
    <3>3. None \notin UserRow
      BY SessionsAssumption
    <3>4. QED
      BY <3>2, <3>3
  <2>4. /\ users'[r] = row /\ \A u \in Requests \ {r} : users'[u] = users[u]
        /\ users' \in [Requests -> UserRow \cup {None}]
    BY <1>2, <2>3 DEF IInv, TypeOK
  <2> HIDE DEF row
  <2>5. Registered' = Registered \cup {r} /\ r \notin Registered
    BY <2>2, <2>3, <2>4 DEF Registered
  <2>6. TypeOK' /\ DOMAIN got' = Requests
    <3>1. \A u \in Registered : users[u].email # row.email
      BY <1>2, <2>3 DEF EmailTaken
    <3>2. \A u, v \in Registered' : users'[u].email = users'[v].email => u = v
      BY <2>4, <2>5, <3>1 DEF IInv, TypeOK, Registered
    <3>3. QED
      BY <1>0, <2>1, <2>4, <2>5, <3>2 DEF IInv, TypeOK, Moved
  <2>7. Stable
    BY <1>0, <2>1, <2>5 DEF Stable, Moved, Opened, Active, Over
  <2>8. ASSUME NEW q \in Requests \ {r}
        PROVE  Sound(q)' /\ AnsweredHolds(q)' /\ WriteHolds(q)'
    <3>1. Same(q) /\ \A u \in Registered : users'[u] = users[u]
      BY <1>0, <2>1, <2>4, <2>5 DEF Same, Moved, Opened, Registered
    <3>2. QED
      BY <2>7, <3>1, OthersSound, OthersHold
  <2>9. Sound(r)'
    <3>1. BeganAfter(r)'
      BY <1>0, <2>1, <2>7, BeforeStays DEF Sound, BeganAfter
    <3>2. StageOfKind(r)' /\ InsertsLast(r)' /\ OpenedBound(r)' /\ CarriesRows(r)'
      BY <1>0, <2>1, <2>2, <2>5 DEF StageOfKind, Opening, InsertsLast, OpenedBound,
         CarriesRows, HasColumns, HasUser, Opened, Kind
    <3>3. TokenGiven(r)' /\ DeadToken(r)' /\ ComesTooLate(r)' /\ WillOpenBound(r)'
      BY <2>2 DEF TokenGiven, DeadToken, ComesTooLate, WillOpenBound, Kind, Ending
    <3>4. EntityChanged(r)' /\ EntityHolds(r)'
      BY <2>1 DEF EntityChanged, EntityHolds, HasColumns
    <3>5. QED
      BY <3>1, <3>2, <3>3, <3>4 DEF Sound
  <2>10. AnsweredHolds(r)' /\ WriteHolds(r)'
    BY <2>1 DEF AnsweredHolds, WriteHolds
  <2>11. QED
    BY <2>6, <2>8, <2>9, <2>10 DEF IInv
<1>3. QED
  BY <1>1, <1>2 DEF Insert

\* What a request that found its user's row right relied on is what the updates
\* answered before it began have written there.
LEMMA RowBinds ==
    ASSUME IInv, NEW r \in Requests, NEW u \in Requests,
           \A c \in DOMAIN Relied(r) : users[u][c] = Relied(r)[c]
    PROVE  BoundBy(r, u)
<1> SUFFICES ASSUME NEW q \in Updates(u) \cap before[r], at[q] = "answered",
                    NEW c \in DOMAIN Ask[q].change \cap DOMAIN Relied(r)
             PROVE  Holds(q, Relied(r), c)
  BY DEF BoundBy
<1>1. q \in Requests /\ Ask[q].user = u /\ Kind(q) = "update"
  BY DEF Updates
<1>2. Holds(q, users[u], c)
  BY <1>1 DEF IInv, AnsweredHolds
<1>3. QED
  BY <1>2 DEF Holds

\* The same after a step of r itself that changes no row.
LEMMA RowStillBinds ==
    ASSUME IInv, NEW r \in InFlight, NEW call \in Calls, Moved(r, call),
           UNCHANGED <<users, sessions, before>>, NEW u \in Requests, BoundBy(r, u)
    PROVE  BoundBy(r, u)'
<1>1. Stable /\ r \in Requests
  BY DEF Stable, Moved, Registered, Opened, Active, InFlight, Calls, Over
<1>2. QED
  BY <1>1, BoundStays DEF BoundBy, Holds, Updates, Relied, Kind

LEMMA CheckPreserves ==
    ASSUME IInv, NEW r \in Requests, Check(r)
    PROVE  IInv'
<1>0. at[r] = "check" /\ r \in InFlight /\ Sound(r) /\ UNCHANGED <<users, sessions, before>>
  BY DEF Check, InFlight, Over, IInv
<1>1. CASE GoTo(r, "failed")
  BY <1>0, <1>1, FailedStep
<1>2. ASSUME NEW u \in Registered, Credentials(r, u), GoOnWith(r, "open", u)
      PROVE  IInv'
  <2>1. Moved(r, "open") /\ got'[r] = u /\ at'[r] = "open" /\ u \in Requests
    BY <1>2, GoOnMoves DEF Calls, Moved, Registered
  <2>2. Kind(r) = "login"
    BY <1>0 DEF Sound, StageOfKind
  <2>3. BoundBy(r, u)'
    <3>1. \A c \in DOMAIN Relied(r) : users[u][c] = Relied(r)[c]
      <4>1. users[u] \in UserRow
        BY <2>1 DEF IInv, TypeOK, Registered
      <4>2. users[u].active = TRUE
        BY <1>2, <4>1 DEF Credentials, UserRow
      <4>3. Relied(r) = [email |-> Ask[r].email, password |-> Ask[r].password, active |-> TRUE]
        BY <2>2 DEF Relied
      <4>4. Relied(r)["email"] = Ask[r].email /\ Relied(r)["password"] = Ask[r].password
        BY <4>3
      <4>5. Relied(r)["active"] = TRUE /\ DOMAIN Relied(r) = {"email", "password", "active"}
        BY <4>3
      <4>6. users[u].email = Ask[r].email /\ users[u].password = Ask[r].password
        BY <1>2 DEF Credentials
      <4>7. QED
        BY <4>2, <4>4, <4>5, <4>6
    <3>2. QED
      BY <1>0, <2>1, <3>1, RowBinds, RowStillBinds DEF Calls
  <2>4. WillOpenBound(r)'
    BY <2>1, <2>3 DEF WillOpenBound, BoundBy
  <2>5. CarriesRows(r)'
    BY <1>0, <1>2, <2>1 DEF CarriesRows, HasColumns, Registered
  <2>6. /\ StageOfKind(r)' /\ TokenGiven(r)' /\ DeadToken(r)'
        /\ ComesTooLate(r)' /\ EntityChanged(r)' /\ EntityHolds(r)'
        /\ AnsweredHolds(r)' /\ WriteHolds(r)'
    BY <2>1, <2>2 DEF StageOfKind, Opening, HasColumns, TokenGiven, DeadToken,
       ComesTooLate, EntityChanged, EntityHolds, AnsweredHolds, WriteHolds, Kind, Ending
  <2>7. QED
    BY <1>0, <2>1, <2>4, <2>5, <2>6, QuietStep
<1>3. QED
  BY <1>1, <1>2 DEF Check

\* The new session is of the user that was found.
LEMMA OpenPreserves ==
    ASSUME IInv, NEW r \in Requests, Open(r)
    PROVE  IInv'
<1>0. /\ at[r] = "open" /\ r \in InFlight /\ Sound(r) /\ UNCHANGED <<users, before>>
      /\ sessions' = [sessions EXCEPT ![r] =
            [user |-> got[r], revoked |-> FALSE, expired |-> FALSE]]
  BY DEF Open, InFlight, Over, IInv
<1>1. PICK out \in {"answered", "failed"} : GoTo(r, out)
  BY DEF Open
<1>2. Moved(r, out) /\ at'[r] = out
  BY <1>1, GoToMoves DEF Over, Moved
<1>3. got[r] \in Registered /\ got[r] \in Requests /\ Kind(r) \in Opening
  BY <1>0 DEF Sound, CarriesRows, HasUser, Registered, StageOfKind
<1> DEFINE row == [user |-> got[r], revoked |-> FALSE, expired |-> FALSE]
<1>4. row \in SessionRow /\ row # None /\ row.user = got[r]
  <2>1. row \in SessionRow
    BY <1>3 DEF SessionRow
  <2>2. None \notin SessionRow
    BY SessionsAssumption
  <2>3. QED
    BY <2>1, <2>2
<1>5. /\ sessions'[r] = row /\ \A q \in Requests \ {r} : sessions'[q] = sessions[q]
      /\ sessions' \in [Requests -> SessionRow \cup {None}]
  BY <1>0, <1>4 DEF IInv, TypeOK
<1> HIDE DEF row
<1>6. TypeOK' /\ DOMAIN got' = Requests
  BY <1>0, <1>2, <1>3, <1>4, <1>5 DEF IInv, TypeOK, Moved, Registered
<1>7. Stable
  BY <1>0, <1>2, <1>5 DEF Stable, Moved, Registered, Opened, Active, InFlight, Over
<1>8. ASSUME NEW q \in Requests \ {r}
      PROVE  Sound(q)' /\ AnsweredHolds(q)' /\ WriteHolds(q)'
  <2>1. Same(q)
    BY <1>0, <1>2, <1>5 DEF Same, Moved, Opened
  <2>2. QED
    BY <1>0, <1>7, <2>1, OthersSound, OthersHold
<1>9. Sound(r)'
  <2>1. StageOfKind(r)' /\ CarriesRows(r)' /\ InsertsLast(r)' /\ WillOpenBound(r)'
        /\ EntityChanged(r)' /\ EntityHolds(r)'
    BY <1>2 DEF StageOfKind, CarriesRows, HasUser, HasColumns, InsertsLast, Over,
       WillOpenBound, EntityChanged, EntityHolds
  <2>2. BeganAfter(r)'
    BY <1>0, <1>2, <1>7, BeforeStays DEF Sound, BeganAfter, Over
  <2>3. TokenGiven(r)'
    BY <1>0, <1>2, TokenStays DEF TokenGiven, Kind
  <2>4. DeadToken(r)'
    <3> SUFFICES ASSUME Kind(r) \in Ending
                 PROVE  ~Active(Ask[r].token)'
      BY DEF DeadToken, Kind
    <3>1. ~Active(Ask[r].token)
      BY <1>0 DEF Sound, DeadToken
    <3>2. Ask[r].token \in Requests \ {r}
      BY <1>0, <1>2, TokenStays
    <3>3. QED
      BY <1>5, <3>1, <3>2 DEF Active
  <2>5. ComesTooLate(r)'
    <3> SUFFICES ASSUME Kind(r) = "refresh", NEW p \in before[r], p \in Ended(Ask[r].token)'
                 PROVE  FALSE
      BY <1>0 DEF ComesTooLate, Kind
    <3>1. p \in Ended(Ask[r].token)
      BY <1>7, BeforeStays DEF Ended, Kind
    <3>2. QED
      BY <1>0, <3>1 DEF Sound, ComesTooLate
  <2>6. OpenedBound(r)'
    <3>1. PICK u \in Requests : u = got[r]
      BY <1>3
    <3>2. sessions'[r].user = u
      BY <1>4, <1>5, <3>1
    <3> SUFFICES ASSUME Kind(r) # "register"
                 PROVE  BoundBy(r, u)'
      BY <3>2 DEF OpenedBound, Kind, BoundBy
    <3>3. BoundBy(r, u)
      BY <1>0, <3>1 DEF Sound, WillOpenBound, HasUser
    <3>4. QED
      BY <1>0, <1>7, <3>3, BoundStays DEF BoundBy, Holds, Updates, Relied, Kind
  <2>7. QED
    BY <2>1, <2>2, <2>3, <2>4, <2>5, <2>6 DEF Sound
<1>10. AnsweredHolds(r)' /\ WriteHolds(r)'
  BY <1>2, <1>3 DEF AnsweredHolds, WriteHolds, Kind, Opening
<1>11. QED
  BY <1>6, <1>8, <1>9, <1>10 DEF IInv

-----------------------------------------------------------------------------
(* Refresh and log out *)

\* A step without a write to a table is one in the sense of Stable.
LEMMA QuietStable ==
    ASSUME IInv, NEW r \in InFlight, NEW call \in Calls \cup Over, Moved(r, call),
           UNCHANGED <<users, sessions, before>>
    PROVE  Stable /\ at'[r] = call /\ r \in Requests /\ before'[r] = before[r]
BY DEF Stable, Moved, Registered, Opened, Active, InFlight, Calls, Over

\* A refresh that got past find began before the token's end.
LEMMA InTimeStays ==
    ASSUME IInv, Stable, NEW r \in Requests, before'[r] = before[r],
           at[r] \notin {"find", "failed"}
    PROVE  ComesTooLate(r)'
<1> SUFFICES ASSUME Kind(r) = "refresh", NEW p \in before[r], p \in Ended(Ask[r].token)'
             PROVE  FALSE
  BY DEF ComesTooLate, Kind
<1>1. p \in Ended(Ask[r].token)
  BY BeforeStays DEF Ended, Kind
<1>2. QED
  BY <1>1 DEF IInv, Sound, ComesTooLate

LEMMA FindPreserves ==
    ASSUME IInv, NEW r \in Requests, Find(r)
    PROVE  IInv'
<1> DEFINE t == Ask[r].token
<1>0. at[r] = "find" /\ r \in InFlight /\ Sound(r) /\ UNCHANGED <<users, sessions, before>>
  BY DEF Find, InFlight, Over, IInv
<1>1. Kind(r) \in Ending /\ ~Opened(r)
  BY <1>0 DEF Sound, StageOfKind, InsertsLast, Opened, Over
<1>2. CASE GoTo(r, "failed")
  BY <1>0, <1>2, FailedStep
<1>3. ASSUME NEW call \in {"load", "revoke", "answered"}, GoTo(r, call),
             call = "load" => Kind(r) = "refresh" /\ Active(t),
             call = "revoke" => Kind(r) # "refresh" /\ Active(t),
             call = "answered" => Kind(r) # "refresh" /\ ~Active(t)
      PROVE  IInv'
  <2>1. Moved(r, call) /\ call \in Calls \cup Over
    BY <1>3, GoToMoves DEF Calls, Over
  <2>2. Stable /\ at'[r] = call /\ before'[r] = before[r]
    BY <1>0, <2>1, QuietStable
  <2>3. StageOfKind(r)' /\ CarriesRows(r)' /\ WillOpenBound(r)'
    BY <1>1, <1>3, <2>2 DEF StageOfKind, CarriesRows, HasUser, HasColumns, WillOpenBound,
       Kind
  <2>4. TokenGiven(r)'
    BY <1>0, <1>1, <1>3, <2>1, <2>2, TokenStays DEF TokenGiven, Active, Opened, Kind
  <2>5. DeadToken(r)'
    BY <1>0, <1>3, <2>2 DEF DeadToken, Active
  <2>6. ComesTooLate(r)'
    <3> SUFFICES ASSUME Kind(r) = "refresh", NEW p \in before[r], p \in Ended(t)'
                 PROVE  FALSE
      BY <2>2 DEF ComesTooLate, Kind
    <3>1. p \in Ended(t)
      BY <2>2, BeforeStays DEF Ended, Kind
    <3>2. ~Active(t)
      BY <3>1 DEF Ended, IInv, Sound, DeadToken
    <3>3. QED
      BY <1>3, <3>2
  <2>7. EntityChanged(r)' /\ EntityHolds(r)' /\ AnsweredHolds(r)' /\ WriteHolds(r)'
    BY <1>1, <1>3, <2>2 DEF EntityChanged, EntityHolds, HasColumns, AnsweredHolds, WriteHolds,
       Kind, Ending
  <2>8. QED
    BY <1>0, <1>3, <2>1, <2>3, <2>4, <2>5, <2>6, <2>7, QuietStep
<1>4. QED
  BY <1>1, <1>2, <1>3 DEF Find

LEMMA LoadUserPreserves ==
    ASSUME IInv, NEW r \in Requests, LoadUser(r)
    PROVE  IInv'
<1> DEFINE t == Ask[r].token
<1> PICK u : u = sessions[t].user
  OBVIOUS
<1>0. at[r] = "load" /\ r \in InFlight /\ Sound(r) /\ UNCHANGED <<users, sessions, before>>
  BY DEF LoadUser, InFlight, Over, IInv
<1>1. CASE GoTo(r, "failed")
  BY <1>0, <1>1, FailedStep
<1>2. CASE MayRefresh(u) /\ GoOnWith(r, "revoke", u)
  <2>1. Moved(r, "revoke") /\ got'[r] = u /\ "revoke" \in Calls \cup Over
    BY <1>2, GoOnMoves DEF Calls
  <2>2. Stable /\ at'[r] = "revoke" /\ before'[r] = before[r]
    BY <1>0, <2>1, QuietStable
  <2>3. Kind(r) = "refresh" /\ Opened(t) /\ u \in Registered /\ u \in Requests
    BY <1>0, <1>2 DEF Sound, StageOfKind, TokenGiven, MayRefresh, Registered, Ending
  <2>4. StageOfKind(r)' /\ CarriesRows(r)'
    BY <1>0, <2>1, <2>2, <2>3 DEF StageOfKind, CarriesRows, HasColumns, Registered, Kind, Ending
  <2>5. WillOpenBound(r)'
    <3>1. \A c \in DOMAIN Relied(r) : users[u][c] = Relied(r)[c]
      <4>1. users[u] \in UserRow
        BY <2>3 DEF IInv, TypeOK, Registered
      <4>2. users[u].active = TRUE
        BY <1>2, <4>1 DEF MayRefresh, UserRow
      <4>3. Relied(r) = [active |-> TRUE]
        BY <2>3 DEF Relied
      <4>4. Relied(r)["active"] = TRUE /\ DOMAIN Relied(r) = {"active"}
        BY <4>3
      <4>5. QED
        BY <4>2, <4>4
    <3>2. BoundBy(r, u)'
      BY <1>0, <2>1, <2>3, <3>1, RowBinds, RowStillBinds DEF Calls
    <3>3. QED
      BY <2>1, <3>2 DEF WillOpenBound, BoundBy
  <2>6. TokenGiven(r)' /\ DeadToken(r)'
    BY <1>0, <2>1, <2>2, <2>3, TokenStays DEF TokenGiven, DeadToken, Opened, Kind
  <2>7. ComesTooLate(r)'
    BY <1>0, <2>2, InTimeStays
  <2>8. EntityChanged(r)' /\ EntityHolds(r)' /\ AnsweredHolds(r)' /\ WriteHolds(r)'
    BY <2>2 DEF EntityChanged, EntityHolds, HasColumns, AnsweredHolds, WriteHolds
  <2>9. QED
    BY <1>0, <2>1, <2>4, <2>5, <2>6, <2>7, <2>8, QuietStep
<1>3. QED
  BY <1>1, <1>2 DEF LoadUser

\* Whoever revokes a token, and however often, leaves it dead.
LEMMA RevokePreserves ==
    ASSUME IInv, NEW r \in Requests, Revoke(r)
    PROVE  IInv'
<1> DEFINE t == Ask[r].token
<1>0. /\ at[r] = "revoke" /\ r \in InFlight /\ Sound(r) /\ UNCHANGED <<users, before>>
      /\ sessions' = [sessions EXCEPT ![t].revoked = TRUE]
  BY DEF Revoke, Revoked, InFlight, Over, IInv
<1>1. PICK call \in {"open", "answered", "failed"} :
          GoTo(r, call) /\ (call = "open" <=> Kind(r) = "refresh")
  BY DEF Revoke
<1>2. Moved(r, call) /\ at'[r] = call /\ (call = "open" => got'[r] = got[r])
  BY <1>1, GoToMoves DEF Calls, Over, Moved
<1>3. /\ Kind(r) \in Ending /\ t \in Requests \ {r} /\ Opened(t)
      /\ at'[t] = "answered" /\ ~Opened(r)
  BY <1>0, <1>2, TokenStays DEF Sound, StageOfKind, TokenGiven, InsertsLast, Opened, Over
<1>4. sessions[t] \in SessionRow
  BY <1>3 DEF IInv, TypeOK, Opened
<1>5. /\ sessions'[t] \in SessionRow
      /\ sessions'[t].user = sessions[t].user
      /\ sessions'[t].revoked
      /\ \A s \in Requests \ {t} : sessions'[s] = sessions[s]
      /\ sessions' \in [Requests -> SessionRow \cup {None}]
  BY <1>0, <1>3, <1>4 DEF SessionRow, IInv, TypeOK
<1>6. sessions[t] # None /\ sessions'[t] # None
  BY <1>4, <1>5, SessionsAssumption
<1>7. TypeOK' /\ DOMAIN got' = Requests
  BY <1>0, <1>2, <1>3, <1>5, <1>6 DEF IInv, TypeOK, Registered, Moved
<1>8. Stable
  BY <1>0, <1>2, <1>3, <1>5, <1>6 DEF Stable, Moved, Registered, Opened, Active, InFlight, Over
<1>9. ASSUME NEW q \in Requests \ {r}
      PROVE  Sound(q)' /\ AnsweredHolds(q)' /\ WriteHolds(q)'
  <2>1. Same(q)
    BY <1>0, <1>2, <1>5, <1>6 DEF Same, Moved, Opened
  <2>2. QED
    BY <1>0, <1>8, <2>1, OthersSound, OthersHold
<1>10. Sound(r)'
  <2>1. StageOfKind(r)' /\ CarriesRows(r)'
    BY <1>0, <1>1, <1>2 DEF Sound, StageOfKind, CarriesRows, HasUser, HasColumns, Registered,
       Kind, Opening
  <2>2. InsertsLast(r)' /\ OpenedBound(r)'
    BY <1>1, <1>2, <1>3, <1>5 DEF InsertsLast, OpenedBound, Opened
  <2>3. BeganAfter(r)'
    BY <1>0, <1>1, <1>2, <1>8, BeforeStays DEF Sound, BeganAfter
  <2>4. TokenGiven(r)' /\ DeadToken(r)'
    BY <1>1, <1>2, <1>3, <1>5 DEF TokenGiven, DeadToken, Active, Kind
  <2>5. ComesTooLate(r)'
    BY <1>0, <1>8, InTimeStays
  <2>6. EntityChanged(r)' /\ EntityHolds(r)'
    BY <1>1, <1>2 DEF EntityChanged, EntityHolds, HasColumns
  <2>7. WillOpenBound(r)'
    <3>1. PICK u : u = got[r]
      OBVIOUS
    <3> SUFFICES ASSUME call = "open"
                 PROVE  BoundBy(r, u)'
      BY <1>1, <1>2, <3>1 DEF WillOpenBound, HasUser, BoundBy
    <3>2. BoundBy(r, u)
      BY <1>0, <1>1, <3>1 DEF Sound, WillOpenBound, HasUser
    <3>3. QED
      BY <1>0, <1>8, <3>2, BoundStays DEF BoundBy, Holds, Updates, Relied, Kind
  <2>8. QED
    BY <2>1, <2>2, <2>3, <2>4, <2>5, <2>6, <2>7 DEF Sound
<1>11. AnsweredHolds(r)' /\ WriteHolds(r)'
  BY <1>1, <1>2, <1>3 DEF AnsweredHolds, WriteHolds, Kind, Ending
<1>12. QED
  BY <1>7, <1>9, <1>10, <1>11 DEF IInv

-----------------------------------------------------------------------------
(* Update a user *)

LEMMA RowIsChange ==
    ASSUME NEW row \in UserRow
    PROVE  IsChange(row) /\ DOMAIN row = Columns
BY DEF UserRow, IsChange, Columns

LEMMA MergedRow ==
    ASSUME NEW change, IsChange(change), NEW row \in UserRow
    PROVE  /\ Merged(change, row) \in UserRow
           /\ \A c \in Columns :
                 Merged(change, row)[c] = IF c \in DOMAIN change THEN change[c] ELSE row[c]
<1>1. \A c \in Columns :
          Merged(change, row)[c] = IF c \in DOMAIN change THEN change[c] ELSE row[c]
  BY DEF Merged
<1>2. Merged(change, row) \in UserRow
  <2> DEFINE m == Merged(change, row)
  <2>1. m["email"] \in Emails /\ m["password"] \in Passwords /\ m["active"] \in BOOLEAN
    BY <1>1 DEF IsChange, UserRow, Columns
  <2>2. m = [c \in Columns |-> m[c]]
    BY DEF Merged
  <2> HIDE DEF m
  <2>3. m = [email |-> m["email"], password |-> m["password"], active |-> m["active"]]
    BY <2>2 DEF Columns
  <2>4. QED
    BY <2>1, <2>3 DEF UserRow, m
<1>3. QED
  BY <1>1, <1>2

LEMMA UpdateAsks ==
    ASSUME NEW r \in Requests, Kind(r) = "update"
    PROVE  Ask[r].user \in Requests /\ IsChange(Ask[r].change) /\ r \in Updates(Ask[r].user)
BY SessionsAssumption DEF IsAsk, Kind, Ending, Updates

LEMMA ReadUserPreserves ==
    ASSUME IInv, NEW r \in Requests, ReadUser(r)
    PROVE  IInv'
<1> DEFINE u == Ask[r].user
           new == Merged(Ask[r].change, users[u])
<1>0. at[r] = "read" /\ r \in InFlight /\ Sound(r) /\ UNCHANGED <<users, sessions, before>>
  BY DEF ReadUser, InFlight, Over, IInv
<1>1. CASE GoTo(r, "failed")
  BY <1>0, <1>1, FailedStep
<1>2. ASSUME u \in Registered, NEW call \in {"taken", "diff"}, GoOnWith(r, call, new)
      PROVE  IInv'
  <2>1. Kind(r) = "update" /\ u \in Requests /\ users[u] \in UserRow
    BY <1>0, <1>2 DEF Sound, StageOfKind, IInv, TypeOK, Registered
  <2>2. /\ new \in UserRow
        /\ \A c \in Columns :
              new[c] = IF c \in DOMAIN Ask[r].change THEN Ask[r].change[c] ELSE users[u][c]
    BY <2>1, UpdateAsks, MergedRow
  <2> HIDE DEF new
  <2>3. Moved(r, call) /\ got'[r] = new /\ call \in Calls \cup Over
    BY <1>2, GoOnMoves DEF Calls
  <2>4. Stable /\ at'[r] = call /\ before'[r] = before[r]
    BY <1>0, <2>3, QuietStable
  <2>5. IsChange(new) /\ DOMAIN new = Columns
    BY <2>2, RowIsChange
  <2>6. StageOfKind(r)' /\ TokenGiven(r)' /\ DeadToken(r)' /\ ComesTooLate(r)'
        /\ WillOpenBound(r)' /\ AnsweredHolds(r)' /\ WriteHolds(r)'
    BY <1>2, <2>1, <2>4 DEF StageOfKind, TokenGiven, DeadToken, ComesTooLate, WillOpenBound,
       HasUser, AnsweredHolds, WriteHolds, Kind, Ending
  <2>7. CarriesRows(r)'
    BY <1>0, <1>2, <2>3, <2>4, <2>5 DEF CarriesRows, HasUser, HasColumns, Registered, IsChange
  <2>8. EntityChanged(r)'
    BY <2>2, <2>3, <2>5 DEF EntityChanged
  <2>9. EntityHolds(r)'
    <3> SUFFICES ASSUME NEW q \in Updates(u) \cap before[r], at'[q] = "answered",
                        NEW c \in DOMAIN Ask[q].change, c \in DOMAIN new,
                        c \notin DOMAIN Ask[r].change
                 PROVE  new[c] = Ask[q].change[c] \/ Excused(q, c)'
      BY <2>3, <2>4 DEF EntityHolds, Holds, Updates
    <3>1. q \in Requests /\ at[q] = "answered" /\ Kind(q) = "update" /\ Ask[q].user = u
      BY <2>4, BeforeStays DEF Updates
    <3>2. Holds(q, users[u], c)
      BY <3>1 DEF IInv, AnsweredHolds
    <3>3. new[c] = users[u][c]
      BY <2>2, <2>5
    <3>4. QED
      BY <2>4, <3>1, <3>2, <3>3, HoldsStays
  <2>10. QED
    BY <1>0, <1>2, <2>3, <2>6, <2>7, <2>8, <2>9, QuietStep
<1>3. QED
  BY <1>1, <1>2 DEF ReadUser

\* The entity of a request that moves without changing a row, or a part of it,
\* still says what the updates answered before wrote.
LEMMA EntityStillHolds ==
    ASSUME IInv, Stable, NEW r \in Requests, HasColumns(r), before'[r] = before[r],
           DOMAIN got'[r] \subseteq DOMAIN got[r],
           \A c \in DOMAIN got'[r] : got'[r][c] = got[r][c]
    PROVE  EntityHolds(r)' /\ EntityChanged(r)'
<1>0. Sound(r)
  BY DEF IInv
<1>1. EntityHolds(r)'
  <2> SUFFICES ASSUME NEW q \in Updates(Ask[r].user) \cap before[r], at'[q] = "answered",
                      NEW c \in DOMAIN Ask[q].change, c \in DOMAIN got'[r],
                      c \notin DOMAIN Ask[r].change
               PROVE  got'[r][c] = Ask[q].change[c] \/ Excused(q, c)'
    BY DEF EntityHolds, Holds, Updates
  <2>1. q \in Requests /\ at[q] = "answered"
    BY BeforeStays
  <2>2. Holds(q, got[r], c)
    BY <1>0, <2>1 DEF Sound, EntityHolds
  <2>3. QED
    BY <2>1, <2>2, HoldsStays
<1>2. EntityChanged(r)'
  BY <1>0 DEF Sound, EntityChanged
<1>3. QED
  BY <1>1, <1>2

LEMMA TakenPreserves ==
    ASSUME IInv, NEW r \in Requests, Taken(r)
    PROVE  IInv'
<1>0. at[r] = "taken" /\ r \in InFlight /\ Sound(r) /\ UNCHANGED <<users, sessions, before>>
  BY DEF Taken, InFlight, Over, IInv
<1>1. CASE GoTo(r, "failed")
  BY <1>0, <1>1, FailedStep
<1>2. CASE GoTo(r, "diff")
  <2>1. Moved(r, "diff") /\ got'[r] = got[r] /\ "diff" \in Calls \cup Over
    BY <1>2, GoToMoves DEF Calls, Over
  <2>2. Stable /\ at'[r] = "diff" /\ before'[r] = before[r]
    BY <1>0, <2>1, QuietStable
  <2>3. Kind(r) = "update" /\ HasColumns(r)
    BY <1>0 DEF Sound, StageOfKind, HasColumns
  <2>4. StageOfKind(r)' /\ TokenGiven(r)' /\ DeadToken(r)' /\ ComesTooLate(r)'
        /\ WillOpenBound(r)' /\ AnsweredHolds(r)' /\ WriteHolds(r)'
    BY <2>2, <2>3 DEF StageOfKind, TokenGiven, DeadToken, ComesTooLate, WillOpenBound,
       HasUser, AnsweredHolds, WriteHolds, Kind, Ending
  <2>5. CarriesRows(r)'
    BY <1>0, <2>1, <2>2, <2>3 DEF Sound, CarriesRows, HasUser, HasColumns, Registered, IsChange
  <2>6. EntityHolds(r)' /\ EntityChanged(r)'
    BY <2>1, <2>2, <2>3, EntityStillHolds
  <2>7. QED
    BY <1>0, <2>1, <2>4, <2>5, <2>6, QuietStep
<1>3. QED
  BY <1>1, <1>2 DEF Taken

\* A column that save finds as the entity has it is not written: if the request
\* asked for it, it is right.
LEMMA DiffPreserves ==
    ASSUME IInv, NEW r \in Requests, Diff(r)
    PROVE  IInv'
<1> DEFINE u == Ask[r].user
           part == [c \in {d \in Columns : got[r][d] # users[u][d]} |-> got[r][c]]
<1>0. /\ at[r] = "diff" /\ r \in InFlight /\ Sound(r) /\ UNCHANGED <<users, sessions, before>>
      /\ GoOnWith(r, "write", part)
  BY DEF Diff, InFlight, Over, IInv
<1>1. /\ DOMAIN part \subseteq Columns
      /\ \A c \in DOMAIN part : part[c] = got[r][c]
      /\ \A c \in Columns \ DOMAIN part : got[r][c] = users[u][c]
  OBVIOUS
<1> HIDE DEF part
<1>2. Moved(r, "write") /\ got'[r] = part /\ "write" \in Calls \cup Over
  BY <1>0, GoOnMoves DEF Calls
<1>3. Stable /\ at'[r] = "write" /\ before'[r] = before[r]
  BY <1>0, <1>2, QuietStable
<1>4. Kind(r) = "update" /\ HasColumns(r) /\ DOMAIN got[r] = Columns /\ IsChange(got[r])
      /\ u \in Registered
  BY <1>0 DEF Sound, StageOfKind, HasColumns, CarriesRows
<1>5. StageOfKind(r)' /\ TokenGiven(r)' /\ DeadToken(r)' /\ ComesTooLate(r)'
      /\ WillOpenBound(r)' /\ AnsweredHolds(r)'
  BY <1>3, <1>4 DEF StageOfKind, TokenGiven, DeadToken, ComesTooLate, WillOpenBound,
     HasUser, AnsweredHolds, Kind, Ending
<1>6. CarriesRows(r)'
  <2>1. IsChange(part)
    BY <1>1, <1>4 DEF IsChange
  <2>2. QED
    BY <1>0, <1>2, <1>3, <1>4, <2>1 DEF CarriesRows, HasUser, Registered, IsChange
<1>7. EntityHolds(r)' /\ EntityChanged(r)'
  BY <1>1, <1>2, <1>3, <1>4, EntityStillHolds
<1>8. WriteHolds(r)'
  <2> SUFFICES ASSUME NEW c \in DOMAIN Ask[r].change \ DOMAIN part
               PROVE  users[u][c] = Ask[r].change[c]
    BY <1>0, <1>2 DEF WriteHolds, Holds
  <2>1. c \in Columns
    BY <1>4, UpdateAsks DEF IsChange
  <2>2. got[r][c] = users[u][c] /\ got[r][c] = Ask[r].change[c]
    BY <1>0, <1>1, <1>4, <2>1 DEF Sound, EntityChanged
  <2>3. QED
    BY <2>2
<1>9. QED
  BY <1>0, <1>2, <1>5, <1>6, <1>7, <1>8, QuietStep

\* The whole-row save of r may put an old value back into a column that another
\* update q of the user changed, but only if the two overlapped.
LEMMA SaveHolds ==
    ASSUME IInv, Stable, NEW r \in Requests, at[r] = "write",
           NEW q \in Updates(Ask[r].user) \ {r}, at[q] \in {"answered", "write"},
           NEW c \in DOMAIN Ask[q].change, NEW row,
           row[c] = IF c \in DOMAIN got[r] THEN got[r][c] ELSE users[Ask[r].user][c],
           c \in DOMAIN got[r] \/ Holds(q, users[Ask[r].user], c)
    PROVE  row[c] = Ask[q].change[c] \/ Excused(q, c)'
<1>0. /\ Sound(r) /\ Sound(q) /\ q \in Requests /\ Ask[q].user = Ask[r].user
      /\ r \in Updates(Ask[r].user)
  BY DEF IInv, Updates, Sound, StageOfKind
<1>1. CASE c \notin DOMAIN got[r]
  BY <1>0, <1>1, HoldsStays DEF Holds
<1>2. CASE c \in DOMAIN got[r] /\ (c \in DOMAIN Ask[r].change \/ q \notin before[r])
  <2>1. r \notin before[q]
    BY <1>0 DEF Sound, BeganAfter, Over
  <2>2. Excused(q, c)
    BY <1>0, <1>2, <2>1 DEF Excused
  <2>3. QED
    BY <1>0, <2>2, ExcusedStays
<1>3. CASE c \in DOMAIN got[r] /\ c \notin DOMAIN Ask[r].change /\ q \in before[r]
  <2>1. at[q] = "answered"
    BY <1>0, <1>3 DEF Sound, BeganAfter, Over
  <2>2. Holds(q, got[r], c)
    BY <1>0, <1>3, <2>1 DEF Sound, EntityHolds, HasColumns
  <2>3. QED
    BY <1>0, <1>3, <2>1, <2>2, HoldsStays DEF Holds
<1>4. QED
  BY <1>1, <1>2, <1>3

LEMMA WriteUserPreserves ==
    ASSUME IInv, NEW r \in Requests, WriteUser(r)
    PROVE  IInv'
<1>0. /\ at[r] = "write" /\ r \in InFlight /\ Sound(r) /\ WriteHolds(r)
      /\ UNCHANGED <<sessions, before>>
  BY DEF WriteUser, InFlight, Over, IInv
<1>1. CASE GoTo(r, "failed") /\ UNCHANGED users
  BY <1>0, <1>1, FailedStep
<1>2. ASSUME ~EmailStolen(r), users' = [users EXCEPT ![Ask[r].user] = SavedRow(r)],
             NEW out \in {"answered", "failed"}, GoTo(r, out)
      PROVE  IInv'
  <2> DEFINE u == Ask[r].user
             row == SavedRow(r)
  <2>1. Moved(r, out) /\ at'[r] = out
    BY <1>2, GoToMoves DEF Over, Moved
  <2>2. /\ Kind(r) = "update" /\ u \in Registered /\ u \in Requests
        /\ IsChange(got[r]) /\ users[u] \in UserRow /\ ~Opened(r)
    BY <1>0 DEF Sound, StageOfKind, CarriesRows, HasColumns, InsertsLast, Opened, Over, IInv,
       TypeOK, Registered
  <2>3. /\ row \in UserRow /\ row # None
        /\ \A c \in Columns :
              row[c] = IF c \in DOMAIN got[r] THEN got[r][c] ELSE users[u][c]
    BY <2>2, MergedRow, SessionsAssumption DEF SavedRow
  <2>4. \A v \in Registered \ {u} : users[v].email # row.email
    BY <1>2 DEF EmailStolen
  <2>5. users' = [users EXCEPT ![u] = row]
    BY <1>2
  <2> HIDE DEF row
  <2>6. /\ users'[u] = row /\ \A v \in Requests \ {u} : users'[v] = users[v]
        /\ users' \in [Requests -> UserRow \cup {None}]
    BY <2>2, <2>3, <2>5 DEF IInv, TypeOK
  <2>7. Registered' = Registered
    BY <2>2, <2>3, <2>6 DEF Registered
  <2>8. TypeOK' /\ DOMAIN got' = Requests
    <3>1. \A v, w \in Registered' : users'[v].email = users'[w].email => v = w
      BY <2>4, <2>6, <2>7 DEF IInv, TypeOK, Registered
    <3>2. QED
      BY <1>0, <2>1, <2>6, <2>7, <3>1 DEF IInv, TypeOK, Moved
  <2>9. Stable
    BY <1>0, <2>1, <2>7 DEF Stable, Moved, Opened, Active, Over
  <2>10. ASSUME NEW q \in Requests \ {r} PROVE Same(q)
    <3>1. at[q] \in {"new", "exists", "insert"} => q # u
      BY <2>2 DEF IInv, Sound, InsertsLast, Registered
    <3>2. QED
      BY <1>0, <2>1, <2>6, <3>1 DEF Same, Moved, Opened
  <2>11. ASSUME NEW q \in Requests \ {r} PROVE Sound(q)'
    BY <2>9, <2>10, OthersSound
  <2>12. ASSUME NEW q \in Requests, Kind(q) = "update", NEW c \in DOMAIN Ask[q].change,
                Ask[q].user \in Registered, Ask[q].user # u,
                at[q] # "new", Holds(q, users[Ask[q].user], c)
         PROVE  Holds(q, users[Ask[q].user], c)'
    <3>1. users'[Ask[q].user] = users[Ask[q].user]
      BY <2>6, <2>12 DEF Registered
    <3>2. QED
      BY <2>9, <2>12, <3>1, HoldsStays DEF Holds
  <2>13. ASSUME NEW q \in Requests \ {r}, Kind(q) = "update", NEW c \in DOMAIN Ask[q].change,
                Ask[q].user = u, at[q] \in {"answered", "write"}, Holds(q, users[u], c)
         PROVE  Holds(q, users[u], c)'
    <3>1. q \in Updates(u) \ {r}
      BY <2>13 DEF Updates, Kind
    <3>2. c \in Columns
      BY <2>13, UpdateAsks DEF IsChange
    <3>3. row[c] = Ask[q].change[c] \/ Excused(q, c)'
      BY <1>0, <2>3, <2>9, <2>13, <3>1, <3>2, SaveHolds
    <3>4. QED
      BY <2>6, <3>3 DEF Holds
  <2>14. ASSUME NEW q \in Requests \ {r} PROVE AnsweredHolds(q)'
    <3> SUFFICES ASSUME Kind(q) = "update", at[q] = "answered"
                 PROVE  /\ Ask[q].user \in Registered
                        /\ \A c \in DOMAIN Ask[q].change : Holds(q, users[Ask[q].user], c)'
      BY <2>7, <2>10 DEF AnsweredHolds, Same, Kind
    <3>1. /\ Ask[q].user \in Registered
          /\ \A c \in DOMAIN Ask[q].change : Holds(q, users[Ask[q].user], c)
      BY DEF IInv, AnsweredHolds
    <3>2. QED
      BY <2>12, <2>13, <3>1
  <2>15. ASSUME NEW q \in Requests \ {r} PROVE WriteHolds(q)'
    <3> SUFFICES ASSUME at[q] = "write", NEW c \in DOMAIN Ask[q].change \ DOMAIN got[q]
                 PROVE  Holds(q, users[Ask[q].user], c)'
      BY <2>10 DEF WriteHolds, Same
    <3>1. /\ Ask[q].user \in Registered /\ Kind(q) = "update"
          /\ Holds(q, users[Ask[q].user], c)
      BY DEF IInv, Sound, StageOfKind, CarriesRows, HasColumns, WriteHolds
    <3>2. QED
      BY <2>12, <2>13, <3>1
  <2>16. Sound(r)'
    <3>1. StageOfKind(r)' /\ CarriesRows(r)' /\ InsertsLast(r)' /\ WillOpenBound(r)'
          /\ EntityChanged(r)' /\ EntityHolds(r)'
      BY <2>1 DEF StageOfKind, CarriesRows, HasUser, HasColumns, InsertsLast, Over,
         WillOpenBound, EntityChanged, EntityHolds
    <3>2. BeganAfter(r)'
      BY <1>0, <2>1, <2>9, BeforeStays DEF Sound, BeganAfter
    <3>3. TokenGiven(r)' /\ DeadToken(r)' /\ ComesTooLate(r)'
      BY <2>2 DEF TokenGiven, DeadToken, ComesTooLate, Kind, Ending
    <3>4. OpenedBound(r)'
      BY <1>0, <2>2 DEF OpenedBound, Opened
    <3>5. QED
      BY <3>1, <3>2, <3>3, <3>4 DEF Sound
  <2>17. AnsweredHolds(r)'
    <3> SUFFICES ASSUME NEW c \in DOMAIN Ask[r].change
                 PROVE  row[c] = Ask[r].change[c] \/ Excused(r, c)'
      BY <2>2, <2>6, <2>7 DEF AnsweredHolds, Holds
    <3>1. c \in Columns
      BY <2>2, UpdateAsks DEF IsChange
    <3>2. CASE c \in DOMAIN got[r]
      BY <1>0, <2>3, <3>1, <3>2 DEF Sound, EntityChanged, HasColumns
    <3>3. CASE c \notin DOMAIN got[r]
      <4>1. Holds(r, users[u], c)
        BY <1>0, <3>3 DEF WriteHolds
      <4>2. users[u][c] = Ask[r].change[c] \/ Excused(r, c)'
        BY <1>0, <2>9, <4>1, HoldsStays
      <4>3. QED
        BY <2>3, <3>1, <3>3, <4>2
    <3>4. QED
      BY <3>2, <3>3
  <2>18. WriteHolds(r)'
    BY <2>1 DEF WriteHolds
  <2>19. QED
    BY <2>8, <2>11, <2>14, <2>15, <2>16, <2>17, <2>18 DEF IInv
<1>3. QED
  BY <1>1, <1>2 DEF WriteUser

-----------------------------------------------------------------------------
(* The theorems *)

LEMMA NextPreserves == IInv /\ [Next]_vars => IInv'
<1> SUFFICES ASSUME IInv, [Next]_vars PROVE IInv'
  OBVIOUS
<1>1. CASE Next
  BY <1>1, BeginPreserves, FailPreserves, ExpirePreserves, ExistsPreserves, InsertPreserves,
     CheckPreserves, OpenPreserves, FindPreserves, LoadUserPreserves, RevokePreserves,
     ReadUserPreserves, TakenPreserves, DiffPreserves, WriteUserPreserves DEF Next
<1>2. CASE UNCHANGED vars
  <2> USE <1>2 DEF vars
  <2>1. TypeOK' /\ DOMAIN got' = Requests /\ Stable
    BY DEF IInv, TypeOK, Registered, Stable, Opened, Active
  <2>2. ASSUME NEW q \in Requests
        PROVE  Sound(q)' /\ AnsweredHolds(q)' /\ WriteHolds(q)'
    <3>1. Same(q)
      BY DEF Same, Opened
    <3>2. QED
      BY <2>1, <3>1, OthersSound, OthersHold
  <2>3. QED
    BY <2>1, <2>2 DEF IInv
<1>3. QED
  BY <1>1, <1>2

LEMMA Inductive == Spec => []IInv
BY InitEstablishes, NextPreserves, PTL DEF Spec

\* Every reachable state has the types of TypeOK: one user per email, whoever
\* registers or changes an email at the same time, and no orphan session.
THEOREM SessionsTypes == Spec => []TypeOK
<1>1. IInv => TypeOK
  BY DEF IInv
<1>2. QED
  BY <1>1, Inductive, PTL

\* A refresh that begins when a logout or another refresh of its token has been
\* answered opens no session (AuthService.refresh, logout), for what an answered
\* one leaves is a revoked or expired row (DeadToken).
THEOREM EndedForGood == Spec => []TokensEndForGood
<1>1. IInv => TokensEndForGood
  BY DEF IInv, Sound, ComesTooLate, TokensEndForGood
<1>2. QED
  BY <1>1, Inductive, PTL

\* An answered update of a user binds every login and refresh that begins later,
\* except where another update overlapped it or changed the column again
\* (UsersService.updateUser): the invariant follows the written value through
\* the rows that overlapping requests have read and may still write back.
THEOREM UpdatesBind == Spec => []UpdatesStick
<1>1. IInv => UpdatesStick
  <2> SUFFICES ASSUME IInv, NEW r \in Requests, Opened(r), Kind(r) # "register",
                      NEW q \in Updates(sessions[r].user) \cap before[r], at[q] = "answered",
                      NEW c \in DOMAIN Ask[q].change \cap DOMAIN Relied(r)
               PROVE  \/ Relied(r)[c] = Ask[q].change[c]
                      \/ \E x \in Updates(sessions[r].user) \ (before[q] \cup {q}) :
                            /\ at[x] # "new"
                            /\ c \in DOMAIN Ask[x].change \/ q \notin before[x]
    BY DEF UpdatesStick
  <2>1. Holds(q, Relied(r), c)
    BY DEF IInv, Sound, OpenedBound, BoundBy
  <2>2. Ask[q].user = sessions[r].user
    BY DEF Updates
  <2>3. QED
    BY <2>1, <2>2 DEF Holds, Excused
<1>2. QED
  BY <1>1, Inductive, PTL
=============================================================================
