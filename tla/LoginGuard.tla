----------------------------- MODULE LoginGuard -----------------------------
(***************************************************************************)
(* Registration and login: the gateway's handlers (routes/auth.ts) behind  *)
(* the limiter of one address (rateLimit.ts), the failure counter of one   *)
(* e-mail address in Redis, and the auth service, whose checks and INSERT  *)
(* are separate queries of a transaction (AuthService.java).  A client     *)
(* sends one request at a time, again and again.                           *)
(***************************************************************************)
EXTENDS Naturals, FiniteSets

CONSTANTS
    Clients,
    Accounts,    \* what registrations ask for: [email, name]
    FailMax,     \* LOGIN_FAIL_MAX
    FailLock,    \* LOGIN_FAIL_LOCK_S, in ticks
    RateMax,     \* requests of an address in a window
    MaxBlind     \* bound: calls of Redis that fail

GuardAssumption ==
    /\ IsFiniteSet(Clients) /\ Accounts # {}
    /\ FailMax \in Nat \ {0} /\ FailLock \in Nat \ {0}
    /\ RateMax \in Nat \ {0} /\ MaxBlind \in Nat

VARIABLES
    users,   \* the table users: account and the client that registered it
    fails,   \* the failure counter: [n, ttl]
    rate,    \* the limiter's counter
    at,      \* each client's request
    told,    \* the accounts whose registration was answered 200, by client
    blind    \* failed calls of Redis

vars == <<users, fails, rate, at, told, blind>>

Gone == [n |-> 0, ttl |-> 0]
Idle == [pc |-> "idle", asks |-> CHOOSE a \in Accounts : TRUE]

Init ==
    /\ users = {} /\ fails = Gone /\ rate = Gone
    /\ at = [c \in Clients |-> Idle]
    /\ told = {} /\ blind = 0

Goto(c, label) == at' = [at EXCEPT ![c].pc = label]
Answered(c) == at' = [at EXCEPT ![c] = Idle]
RedisFails == blind < MaxBlind /\ blind' = blind + 1

\* The Lua script: INCR, and EXPIRE for a new key; the count is of interest up to max + 1.
Counted(counter, max, ttl) ==
    [n |-> IF counter.n > max THEN counter.n ELSE counter.n + 1,
     ttl |-> IF counter.n = 0 THEN ttl ELSE counter.ttl]

\* createRateLimiter for /register and /login: 429 above the limit, 503 without Redis
\* (the client is idle again); otherwise the request goes on.
Limited(c, label, asks) ==
    /\ at[c].pc = "idle"
    /\ \/ /\ rate' = Counted(rate, RateMax, 1)
          /\ at' = IF rate.n >= RateMax THEN at
                   ELSE [at EXCEPT ![c] = [pc |-> label, asks |-> asks]]
          /\ UNCHANGED blind
       \/ RedisFails /\ UNCHANGED <<rate, at>>
    /\ UNCHANGED <<users, fails, told>>

-----------------------------------------------------------------------------
(* POST /login                                                             *)

Login(c) == Limited(c, "check", Idle.asks)

\* Mutated: one failure more.
CheckLoginLock_OffByOne(c) ==
    /\ at[c].pc = "check"
    /\ \/ /\ IF fails.n > FailMax THEN Answered(c) ELSE Goto(c, "auth")
          /\ UNCHANGED blind
       \/ RedisFails /\ Goto(c, "auth")
    /\ UNCHANGED <<users, fails, rate, told>>

\* checkLoginLock: 429 when the counter has reached the maximum; without Redis the
\* login goes on.
CheckLoginLock(c) ==
    /\ at[c].pc = "check"
    /\ \/ /\ IF fails.n >= FailMax THEN Answered(c) ELSE Goto(c, "auth")
          /\ UNCHANGED blind
       \/ RedisFails /\ Goto(c, "auth")
    /\ UNCHANGED <<users, fails, rate, told>>

\* AuthService.login: the user and the password match, or 401; a timeout is neither.
Authenticate(c) ==
    /\ at[c].pc = "auth"
    /\ \/ Goto(c, "ban")
       \/ Goto(c, "record")
       \/ Answered(c)
    /\ UNCHANGED <<users, fails, rate, told, blind>>

\* getBanInfo: 403 for a banned user, who gets no cookie and keeps the counter.
CheckBan(c) ==
    /\ at[c].pc = "ban"
    /\ Answered(c) \/ Goto(c, "clear")
    /\ UNCHANGED <<users, fails, rate, told, blind>>

ClearLoginFailures(c) ==
    /\ at[c].pc = "clear"
    /\ \/ fails' = Gone /\ UNCHANGED blind
       \/ RedisFails /\ UNCHANGED fails
    /\ Answered(c)
    /\ UNCHANGED <<users, rate, told>>

\* Mutated: INCR and EXPIRE are two commands, and the second is not reached.
RecordLoginFailure_TwoCommands(c) ==
    /\ at[c].pc = "record"
    /\ fails' = [fails EXCEPT !.n = Counted(fails, FailMax + Cardinality(Clients) + MaxBlind, 0).n]
    /\ Answered(c)
    /\ UNCHANGED <<users, rate, told, blind>>

\* INCR, and EXPIRE with the first failure, as one script.
RecordLoginFailure(c) ==
    /\ at[c].pc = "record"
    /\ \/ fails' = Counted(fails, FailMax + Cardinality(Clients) + MaxBlind, FailLock)
          /\ UNCHANGED blind
       \/ RedisFails /\ UNCHANGED fails
    /\ Answered(c)
    /\ UNCHANGED <<users, rate, told>>

-----------------------------------------------------------------------------
(* POST /register                                                          *)

Register(c) == \E a \in Accounts : Limited(c, "byEmail", a)

\* findByEmail and findByUsername: 409.
FindUser(c) ==
    /\ \/ at[c].pc = "byEmail"
          /\ IF \E u \in users : u.account.email = at[c].asks.email
             THEN Answered(c) ELSE Goto(c, "byName")
       \/ at[c].pc = "byName"
          /\ IF \E u \in users : u.account.name = at[c].asks.name
             THEN Answered(c) ELSE Goto(c, "insert")
    /\ UNCHANGED <<users, fails, rate, told, blind>>

\* Mutated: the table has no unique constraint on the name.
Create_NameNotUnique(c) ==
    LET a == at[c].asks IN
    /\ at[c].pc = "insert"
    /\ IF \E u \in users : u.account.email = a.email THEN UNCHANGED <<users, told>>
       ELSE /\ users' = users \cup {[account |-> a, by |-> c]}
            /\ told' \in {told, told \cup {[account |-> a, by |-> c]}}
    /\ Answered(c)
    /\ UNCHANGED <<fails, rate, blind>>

\* INSERT: the unique constraints decide, and a violation is 409.  A gateway that has
\* given up after 5 s answers 500 for an account that exists.
Create(c) ==
    LET a == at[c].asks
        taken == \E u \in users : u.account.email = a.email \/ u.account.name = a.name
    IN  /\ at[c].pc = "insert"
        /\ IF taken THEN UNCHANGED <<users, told>>
           ELSE /\ users' = users \cup {[account |-> a, by |-> c]}
                /\ told' \in {told, told \cup {[account |-> a, by |-> c]}}
        /\ Answered(c)
        /\ UNCHANGED <<fails, rate, blind>>

-----------------------------------------------------------------------------
\* A tick of Redis: keys run out.
Aged(counter) == IF counter.ttl = 1 THEN Gone
                 ELSE IF counter.ttl = 0 THEN counter ELSE [counter EXCEPT !.ttl = @ - 1]

Tick ==
    /\ fails' = Aged(fails) /\ rate' = Aged(rate)
    /\ <<fails', rate'>> # <<fails, rate>>
    /\ UNCHANGED <<users, at, told, blind>>

Next ==
    \/ Tick
    \/ \E c \in Clients :
          \/ Login(c) \/ CheckLoginLock(c) \/ Authenticate(c) \/ CheckBan(c)
          \/ ClearLoginFailures(c) \/ RecordLoginFailure(c)
          \/ Register(c) \/ FindUser(c) \/ Create(c)

\* Time passes.
GuardFairness == WF_vars(Tick)

Spec == Init /\ [][Next]_vars /\ GuardFairness

-----------------------------------------------------------------------------
\* Every variable keeps its type.
TypeOK ==
    /\ users \cup told \subseteq [account : Accounts, by : Clients]
    /\ fails \in [n : Nat, ttl : 0..FailLock]
    /\ rate \in [n : 0..RateMax + 1, ttl : 0..1]
    /\ at \in [Clients -> [pc : {"idle", "check", "auth", "ban", "clear", "record",
                                 "byEmail", "byName", "insert"},
                            asks : Accounts]]
    /\ blind \in 0..MaxBlind

\* An address and a name belong to one user, and whoever is told that the registration
\* succeeded owns both, however the checks of two registrations interleave.
RegisteredOnce ==
    /\ told \subseteq users
    /\ \A u, v \in users :
          (u.account.email = v.account.email \/ u.account.name = v.account.name) => u = v

\* Within the life of the counter no more passwords of one e-mail are tried than the
\* maximum, plus the requests that were under way when it was reached, plus those that
\* Redis could not be asked about.
GuessesBounded == fails.n <= FailMax - 1 + Cardinality(Clients) + blind

\* Nobody is locked out for ever: the failure counter does not stay at its limit, whatever
\* logins, registrations and failures of Redis come in between.
LockEnds == fails.n >= FailMax ~> fails.n < FailMax
=============================================================================
