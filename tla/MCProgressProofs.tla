--------------------------- MODULE MCProgressProofs ---------------------------
(***************************************************************************)
(* Theorems about the components of MCProgress, for every value of their   *)
(* constants.  Each component is proved as it stands in its own module;    *)
(* what is proved of it holds in every behaviour of PartsSpec, in which it *)
(* runs or stays where it starts.                                          *)
(***************************************************************************)
EXTENDS MCProgress, FiniteSetTheorems, TLAPS

\* Putting one element in a finite set, or taking it out, as a change of the cardinality.
LEMMA CardOfUpdate ==
    ASSUME NEW S, IsFiniteSet(S), NEW x
    PROVE  /\ Cardinality(S) \in Nat
           /\ Cardinality(S \cup {x}) = Cardinality(S) + (IF x \in S THEN 0 ELSE 1)
           /\ Cardinality(S \ {x}) = Cardinality(S) - (IF x \in S THEN 1 ELSE 0)
<1>1. Cardinality(S) \in Nat
  BY FS_CardinalityType
<1>2. Cardinality(S \cup {x}) = IF x \in S THEN Cardinality(S) ELSE Cardinality(S) + 1
  BY FS_AddElement
<1>3. Cardinality(S \ {x}) = IF x \in S THEN Cardinality(S) - 1 ELSE Cardinality(S)
  BY FS_RemoveElement
<1> QED
  BY <1>1, <1>2, <1>3

-----------------------------------------------------------------------------
(* Login and registration (LoginGuard)                                     *)

\* The instance's finite sets and cardinalities are those of FiniteSets.
LEMMA GuardCardinality ==
    /\ IsFiniteSet(Clients)
    /\ Guard!Cardinality(Clients) = Cardinality(Clients)
<1>1. IsFiniteSet(Clients)
  BY ProgressAssumption DEF Guard!GuardAssumption, Guard!IsFiniteSet, IsFiniteSet
<1>2. Guard!Cardinality(Clients) = Cardinality(Clients)
  BY DEF Guard!Cardinality, Cardinality
<1> QED
  BY <1>1, <1>2

\* The steps of PartsSpec are steps of the login or leave it alone.
LEMMA GuardRuns == PartsSpec => Guard!Init /\ [][Guard!Next]_(Guard!vars)
<1>1. PartsInit => Guard!Init
  BY DEF PartsInit
<1>2. [PartsNext]_<<part, vars, runVars, linksVars, loginVars, sessionVars>>
        => [Guard!Next]_(Guard!vars)
  BY DEF PartsNext, Guard!vars, loginVars
<1> QED
  BY <1>1, <1>2, PTL DEF PartsSpec

\* Every step keeps the types of the login.
LEMMA GuardTypeStep ==
    ASSUME Guard!TypeOK, [Guard!Next]_(Guard!vars)
    PROVE  Guard!TypeOK'
<1> USE ProgressAssumption
    DEF Guard!GuardAssumption, Guard!TypeOK, Guard!Goto, Guard!Answered, Guard!RedisFails
<1>0. Guard!Idle \in [pc : {"idle"}, asks : Accounts]
  BY DEF Guard!Idle
<1>1. CASE Guard!Tick
  BY <1>1 DEF Guard!Tick, Guard!Aged, Guard!Gone
<1>2. ASSUME NEW c \in Clients, NEW l \in {"check", "byEmail"}, NEW a \in Accounts,
             Guard!Limited(c, l, a)
      PROVE  Guard!TypeOK'
  <2>1. Guard!Counted(rate, RateMax, 1) \in [n : 0..RateMax + 1, ttl : 0..1]
    BY DEF Guard!Counted
  <2> QED
    BY <1>2, <2>1 DEF Guard!Limited
<1>3. ASSUME NEW c \in Clients, Guard!Login(c) \/ Guard!Register(c)
      PROVE  Guard!TypeOK'
  BY <1>0, <1>2, <1>3 DEF Guard!Login, Guard!Register
<1>4. ASSUME NEW c \in Clients,
             Guard!CheckLoginLock(c) \/ Guard!Authenticate(c) \/ Guard!CheckBan(c)
      PROVE  Guard!TypeOK'
  BY <1>0, <1>4 DEF Guard!CheckLoginLock, Guard!Authenticate, Guard!CheckBan
<1>5. ASSUME NEW c \in Clients, Guard!ClearLoginFailures(c)
      PROVE  Guard!TypeOK'
  BY <1>0, <1>5 DEF Guard!ClearLoginFailures, Guard!Gone
<1>6. ASSUME NEW c \in Clients, Guard!RecordLoginFailure(c)
      PROVE  Guard!TypeOK'
  <2>1. Guard!Counted(fails, FailMax + Guard!Cardinality(Clients) + MaxBlind, FailLock)
          \in [n : Nat, ttl : 0..FailLock]
    BY DEF Guard!Counted
  <2> QED
    BY <1>0, <1>6, <2>1 DEF Guard!RecordLoginFailure
<1>7. ASSUME NEW c \in Clients, Guard!FindUser(c)
      PROVE  Guard!TypeOK'
  BY <1>0, <1>7 DEF Guard!FindUser
<1>8. ASSUME NEW c \in Clients, Guard!Create(c)
      PROVE  Guard!TypeOK'
  BY <1>0, <1>8 DEF Guard!Create
<1>9. CASE UNCHANGED Guard!vars
  BY <1>9 DEF Guard!vars
<1> QED
  BY <1>1, <1>3, <1>4, <1>5, <1>6, <1>7, <1>8, <1>9 DEF Guard!Next

\* The unique constraints decide in the statement that inserts, and only what it has
\* inserted is confirmed.
LEMMA RegisteredStep ==
    ASSUME Guard!RegisteredOnce, [Guard!Next]_(Guard!vars)
    PROVE  Guard!RegisteredOnce'
<1>1. CASE UNCHANGED <<users, told>>
  BY <1>1 DEF Guard!RegisteredOnce
<1>2. ASSUME NEW c \in Clients, Guard!Create(c)
      PROVE  Guard!RegisteredOnce'
  BY <1>1, <1>2 DEF Guard!Create, Guard!RegisteredOnce
<1>3. CASE Guard!Tick
  BY <1>1, <1>3 DEF Guard!Tick
<1> QED
  BY <1>1, <1>2, <1>3 DEF Guard!Next, Guard!vars, Guard!Login, Guard!Register, Guard!Limited,
     Guard!CheckLoginLock, Guard!Authenticate, Guard!CheckBan, Guard!ClearLoginFailures,
     Guard!RecordLoginFailure, Guard!FindUser

\* An e-mail and a name belong to one user, and to the one whose registration was confirmed,
\* however many registrations run between each other's checks (AuthService.register).
THEOREM AccountsAreUnique == PartsSpec => []RegisteredOnce
<1>1. Guard!Init => Guard!RegisteredOnce
  BY DEF Guard!Init, Guard!RegisteredOnce
<1>2. Guard!RegisteredOnce /\ [Guard!Next]_(Guard!vars) => Guard!RegisteredOnce'
  BY RegisteredStep
<1> QED
  BY <1>1, <1>2, GuardRuns, PTL DEF RegisteredOnce

\* The clients whose password is being compared, or has been and was wrong.
Guessing == {c \in Clients : client[c].pc \in {"auth", "record"}}

\* The failures there will be when everybody who is guessing has failed.
GuessInv ==
    /\ Guard!TypeOK
    /\ fails.n + Cardinality(Guessing) <= FailMax - 1 + Cardinality(Clients) + blind

\* A client that goes on to label l, as a change of the number of those who guess.
LEMMA GuessMoves ==
    ASSUME Guard!TypeOK, NEW c \in Clients, NEW r, client' = [client EXCEPT ![c] = r]
    PROVE  /\ Cardinality(Guessing) \in Nat /\ Cardinality(Guessing)' \in Nat
           /\ Cardinality(Guessing)' <= Cardinality(Clients) /\ Cardinality(Clients) \in Nat
           /\ Cardinality(Guessing)' = Cardinality(Guessing)
                + (IF r.pc \in {"auth", "record"} THEN 1 ELSE 0)
                - (IF client[c].pc \in {"auth", "record"} THEN 1 ELSE 0)
<1>1. IsFiniteSet(Clients) /\ Guessing \subseteq Clients /\ Guessing' \subseteq Clients
  BY GuardCardinality DEF Guessing
<1>2. /\ IsFiniteSet(Guessing) /\ IsFiniteSet(Guessing') /\ Cardinality(Guessing)' \in Nat
      /\ Cardinality(Guessing)' <= Cardinality(Clients) /\ Cardinality(Clients) \in Nat
  BY <1>1, FS_Subset, FS_CardinalityType
<1>3. /\ Cardinality(Guessing) \in Nat
      /\ Cardinality(Guessing \cup {c}) = Cardinality(Guessing) + (IF c \in Guessing THEN 0 ELSE 1)
      /\ Cardinality(Guessing \ {c}) = Cardinality(Guessing) - (IF c \in Guessing THEN 1 ELSE 0)
  BY <1>2, CardOfUpdate
<1>4. \A d \in Clients : client'[d] = IF d = c THEN r ELSE client[d]
  BY DEF Guard!TypeOK
<1>5. c \in Guessing <=> client[c].pc \in {"auth", "record"}
  BY DEF Guessing
<1>6. Guessing' = IF r.pc \in {"auth", "record"} THEN Guessing \cup {c} ELSE Guessing \ {c}
  BY <1>4 DEF Guessing
<1> QED
  BY <1>2, <1>3, <1>5, <1>6

\* Every step keeps the bound: a client that passes the lock finds the counter below its
\* maximum, or Redis has failed it.
LEMMA GuessStep ==
    ASSUME GuessInv, [Guard!Next]_(Guard!vars)
    PROVE  GuessInv'
<1>a. Guard!TypeOK /\ Guard!TypeOK'
  BY GuardTypeStep DEF GuessInv
<1>b. /\ FailMax \in Nat \ {0} /\ MaxBlind \in Nat /\ fails.n \in Nat /\ fails'.n \in Nat
      /\ blind \in Nat /\ blind' \in Nat /\ Cardinality(Clients) \in Nat
  BY <1>a, ProgressAssumption, GuardCardinality, FS_CardinalityType
  DEF Guard!GuardAssumption, Guard!TypeOK
<1>c. fails.n + Cardinality(Guessing) <= FailMax - 1 + Cardinality(Clients) + blind
  BY DEF GuessInv
<1>1. ASSUME fails'.n <= fails.n, blind' >= blind, UNCHANGED client
      PROVE  GuessInv'
  <2>1. Guessing' = Guessing /\ Cardinality(Guessing) \in Nat
    BY <1>1, GuardCardinality, FS_Subset, FS_CardinalityType DEF Guessing
  <2> QED
    BY <1>a, <1>b, <1>c, <1>1, <2>1 DEF GuessInv
\* A client moves on without a failure being recorded.
<1>2. ASSUME NEW c \in Clients, NEW r, client' = [client EXCEPT ![c] = r],
             fails'.n <= fails.n, blind' >= blind,
             \/ r.pc \notin {"auth", "record"}
             \/ client[c].pc \in {"auth", "record"}
             \/ fails'.n <= FailMax - 1
             \/ blind' > blind
      PROVE  GuessInv'
  <2>1. /\ Cardinality(Guessing) \in Nat /\ Cardinality(Guessing)' \in Nat
        /\ Cardinality(Guessing)' <= Cardinality(Clients) /\ Cardinality(Clients) \in Nat
        /\ Cardinality(Guessing)' = Cardinality(Guessing)
             + (IF r.pc \in {"auth", "record"} THEN 1 ELSE 0)
             - (IF client[c].pc \in {"auth", "record"} THEN 1 ELSE 0)
    BY <1>a, <1>2, GuessMoves
  <2> QED
    BY <1>a, <1>b, <1>c, <1>2, <2>1 DEF GuessInv
<1>3. CASE Guard!Tick
  BY <1>1, <1>3, <1>b DEF Guard!Tick, Guard!Aged, Guard!Gone, Guard!TypeOK
<1>4. ASSUME NEW c \in Clients, Guard!Login(c) \/ Guard!Register(c)
      PROVE  GuessInv'
  <2>1. /\ fails' = fails /\ blind' >= blind
        /\ UNCHANGED client \/ \E r : r.pc \notin {"auth", "record"} /\ client' = [client EXCEPT ![c] = r]
    BY <1>a, <1>b, <1>4 DEF Guard!Login, Guard!Register, Guard!Limited, Guard!RedisFails
  <2> QED
    BY <1>b, <1>1, <1>2, <2>1
<1>5. ASSUME NEW c \in Clients, Guard!CheckLoginLock(c)
      PROVE  GuessInv'
  <2>1. fails' = fails
    BY <1>5 DEF Guard!CheckLoginLock
  <2>2. CASE fails.n >= FailMax /\ blind' = blind
    BY <1>2, <1>5, <1>b, <2>1, <2>2
    DEF Guard!CheckLoginLock, Guard!Answered, Guard!Idle, Guard!RedisFails
  <2>3. CASE /\ client' = [client EXCEPT ![c].pc = "auth"] /\ blind' >= blind
             /\ fails.n < FailMax \/ blind' = blind + 1
    <3>1. PICK r : r = [client[c] EXCEPT !.pc = "auth"]
      OBVIOUS
    <3>2. client' = [client EXCEPT ![c] = r]
      BY <2>3, <3>1
    <3>3. fails'.n <= fails.n /\ (fails'.n <= FailMax - 1 \/ blind' > blind)
      BY <1>b, <2>1, <2>3
    <3> QED
      BY <1>2, <2>3, <3>2, <3>3
  <2> QED
    BY <1>5, <1>b, <2>2, <2>3 DEF Guard!CheckLoginLock, Guard!Goto, Guard!RedisFails
<1>6. ASSUME NEW c \in Clients,
             Guard!Authenticate(c) \/ Guard!CheckBan(c) \/ Guard!FindUser(c) \/ Guard!Create(c)
      PROVE  GuessInv'
  <2>1. /\ fails' = fails /\ blind' = blind
        /\ \/ client' = [client EXCEPT ![c] = Guard!Idle]
           \/ \E l \in {"record", "ban", "clear", "byName", "insert"} :
                 /\ client' = [client EXCEPT ![c].pc = l]
                 /\ l = "record" => client[c].pc = "auth"
    BY <1>6 DEF Guard!Authenticate, Guard!CheckBan, Guard!FindUser, Guard!Create,
       Guard!Goto, Guard!Answered
  <2>2. CASE client' = [client EXCEPT ![c] = Guard!Idle]
    BY <1>b, <1>2, <2>1, <2>2 DEF Guard!Idle
  <2>3. ASSUME NEW l \in {"record", "ban", "clear", "byName", "insert"},
               client' = [client EXCEPT ![c].pc = l], l = "record" => client[c].pc = "auth"
        PROVE  GuessInv'
    <3>1. PICK r : r = [client[c] EXCEPT !.pc = l]
      OBVIOUS
    <3>2. client' = [client EXCEPT ![c] = r] /\ r.pc = l
      BY <1>a, <2>3, <3>1 DEF Guard!TypeOK
    <3>3. r.pc \notin {"auth", "record"} \/ client[c].pc \in {"auth", "record"}
      BY <2>3, <3>2
    <3>4. fails'.n <= fails.n /\ blind' >= blind
      BY <1>b, <2>1
    <3> QED
      BY <1>2, <3>2, <3>3, <3>4
  <2> QED
    BY <2>1, <2>2, <2>3
<1>7. ASSUME NEW c \in Clients, Guard!ClearLoginFailures(c)
      PROVE  GuessInv'
  <2>1. /\ fails'.n <= fails.n /\ blind' >= blind
        /\ client' = [client EXCEPT ![c] = Guard!Idle] /\ Guard!Idle.pc = "idle"
    BY <1>b, <1>7 DEF Guard!ClearLoginFailures, Guard!Answered, Guard!Idle, Guard!Gone,
       Guard!RedisFails
  <2> QED
    BY <1>2, <2>1
<1>8. ASSUME NEW c \in Clients, Guard!RecordLoginFailure(c)
      PROVE  GuessInv'
  <2>1. /\ client[c].pc = "record" /\ client' = [client EXCEPT ![c] = Guard!Idle]
        /\ Guard!Idle.pc = "idle"
    BY <1>8 DEF Guard!RecordLoginFailure, Guard!Answered, Guard!Idle
  <2>2. /\ Cardinality(Guessing) \in Nat /\ Cardinality(Guessing)' = Cardinality(Guessing) - 1
    <3>1. /\ Cardinality(Guessing) \in Nat
          /\ Cardinality(Guessing)' = Cardinality(Guessing)
               + (IF Guard!Idle.pc \in {"auth", "record"} THEN 1 ELSE 0)
               - (IF client[c].pc \in {"auth", "record"} THEN 1 ELSE 0)
      BY <1>a, <2>1, GuessMoves
    <3> QED
      BY <2>1, <3>1
  <2>3. fails'.n <= fails.n + 1 /\ blind' >= blind
    BY <1>b, <1>8 DEF Guard!RecordLoginFailure, Guard!Counted, Guard!RedisFails
  <2> QED
    BY <1>a, <1>b, <1>c, <2>2, <2>3 DEF GuessInv
<1>9. CASE UNCHANGED Guard!vars
  BY <1>1, <1>9, <1>b DEF Guard!vars
<1> QED
  BY <1>3, <1>4, <1>5, <1>6, <1>7, <1>8, <1>9 DEF Guard!Next

\* Whoever guesses, in parallel or one after the other, has the maximum and one guess for
\* each request under way and each failure of Redis (checkLoginLock, recordLoginFailure).
THEOREM GuessesAreBounded == PartsSpec => []GuessesBounded
<1>1. Guard!Init => GuessInv
  <2> SUFFICES ASSUME Guard!Init PROVE GuessInv
    OBVIOUS
  <2>1. Guessing = {}
    BY DEF Guard!Init, Guard!Idle, Guessing
  <2>2. Guard!Idle \in [pc : {"idle"}, asks : Accounts]
    BY ProgressAssumption DEF Guard!Idle, Guard!GuardAssumption
  <2>3. Guard!TypeOK
    BY <2>2, ProgressAssumption DEF Guard!Init, Guard!Gone, Guard!TypeOK, Guard!GuardAssumption
  <2>4. FailMax \in Nat \ {0} /\ Cardinality(Clients) \in Nat
    BY ProgressAssumption, GuardCardinality, FS_CardinalityType DEF Guard!GuardAssumption
  <2> QED
    BY <2>1, <2>3, <2>4, FS_EmptySet DEF GuessInv, Guard!Init, Guard!Gone
<1>2. GuessInv /\ [Guard!Next]_(Guard!vars) => GuessInv'
  BY GuessStep
<1>3. GuessInv => Guard!GuessesBounded
  <2> SUFFICES ASSUME GuessInv PROVE Guard!GuessesBounded
    OBVIOUS
  <2>1. Cardinality(Guessing) \in Nat /\ Cardinality(Clients) \in Nat
    BY GuardCardinality, FS_Subset, FS_CardinalityType DEF Guessing
  <2> QED
    BY <2>1, ProgressAssumption, GuardCardinality
    DEF GuessInv, Guard!GuessesBounded, Guard!TypeOK, Guard!GuardAssumption
<1> QED
  BY <1>1, <1>2, <1>3, GuardRuns, PTL DEF GuessesBounded

-----------------------------------------------------------------------------
(* The gateway's links (GatewayLinks)                                      *)

\* The steps of PartsSpec are steps of the links or leave them alone.
LEMMA LinksRun == PartsSpec => Links!Init /\ [][Links!Next]_(Links!vars)
<1>1. PartsInit => Links!Init
  BY DEF PartsInit
<1>2. [PartsNext]_<<part, vars, runVars, linksVars, loginVars, sessionVars>>
        => [Links!Next]_(Links!vars)
  BY DEF PartsNext, Links!vars, linksVars
<1> QED
  BY <1>1, <1>2, PTL DEF PartsSpec

\* Every step keeps the types of the links.
LEMMA LinksTypeStep ==
    ASSUME Links!TypeOK, [Links!Next]_(Links!vars)
    PROVE  Links!TypeOK'
<1> USE ProgressAssumption
    DEF Links!LinksAssumption, Links!TypeOK, Links!ConnStates, Links!Fault, Links!Move
<1>1. CASE Links!StartMq \/ Links!TimerFires
  BY <1>1 DEF Links!StartMq, Links!TimerFires, Links!InitMq
<1>2. ASSUME NEW c \in Conns, Links!Connected(c) \/ Links!Asserted(c) \/ Links!OrphanEnds(c)
      PROVE  Links!TypeOK'
  BY <1>2 DEF Links!Connected, Links!Asserted, Links!OrphanEnds
<1>3. ASSUME NEW c \in Conns, Links!InitFails(c)
      PROVE  Links!TypeOK'
  BY <1>3 DEF Links!InitFails, Links!Reschedule
<1>4. ASSUME NEW c \in Conns, Links!OnError(c) \/ Links!OnClose(c)
      PROVE  Links!TypeOK'
  BY <1>4 DEF Links!OnError, Links!OnClose, Links!Reschedule
<1>5. CASE Links!ConnectRedis \/ Links!RedisAnswers
  BY <1>5 DEF Links!ConnectRedis, Links!RedisAnswers
<1>6. CASE Links!Shutdown \/ Links!Restart
  BY <1>6 DEF Links!Shutdown, Links!Restart
<1>7. CASE UNCHANGED Links!vars
  BY <1>7 DEF Links!vars
<1> QED
  BY <1>1, <1>2, <1>3, <1>4, <1>5, <1>6, <1>7 DEF Links!Next, Links!Work

\* Only finitely many connections are open at a time.
LEMMA FiniteConns == IsFiniteSet(Conns)
BY ProgressAssumption DEF Links!LinksAssumption, Links!IsFiniteSet, IsFiniteSet

\* A connection that goes into a state, as a change of the length of the chain.
LEMMA ChainMoves ==
    ASSUME Links!TypeOK, NEW c \in Conns, NEW state, Links!Move(c, state)
    PROVE  /\ Cardinality(Links!Chain) \in Nat
           /\ Cardinality(Links!Chain)' = Cardinality(Links!Chain)
                + (IF state \in {"connecting", "asserting", "ready", "failing"} THEN 1 ELSE 0)
                - (IF broker[c] \in {"connecting", "asserting", "ready", "failing"} THEN 1 ELSE 0)
<1>2. IsFiniteSet(Links!Chain)
  BY FiniteConns, FS_Subset DEF Links!Chain
<1>3. /\ Cardinality(Links!Chain) \in Nat
      /\ Cardinality(Links!Chain \cup {c}) = Cardinality(Links!Chain) + (IF c \in Links!Chain THEN 0 ELSE 1)
      /\ Cardinality(Links!Chain \ {c}) = Cardinality(Links!Chain) - (IF c \in Links!Chain THEN 1 ELSE 0)
  BY <1>2, CardOfUpdate
<1>4. \A d \in Conns : broker'[d] = IF d = c THEN state ELSE broker[d]
  BY DEF Links!TypeOK, Links!Move
<1>5. c \in Links!Chain <=> broker[c] \in {"connecting", "asserting", "ready", "failing"}
  BY DEF Links!Chain
<1>6. Links!Chain' = IF state \in {"connecting", "asserting", "ready", "failing"}
                     THEN Links!Chain \cup {c} ELSE Links!Chain \ {c}
  BY <1>4 DEF Links!Chain
<1> QED
  BY <1>3, <1>5, <1>6

\* A timer or one connection at most leads to the next attempt.
ChainInv == Links!TypeOK /\ Cardinality(Links!Chain) + timers <= 1

\* Every step keeps the chain single: an event of a connection that is in the chain takes
\* it out before it sets the timer, and an attempt uses its timer up.
LEMMA ChainStep ==
    ASSUME ChainInv, [Links!Next]_(Links!vars)
    PROVE  ChainInv'
<1>a. Links!TypeOK /\ Links!TypeOK' /\ timers \in Nat /\ timers' \in Nat
  BY LinksTypeStep DEF ChainInv, Links!TypeOK
<1>b. IsFiniteSet(Links!Chain) /\ Cardinality(Links!Chain) \in Nat
  BY FiniteConns, FS_Subset, FS_CardinalityType DEF Links!Chain
<1>c. Cardinality(Links!Chain) + timers <= 1
  BY DEF ChainInv
\* The chain loses no connection and gains none.
<1>1. ASSUME UNCHANGED broker, timers' <= timers
      PROVE  ChainInv'
  BY <1>a, <1>b, <1>c, <1>1 DEF ChainInv, Links!Chain
\* One connection goes into another state.
<1>2. ASSUME NEW c \in Conns, NEW state, Links!Move(c, state),
             \/ timers' = timers /\ (\/ state \notin {"connecting", "asserting", "ready", "failing"}
                                     \/ broker[c] \in {"connecting", "asserting", "ready", "failing"})
             \/ /\ timers' <= timers + 1
                /\ state \notin {"connecting", "asserting", "ready", "failing"}
                /\ broker[c] \in {"connecting", "asserting", "ready", "failing"}
             \/ timers' = timers - 1
             \/ Links!Chain = {} /\ timers = 0 /\ timers' = 0
      PROVE  ChainInv'
  <2>1. /\ Cardinality(Links!Chain) \in Nat
        /\ Cardinality(Links!Chain)' = Cardinality(Links!Chain)
             + (IF state \in {"connecting", "asserting", "ready", "failing"} THEN 1 ELSE 0)
             - (IF broker[c] \in {"connecting", "asserting", "ready", "failing"} THEN 1 ELSE 0)
    BY <1>a, <1>2, ChainMoves
  <2>2. Links!Chain = {} => Cardinality(Links!Chain) = 0
    BY FS_EmptySet
  <2> QED
    BY <1>a, <1>c, <1>2, <2>1, <2>2 DEF ChainInv
<1>3. CASE Links!StartMq
  BY <1>2, <1>3 DEF Links!StartMq, Links!InitMq
<1>4. CASE Links!TimerFires
  BY <1>2, <1>4 DEF Links!TimerFires, Links!InitMq
<1>5. ASSUME NEW c \in Conns, Links!Connected(c) \/ Links!Asserted(c) \/ Links!OrphanEnds(c)
      PROVE  ChainInv'
  BY <1>2, <1>5 DEF Links!Connected, Links!Asserted, Links!OrphanEnds
<1>6. ASSUME NEW c \in Conns, Links!InitFails(c)
      PROVE  ChainInv'
  <2>1. /\ broker[c] \in {"connecting", "asserting"} /\ timers' <= timers + 1
        /\ \E left \in {"free", "orphan"} : Links!Move(c, left)
    BY <1>a, <1>6 DEF Links!InitFails, Links!Reschedule
  <2> QED
    BY <1>2, <2>1
<1>7. ASSUME NEW c \in Conns, Links!OnError(c)
      PROVE  ChainInv'
  BY <1>2, <1>7 DEF Links!OnError
<1>8. ASSUME NEW c \in Conns, Links!OnClose(c)
      PROVE  ChainInv'
  <2>1. timers' <= timers + 1
    BY <1>a, <1>8 DEF Links!OnClose, Links!Reschedule
  <2> QED
    BY <1>2, <1>8, <2>1 DEF Links!OnClose
<1>9. CASE Links!ConnectRedis \/ Links!RedisAnswers \/ UNCHANGED Links!vars
  BY <1>a, <1>1, <1>9 DEF Links!ConnectRedis, Links!RedisAnswers, Links!vars
<1>10. CASE Links!Shutdown
  BY <1>a, <1>1, <1>10 DEF Links!Shutdown
<1>11. CASE Links!Restart
  <2>1. Links!Chain' = {} /\ timers' = 0
    BY <1>11 DEF Links!Restart, Links!Chain
  <2> QED
    BY <1>a, <2>1, FS_EmptySet DEF ChainInv
<1> QED
  BY <1>3, <1>4, <1>5, <1>6, <1>7, <1>8, <1>9, <1>10, <1>11 DEF Links!Next, Links!Work

\* The events of a lost connection and the catch of a failed attempt never start two
\* chains of reconnections, however many connections may be open (mq/index.ts, initMq).
THEOREM OneChain == PartsSpec => []SingleChain
<1>1. Links!Init => ChainInv
  <2> SUFFICES ASSUME Links!Init PROVE ChainInv
    OBVIOUS
  <2>1. Links!Chain = {} /\ Links!TypeOK /\ timers = 0
    BY ProgressAssumption
    DEF Links!Init, Links!Chain, Links!TypeOK, Links!ConnStates, Links!LinksAssumption
  <2> QED
    BY <2>1, FS_EmptySet DEF ChainInv
<1>2. ChainInv /\ [Links!Next]_(Links!vars) => ChainInv'
  BY ChainStep
<1>3. ChainInv => Links!SingleChain
  <2>1. Links!Cardinality(Links!Chain) = Cardinality(Links!Chain)
    BY DEF Links!Cardinality, Cardinality
  <2> QED
    BY <2>1 DEF ChainInv, Links!SingleChain
<1> QED
  BY <1>1, <1>2, <1>3, LinksRun, PTL DEF SingleChain

-----------------------------------------------------------------------------
(* Online runs (RunPipeline)                                               *)

\* The steps of PartsSpec are steps of the runs or leave them alone.
LEMMA RunsRun == PartsSpec => Run!Init /\ [][Run!Next]_(Run!vars)
<1>1. PartsInit => Run!Init
  BY DEF PartsInit
<1>2. [PartsNext]_<<part, vars, runVars, linksVars, loginVars, sessionVars>>
        => [Run!Next]_(Run!vars)
  BY DEF PartsNext, Run!vars, runVars
<1> QED
  BY <1>1, <1>2, PTL DEF PartsSpec

\* A run has a row from before its message is sent, and so does the run the panel polls.
RowKnown ==
    /\ \A r \in Run!Runs : runGw[r] \in {"send", "mark", "sent"} => row[r] # "none"
    /\ panel.timer # 0 => row[panel.timer] # "none"

RunTypes == Run!TypeOK /\ RowKnown

\* The panel counts its runs up from 1.
InTurn == \A r \in Run!Runs : runGw[r] # "none" <=> r <= Run!Newest

\* Whatever fails: before its message is sent a run is in no queue, and before the INSERT it
\* has no row; what was sent, and is with nobody any more, has left PENDING, unless the
\* message or an UPDATE of the error path was lost.
Settled ==
    /\ \A r \in Run!Runs :
          /\ runGw[r] \in {"none", "insert", "send", "mark"} => runMsg[r] = "none"
          /\ runGw[r] \in {"none", "insert"} => row[r] = "none"
          /\ runGw[r] \in {"sent", "failed", "done"} /\ runMsg[r] = "none" =>
                row[r] # "PENDING" \/ "publish" \in runTrouble
          /\ runMsg[r] = "done" => row[r] \in Run!Final
          /\ runMsg[r] = "dead" => row[r] \in Run!Final \/ "db" \in runTrouble
    /\ \A w \in Workers :
          /\ work[w].pc # "idle" => work[w].run \in Run!Runs /\ runMsg[work[w].run] # "none"
          /\ work[w].pc = "ack" => row[work[w].run] \in Run!Final
          /\ work[w].pc = "nack" => row[work[w].run] \in Run!Final \/ "db" \in runTrouble

\* As long as no connection is lost: a worker and its message belong to each other, and
\* what a worker acknowledges or has acknowledged is in the row.
OneHolder ==
    /\ \A w \in Workers :
          /\ work[w].held
          /\ work[w].pc # "idle" => work[w].run \in Run!Runs /\ runMsg[work[w].run] = "unacked"
          /\ work[w].pc = "ack" => row[work[w].run] = Run!Outcome(work[w].run)
          /\ work[w].pc = "nack" => row[work[w].run] = "RE" \/ "db" \in runTrouble
    /\ \A v, w \in Workers :
          v # w /\ work[v].pc # "idle" /\ work[w].pc # "idle" => work[v].run # work[w].run
    /\ \A r \in Run!Runs :
          /\ runMsg[r] = "done" => row[r] = Run!Outcome(r)
          /\ runMsg[r] = "dead" => row[r] = "RE" \/ "db" \in runTrouble

\* As long as no answer came late and no request failed: the panel polls the newest run,
\* starts no run before that one is through, and shows what it was answered about it.
OneQuestion ==
    /\ \A r \in Run!Runs :
          runGw[r] \in {"insert", "send", "mark", "sent", "failed"} =>
             r = Run!Newest /\ panel.running /\ panel.timer = 0 /\ panel.shown = Run!Nothing
    /\ \A g \in gets : runGw[g.run] = "done"
    /\ panel.timer # 0 => panel.timer = Run!Newest /\ panel.running /\ runGw[panel.timer] = "done"
    /\ panel.shown # Run!Nothing =>
          panel.shown.run = Run!Newest /\ (panel.running \/ panel.shown.status \in Run!Final)

RunInv ==
    /\ RunTypes /\ InTurn /\ Settled
    /\ "conn" \in runTrouble \/ OneHolder
    /\ late \/ "get" \in runTrouble \/ OneQuestion

\* There are finitely many runs.
LEMMA FiniteRuns ==
    /\ \A S \in SUBSET Run!Runs : IsFiniteSet(S) /\ Cardinality(S) \in Nat
    /\ \A S : Run!Cardinality(S) = Cardinality(S)
<1>1. IsFiniteSet(Run!Runs)
  <2>1. MaxRuns \in Int /\ 1 \in Int
    BY ProgressAssumption DEF Run!RunAssumption
  <2> QED
    BY <2>1, FS_Interval DEF Run!Runs
<1>2. \A S : Run!Cardinality(S) = Cardinality(S)
  BY DEF Run!Cardinality, Cardinality
<1> QED
  BY <1>1, <1>2, FS_Subset, FS_CardinalityType

\* Every step keeps the types of the runs: what is polled has a row.
LEMMA RunTypeStep ==
    ASSUME RunTypes, [Run!Next]_(Run!vars)
    PROVE  RunTypes'
<1> DEFINE Status == {"none", "PENDING"} \cup Run!Final
           Job == [pc : {"idle", "run", "ack", "mark", "nack"}, run : 0..MaxRuns, held : BOOLEAN]
           Shown == [run : 0..MaxRuns, status : Status]
           Panel == [timer : 0..MaxRuns, running : BOOLEAN, shown : Shown]
<1>a. /\ row \in [Run!Runs -> Status] /\ work \in [Workers -> Job] /\ panel \in Panel
      /\ gets \subseteq [run : Run!Runs, status : {"PENDING"} \cup Run!Final]
      /\ runMsg \in [Run!Runs -> {"none", "ready", "unacked", "done", "dead"}]
      /\ \A r : Run!Outcome(r) \in Run!Final
      /\ MaxRuns \in Nat /\ Run!Runs = 1..MaxRuns
  BY ProgressAssumption DEF RunTypes, Run!TypeOK, Run!Outcome, Run!RunAssumption, Run!Runs, Run!Final
\* Steps of a worker write final results and leave the panel and the gateway alone.
<1>w. ASSUME UNCHANGED <<runGw, panel, gets, late>>,
             row' = row \/ \E r, f : f \in Run!Final /\ row' = [row EXCEPT ![r] = f],
             runMsg' = runMsg \/ \E r, m : m \in {"ready", "unacked", "done", "dead"}
                                           /\ runMsg' = [runMsg EXCEPT ![r] = m],
             work' = work \/ \E w \in Workers :
                \/ work' = [work EXCEPT ![w] = Run!Idle]
                \/ \E l \in {"idle", "run", "ack", "mark", "nack"} : work' = [work EXCEPT ![w].pc = l]
                \/ work' = [work EXCEPT ![w].held = FALSE]
                \/ \E r \in Run!Runs : work' = [work EXCEPT ![w] = [pc |-> "run", run |-> r, held |-> TRUE]]
      PROVE  RunTypes'
  <2>1. row' \in [Run!Runs -> Status] /\ \A r \in Run!Runs : row[r] # "none" => row'[r] # "none"
    BY <1>a, <1>w DEF Run!Final
  <2>2. runMsg' \in [Run!Runs -> {"none", "ready", "unacked", "done", "dead"}]
    BY <1>a, <1>w
  <2>3. work' \in [Workers -> Job]
    <3>1. ASSUME NEW w \in Workers, NEW j \in Job, work' = [work EXCEPT ![w] = j]
          PROVE  work' \in [Workers -> Job]
      BY <1>a, <3>1
    <3>2. Run!Idle \in Job
      BY <1>a DEF Run!Idle
    <3>3. \A r \in Run!Runs : [pc |-> "run", run |-> r, held |-> TRUE] \in Job
      BY <1>a
    <3>4. ASSUME NEW w \in Workers, work' = [work EXCEPT ![w].held = FALSE]
          PROVE  work' \in [Workers -> Job]
      <4>1. PICK j \in Job : j = [work[w] EXCEPT !.held = FALSE]
        BY <1>a
      <4>2. work' = [work EXCEPT ![w] = j]
        BY <3>4, <4>1
      <4> QED
        BY <3>1, <4>2
    <3>5. ASSUME NEW w \in Workers, NEW l \in {"idle", "run", "ack", "mark", "nack"},
                 work' = [work EXCEPT ![w].pc = l]
          PROVE  work' \in [Workers -> Job]
      <4>1. PICK j \in Job : j = [work[w] EXCEPT !.pc = l]
        BY <1>a
      <4>2. work' = [work EXCEPT ![w] = j]
        BY <3>5, <4>1
      <4> QED
        BY <3>1, <4>2
    <3> HIDE DEF Job
    <3>6. CASE work' = work
      BY <1>a, <3>6
    <3>7. CASE work' # work
      BY <1>w, <3>1, <3>2, <3>3, <3>4, <3>5, <3>7
    <3> QED
      BY <3>6, <3>7
  <2> QED
    BY <1>a, <1>w, <2>1, <2>2, <2>3 DEF RunTypes, Run!TypeOK, RowKnown
\* Steps of the panel leave the workers and the rows alone.
<1>p. ASSUME UNCHANGED <<row, runMsg, work>>, panel' \in Panel, late' \in BOOLEAN,
             gets' \subseteq [run : Run!Runs, status : {"PENDING"} \cup Run!Final],
             runGw' \in [Run!Runs -> {"none", "insert", "send", "mark", "sent", "failed", "done"}],
             \A r \in Run!Runs : runGw'[r] \in {"send", "mark", "sent"} => runGw[r] = runGw'[r],
             panel'.timer \in {0, panel.timer} \/ row[panel'.timer] # "none"
      PROVE  RunTypes'
  BY <1>a, <1>p DEF RunTypes, Run!TypeOK, RowKnown
<1>1. CASE Run!Run
  <2>1. Run!Newest \in Nat
    BY FiniteRuns DEF Run!Newest
  <2> QED
    BY <1>a, <1>1, <2>1 DEF Run!Run, Run!Nothing, RunTypes, Run!TypeOK, RowKnown
<1>2. ASSUME NEW r \in Run!Runs, Run!PostAnswered(r)
      PROVE  RunTypes'
  <2>1. panel' \in Panel /\ panel'.timer \in {0, r, panel.timer}
    <3>1. CASE runGw[r] = "sent"
      <4>1. panel' = [panel EXCEPT !.timer = r] /\ panel \in Panel /\ r \in 0..MaxRuns
        BY <1>a, <1>2, <3>1 DEF Run!PostAnswered, Run!Runs
      <4> HIDE DEF Shown
      <4> QED
        BY <4>1
    <3>2. CASE runGw[r] # "sent"
      <4>1. panel' = [panel EXCEPT !.running = FALSE] /\ panel \in Panel
        BY <1>a, <1>2, <3>2 DEF Run!PostAnswered
      <4> HIDE DEF Shown
      <4> QED
        BY <4>1
    <3> QED
      BY <3>1, <3>2
  <2>2. panel'.timer # panel.timer => row[panel'.timer] # "none"
    BY <1>a, <1>2, <2>1 DEF Run!PostAnswered, RunTypes, RowKnown
  <2> QED
    BY <1>2, <1>p, <2>1, <2>2 DEF Run!PostAnswered, RunTypes, Run!TypeOK
<1>3. CASE Run!Poll
  BY <1>a, <1>3 DEF Run!Poll, RunTypes, Run!TypeOK, RowKnown
<1>l. ASSUME NEW g PROVE Run!Late(g) \in BOOLEAN
  BY DEF Run!Late
<1>4. ASSUME NEW g \in gets, Run!PollAnswered(g) \/ Run!PollFails(g)
      PROVE  RunTypes'
  <2>1. g \in Shown
    BY <1>a
  <2>2. panel' \in Panel /\ panel'.timer \in {0, panel.timer}
    <3>1. CASE Run!PollAnswered(g) /\ g.status \in Run!Final
      <4>1. panel' = [timer |-> 0, running |-> FALSE, shown |-> g]
        BY <1>a, <3>1 DEF Run!PollAnswered
      <4> QED
        BY <1>a, <2>1, <4>1
    <3>2. CASE Run!PollAnswered(g) /\ g.status \notin Run!Final
      BY <1>a, <2>1, <3>2 DEF Run!PollAnswered
    <3>3. CASE Run!PollFails(g)
      <4>1. panel' = [timer |-> 0, running |-> FALSE, shown |-> panel.shown]
        BY <1>a, <3>3 DEF Run!PollFails
      <4> QED
        BY <1>a, <4>1
    <3> QED
      BY <1>4, <3>1, <3>2, <3>3
  <2>3. late' \in BOOLEAN
    BY <1>4, <1>l DEF Run!PollAnswered, Run!PollFails, RunTypes, Run!TypeOK
  <2> QED
    BY <1>a, <1>4, <1>p, <2>2, <2>3 DEF Run!PollAnswered, Run!PollFails, RunTypes, Run!TypeOK
<1>5. ASSUME NEW r \in Run!Runs, Run!Insert(r) \/ Run!MarkUnsent(r) \/ Run!Send(r)
      PROVE  RunTypes'
  <2>1. /\ row' \in [Run!Runs -> Status] /\ \A q \in Run!Runs : row[q] # "none" => row'[q] # "none"
        /\ runGw[r] \in {"insert", "mark", "send"} /\ runGw'[r] \in {"send", "mark", "sent", "failed"}
        /\ runGw'[r] \in {"send", "mark", "sent"} => row'[r] # "none"
    BY <1>a, <1>5
    DEF Run!Insert, Run!MarkUnsent, Run!Send, Run!Set, Run!Final, RunTypes, Run!TypeOK, RowKnown
  <2>2. /\ UNCHANGED <<work, panel, gets, late>>
        /\ runMsg' \in [Run!Runs -> {"none", "ready", "unacked", "done", "dead"}]
        /\ runGw' \in [Run!Runs -> {"none", "insert", "send", "mark", "sent", "failed", "done"}]
        /\ \A q \in Run!Runs : q # r => runGw'[q] = runGw[q]
    BY <1>5 DEF Run!Insert, Run!MarkUnsent, Run!Send, RunTypes, Run!TypeOK
  <2> QED
    BY <1>a, <2>1, <2>2 DEF RunTypes, Run!TypeOK, RowKnown
<1>6. ASSUME NEW w \in Workers, NEW r \in Run!Runs, Run!Deliver(w, r)
      PROVE  RunTypes'
  BY <1>6, <1>w DEF Run!Deliver
<1>7. ASSUME NEW w \in Workers, Run!SaveRun(w)
      PROVE  RunTypes'
  BY <1>a, <1>7, <1>w DEF Run!SaveRun, Run!Set, Run!Step
<1>8. ASSUME NEW w \in Workers, Run!MarkRunError(w) \/ Run!RunRaises(w)
      PROVE  RunTypes'
  BY <1>8, <1>w DEF Run!MarkRunError, Run!RunRaises, Run!Set, Run!Step, Run!Final
<1>9. ASSUME NEW w \in Workers, Run!AckRun(w) \/ Run!NackRun(w) \/ Run!LoseWorker(w)
      PROVE  RunTypes'
  BY <1>9, <1>w DEF Run!AckRun, Run!NackRun, Run!LoseWorker, Run!Step
<1>10. CASE UNCHANGED Run!vars
  BY <1>10 DEF Run!vars, RunTypes, Run!TypeOK, RowKnown
<1> QED
  BY <1>1, <1>2, <1>3, <1>4, <1>5, <1>6, <1>7, <1>8, <1>9, <1>10
  DEF Run!Next, Run!PanelStep, Run!GatewayStep, Run!WorkerStep

\* The number of runs so far: a new run is the next one, nothing else changes the count.
LEMMA NewestMoves ==
    ASSUME RunTypes, InTurn, [Run!Next]_(Run!vars)
    PROVE  /\ Run!Newest \in Nat /\ InTurn'
           /\ Run!Newest' = IF Run!Run THEN Run!Newest + 1 ELSE Run!Newest
<1> DEFINE Asked == {r \in Run!Runs : runGw[r] # "none"}
<1>1. IsFiniteSet(Asked) /\ Run!Newest = Cardinality(Asked)
  BY FiniteRuns DEF Run!Newest
<1>2. Run!Newest' = Cardinality(Asked')
  BY FiniteRuns DEF Run!Newest
<1>3. Run!Newest \in Nat
  BY FiniteRuns, <1>1
<1>4. ASSUME Run!Run
      PROVE  Run!Newest' = Run!Newest + 1 /\ InTurn'
  <2>1. PICK n \in Run!Runs : n = Run!Newest + 1
    BY <1>3, <1>4, ProgressAssumption DEF Run!Run, Run!Runs, Run!RunAssumption
  <2>2. \A r \in Run!Runs : runGw'[r] = IF r = n THEN "insert" ELSE runGw[r]
    BY <1>4, <2>1 DEF Run!Run, RunTypes, Run!TypeOK
  <2>3. n \notin Asked /\ Asked' = Asked \cup {n}
    BY <1>3, <2>1, <2>2 DEF InTurn, Run!Runs
  <2>4. Run!Newest' = n
    BY <1>1, <1>2, <1>3, <2>1, <2>3, FS_AddElement
  <2> QED
    BY <1>3, <2>1, <2>2, <2>4 DEF InTurn, Run!Runs
<1>5. ASSUME \A r \in Run!Runs : runGw'[r] # "none" <=> runGw[r] # "none"
      PROVE  Run!Newest' = Run!Newest /\ InTurn'
  <2>1. Asked' = Asked
    BY <1>5
  <2> QED
    BY <1>1, <1>2, <1>5, <2>1 DEF InTurn
<1>6. ASSUME ~Run!Run
      PROVE  \A r \in Run!Runs : runGw'[r] # "none" <=> runGw[r] # "none"
  BY <1>6
  DEF Run!Next, Run!PanelStep, Run!GatewayStep, Run!WorkerStep, Run!vars, Run!PostAnswered,
      Run!Poll, Run!PollAnswered, Run!PollFails, Run!Insert, Run!Send, Run!MarkUnsent,
      Run!Deliver, Run!SaveRun, Run!AckRun, Run!MarkRunError, Run!NackRun, Run!RunRaises,
      Run!LoseWorker, RunTypes, Run!TypeOK
<1> QED
  BY <1>3, <1>4, <1>5, <1>6

\* Every step, with whatever faults, leaves the runs settled.
LEMMA SettledStep ==
    ASSUME RunTypes, InTurn, Settled, [Run!Next]_(Run!vars)
    PROVE  Settled'
<1>a. /\ row \in [Run!Runs -> {"none", "PENDING"} \cup Run!Final]
      /\ runMsg \in [Run!Runs -> {"none", "ready", "unacked", "done", "dead"}]
      /\ runGw \in [Run!Runs -> {"none", "insert", "send", "mark", "sent", "failed", "done"}]
      /\ \A w \in Workers : work[w] = [pc |-> work[w].pc, run |-> work[w].run, held |-> work[w].held]
      /\ DOMAIN work = Workers /\ work = [w \in Workers |-> work[w]]
      /\ "RE" \in Run!Final /\ \A r : Run!Outcome(r) \in Run!Final
      /\ "PENDING" \notin Run!Final /\ "none" \notin Run!Final
  BY DEF RunTypes, Run!TypeOK, Run!Outcome, Run!Final
<1>b. \A w \in Workers : work[w].pc # "idle" =>
          /\ work[w].run \in Run!Runs /\ runMsg[work[w].run] # "none"
          /\ runGw[work[w].run] \notin {"none", "insert", "send", "mark"}
  BY DEF Settled
\* The panel: rows, messages and workers stay, and a request is handled once.
<1>1. ASSUME UNCHANGED <<row, runMsg, work>>, runTrouble \subseteq runTrouble',
             \A q \in Run!Runs :
                /\ runGw'[q] \in {"none", "insert", "send", "mark"} =>
                      runGw[q] \in {"none", "insert", "send", "mark"}
                /\ runGw'[q] \in {"none", "insert"} => runGw[q] \in {"none", "insert"}
                /\ runGw'[q] \in {"sent", "failed", "done"} => runGw[q] \in {"sent", "failed", "done"}
      PROVE  Settled'
  BY <1>1 DEF Settled
<1>2. CASE Run!Run
  <2>1. \A q \in Run!Runs : runGw'[q] = runGw[q] \/ (q = Run!Newest + 1 /\ runGw'[q] = "insert")
    BY <1>a, <1>2 DEF Run!Run
  <2>2. \A q \in Run!Runs : runGw'[q] # runGw[q] => runGw[q] = "none"
    BY <2>1, NewestMoves DEF InTurn, Run!Runs
  <2>3. UNCHANGED <<row, runMsg, work, runTrouble>>
    BY <1>2 DEF Run!Run
  <2> QED
    BY <1>1, <2>1, <2>2, <2>3
<1>3. ASSUME NEW r \in Run!Runs, Run!PostAnswered(r)
      PROVE  Settled'
  BY <1>a, <1>1, <1>3 DEF Run!PostAnswered
<1>4. ASSUME Run!Poll \/ (\E g \in gets : Run!PollAnswered(g) \/ Run!PollFails(g)) \/ UNCHANGED Run!vars
      PROVE  Settled'
  <2>1. UNCHANGED <<row, runMsg, work, runGw>> /\ runTrouble \subseteq runTrouble'
    BY <1>4 DEF Run!Poll, Run!PollAnswered, Run!PollFails, Run!Fault, Run!vars
  <2> QED
    BY <1>1, <2>1
\* The gateway: a run that no worker has yet.
<1>5. ASSUME NEW r \in Run!Runs, Run!Insert(r) \/ Run!Send(r) \/ Run!MarkUnsent(r)
      PROVE  Settled'
  <2>1. /\ runGw[r] \in {"insert", "send", "mark"} /\ runMsg[r] = "none"
        /\ runGw[r] = "insert" => row[r] = "none"
    BY <1>5 DEF Settled, Run!Insert, Run!Send, Run!MarkUnsent
  <2>2. /\ work' = work /\ runTrouble \subseteq runTrouble'
        /\ \A q \in Run!Runs : q # r => row'[q] = row[q] /\ runMsg'[q] = runMsg[q] /\ runGw'[q] = runGw[q]
    BY <1>a, <1>5 DEF Run!Insert, Run!Send, Run!MarkUnsent, Run!Set, Run!Fault
  <2>3. \/ runMsg'[r] = "none" /\ runGw'[r] \in {"send", "mark"}
        \/ runMsg'[r] = "ready" /\ runGw'[r] = "sent"
        \/ runMsg'[r] = "none" /\ runGw'[r] = "failed" /\ row'[r] \in {"none", "RE"}
        \/ runMsg'[r] = "none" /\ runGw'[r] = "sent" /\ "publish" \in runTrouble'
    BY <1>a, <1>5, <2>1 DEF Run!Insert, Run!Send, Run!MarkUnsent, Run!Set, Run!Fault
  <2>4. \A w \in Workers : work[w].pc # "idle" => work[w].run # r
    BY <1>b, <2>1
  <2> QED
    BY <1>a, <2>1, <2>2, <2>3, <2>4 DEF Settled
<1>6. ASSUME NEW w \in Workers, NEW r \in Run!Runs, Run!Deliver(w, r)
      PROVE  Settled'
  <2>1. /\ runMsg[r] = "ready" /\ runMsg'[r] = "unacked"
        /\ \A q \in Run!Runs : q # r => runMsg'[q] = runMsg[q]
        /\ work'[w] = [pc |-> "run", run |-> r, held |-> TRUE]
        /\ \A v \in Workers : v # w => work'[v] = work[v]
        /\ row' = row /\ runGw' = runGw /\ runTrouble' = runTrouble
    BY <1>a, <1>6 DEF Run!Deliver
  <2> QED
    BY <2>1 DEF Settled
\* A worker that goes on with its run, whose row it may write.
<1>7. ASSUME NEW w \in Workers, NEW l \in {"ack", "mark", "nack"}, work[w].pc # "idle",
             work' = [work EXCEPT ![w].pc = l], UNCHANGED <<runMsg, runGw>>, runTrouble \subseteq runTrouble',
             row' = row \/ \E f \in Run!Final : row' = [row EXCEPT ![work[w].run] = f],
             l = "ack" => row'[work[w].run] \in Run!Final,
             l = "nack" => row'[work[w].run] \in Run!Final \/ "db" \in runTrouble'
      PROVE  Settled'
  <2>1. /\ work'[w].pc = l /\ work'[w].run = work[w].run
        /\ \A v \in Workers : v # w => work'[v] = work[v]
    BY <1>a, <1>7
  <2>2. \A q \in Run!Runs : row'[q] = row[q] \/ (q = work[w].run /\ row'[q] \in Run!Final)
    BY <1>a, <1>b, <1>7
  <2>3. \A q \in Run!Runs : row[q] \in Run!Final => row'[q] \in Run!Final
    BY <2>2
  <2>4. \A q \in Run!Runs : row[q] # "PENDING" => row'[q] # "PENDING"
    BY <1>a, <2>2
  <2>5. \A q \in Run!Runs : runGw[q] \in {"none", "insert"} => row'[q] = row[q]
    BY <1>b, <1>7, <2>2
  <2>6. \A q \in Run!Runs :
          /\ runGw'[q] \in {"none", "insert", "send", "mark"} => runMsg'[q] = "none"
          /\ runGw'[q] \in {"none", "insert"} => row'[q] = "none"
          /\ runGw'[q] \in {"sent", "failed", "done"} /\ runMsg'[q] = "none" =>
                row'[q] # "PENDING" \/ "publish" \in runTrouble'
          /\ runMsg'[q] = "done" => row'[q] \in Run!Final
          /\ runMsg'[q] = "dead" => row'[q] \in Run!Final \/ "db" \in runTrouble'
    BY <1>7, <2>3, <2>4, <2>5 DEF Settled
  <2>7. \A v \in Workers :
          /\ work'[v].pc # "idle" => work'[v].run \in Run!Runs /\ runMsg'[work'[v].run] # "none"
          /\ work'[v].pc = "ack" => row'[work'[v].run] \in Run!Final
          /\ work'[v].pc = "nack" => row'[work'[v].run] \in Run!Final \/ "db" \in runTrouble'
    BY <1>b, <1>7, <2>1, <2>3 DEF Settled
  <2> QED
    BY <2>6, <2>7 DEF Settled
\* A worker that has done with its message, or lost it.
<1>8. ASSUME NEW w \in Workers, work[w].pc # "idle", NEW m \in {"done", "dead", "ready"},
             \/ work' = [work EXCEPT ![w] = Run!Idle]
             \/ work' = [work EXCEPT ![w].held = FALSE],
             UNCHANGED <<row, runGw>>, runTrouble \subseteq runTrouble',
             runMsg' = runMsg \/ runMsg' = [runMsg EXCEPT ![work[w].run] = m],
             m = "done" => work[w].pc = "ack",
             m = "dead" => work[w].pc = "nack"
      PROVE  Settled'
  <2>1. /\ \/ work'[w].pc = "idle"
           \/ work'[w].pc = work[w].pc /\ work'[w].run = work[w].run
        /\ \A v \in Workers : v # w => work'[v] = work[v]
    BY <1>a, <1>8 DEF Run!Idle
  <2>2. \A q \in Run!Runs : runMsg'[q] = runMsg[q] \/ (q = work[w].run /\ runMsg'[q] = m)
    BY <1>a, <1>b, <1>8
  <2>3. /\ m = "done" => row[work[w].run] \in Run!Final
        /\ m = "dead" => row[work[w].run] \in Run!Final \/ "db" \in runTrouble
    BY <1>8 DEF Settled
  <2> QED
    BY <1>a, <1>b, <1>8, <2>1, <2>2, <2>3 DEF Settled
<1>9. ASSUME NEW w \in Workers, Run!SaveRun(w)
      PROVE  Settled'
  <2>1. /\ work[w].run \in Run!Runs /\ work[w].pc # "idle" /\ work' = [work EXCEPT ![w].pc = "ack"]
        /\ row' = [row EXCEPT ![work[w].run] = Run!Outcome(work[w].run)]
        /\ UNCHANGED <<runMsg, runGw, runTrouble>>
    BY <1>b, <1>9 DEF Run!SaveRun, Run!Set, Run!Step
  <2>2. row'[work[w].run] \in Run!Final /\ \E f \in Run!Final : row' = [row EXCEPT ![work[w].run] = f]
    BY <1>a, <2>1
  <2> QED
    BY <1>7, <2>1, <2>2
<1>10. ASSUME NEW w \in Workers, Run!RunRaises(w)
       PROVE  Settled'
  BY <1>7, <1>10 DEF Run!RunRaises, Run!Step, Run!Fault
<1>11. ASSUME NEW w \in Workers, Run!MarkRunError(w)
       PROVE  Settled'
  <2>1. /\ work[w].run \in Run!Runs /\ work[w].pc # "idle" /\ work' = [work EXCEPT ![w].pc = "nack"]
        /\ UNCHANGED <<runMsg, runGw>> /\ runTrouble \subseteq runTrouble'
        /\ \/ row' = [row EXCEPT ![work[w].run] = "RE"]
           \/ row' = row /\ "db" \in runTrouble'
    BY <1>b, <1>11 DEF Run!MarkRunError, Run!Set, Run!Step
  <2>2. CASE row' = [row EXCEPT ![work[w].run] = "RE"]
    <3>1. row'[work[w].run] \in Run!Final /\ \E f \in Run!Final : row' = [row EXCEPT ![work[w].run] = f]
      BY <1>a, <2>1, <2>2
    <3> QED
      BY <1>7, <2>1, <3>1
  <2>3. CASE row' = row /\ "db" \in runTrouble'
    BY <1>7, <2>1, <2>3
  <2> QED
    BY <2>1, <2>2, <2>3
<1>12. ASSUME NEW w \in Workers, Run!AckRun(w)
       PROVE  Settled'
  <2>1. CASE work[w].held
    BY <1>8, <1>12, <2>1 DEF Run!AckRun
  <2>2. CASE ~work[w].held
    BY <1>7, <1>12, <2>2 DEF Run!AckRun, Run!Step
  <2> QED
    BY <2>1, <2>2
<1>13. ASSUME NEW w \in Workers, Run!NackRun(w)
       PROVE  Settled'
  BY <1>8, <1>13 DEF Run!NackRun
<1>14. ASSUME NEW w \in Workers, Run!LoseWorker(w)
       PROVE  Settled'
  BY <1>8, <1>14 DEF Run!LoseWorker, Run!Fault
<1> QED
  BY <1>2, <1>3, <1>4, <1>5, <1>6, <1>9, <1>10, <1>11, <1>12, <1>13, <1>14
  DEF Run!Next, Run!PanelStep, Run!GatewayStep, Run!WorkerStep

\* Without a lost connection every step keeps worker, message and row together.
LEMMA HolderStep ==
    ASSUME RunTypes, InTurn, Settled, OneHolder, [Run!Next]_(Run!vars), "conn" \notin runTrouble',
           runTrouble \subseteq runTrouble'
    PROVE  OneHolder'
<1>a. /\ row \in [Run!Runs -> {"none", "PENDING"} \cup Run!Final]
      /\ runMsg \in [Run!Runs -> {"none", "ready", "unacked", "done", "dead"}]
      /\ runGw \in [Run!Runs -> {"none", "insert", "send", "mark", "sent", "failed", "done"}]
      /\ \A w \in Workers : work[w] = [pc |-> work[w].pc, run |-> work[w].run, held |-> work[w].held]
      /\ DOMAIN work = Workers /\ work = [w \in Workers |-> work[w]]
  BY DEF RunTypes, Run!TypeOK
<1>b. /\ \A w \in Workers : work[w].held
      /\ \A w \in Workers : work[w].pc # "idle" =>
            work[w].run \in Run!Runs /\ runMsg[work[w].run] = "unacked"
      /\ \A w \in Workers : work[w].pc = "ack" => row[work[w].run] = Run!Outcome(work[w].run)
      /\ \A v, w \in Workers :
            v # w /\ work[v].pc # "idle" /\ work[w].pc # "idle" => work[v].run # work[w].run
  BY DEF OneHolder
<1>c. \A r \in Run!Runs :
          /\ runGw[r] \in {"none", "insert", "send", "mark"} => runMsg[r] = "none"
          /\ runMsg[r] = "done" => row[r] = Run!Outcome(r)
          /\ runMsg[r] = "dead" => row[r] = "RE" \/ "db" \in runTrouble
  BY DEF OneHolder, Settled
<1>d. \A w \in Workers : work[w].pc = "nack" => row[work[w].run] = "RE" \/ "db" \in runTrouble
  BY DEF OneHolder
\* The panel, and the gateway before it sends: rows and messages of other runs.
<1>1. ASSUME NEW r \in Run!Runs, runMsg[r] = "none", runMsg'[r] \in {"none", "ready"},
             work' = work, \A q \in Run!Runs : q # r => row'[q] = row[q] /\ runMsg'[q] = runMsg[q]
      PROVE  OneHolder'
  BY <1>b, <1>c, <1>d, <1>1 DEF OneHolder
<1>2. ASSUME UNCHANGED <<row, runMsg, work>>
      PROVE  OneHolder'
  BY <1>b, <1>c, <1>d, <1>2 DEF OneHolder
<1>3. CASE Run!Run
  BY <1>2, <1>3 DEF Run!Run
<1>4. ASSUME NEW r \in Run!Runs, Run!PostAnswered(r)
      PROVE  OneHolder'
  BY <1>2, <1>4 DEF Run!PostAnswered
<1>5. ASSUME Run!Poll \/ (\E g \in gets : Run!PollAnswered(g) \/ Run!PollFails(g)) \/ UNCHANGED Run!vars
      PROVE  OneHolder'
  <2>1. UNCHANGED <<row, runMsg, work>>
    BY <1>5 DEF Run!Poll, Run!PollAnswered, Run!PollFails, Run!vars
  <2> QED
    BY <1>2, <2>1
<1>6. ASSUME NEW r \in Run!Runs, Run!Insert(r) \/ Run!Send(r) \/ Run!MarkUnsent(r)
      PROVE  OneHolder'
  <2>1. runGw[r] \in {"insert", "send", "mark"} /\ runMsg[r] = "none"
    BY <1>c, <1>6 DEF Run!Insert, Run!Send, Run!MarkUnsent
  <2>2. /\ work' = work
        /\ \A q \in Run!Runs : q # r => row'[q] = row[q] /\ runMsg'[q] = runMsg[q]
        /\ runMsg'[r] \in {"none", "ready"}
    BY <1>a, <1>6, <2>1 DEF Run!Insert, Run!Send, Run!MarkUnsent, Run!Set
  <2> QED
    BY <1>1, <2>1, <2>2
<1>7. ASSUME NEW w \in Workers, NEW r \in Run!Runs, Run!Deliver(w, r)
      PROVE  OneHolder'
  <2>1. /\ runMsg[r] = "ready" /\ runMsg'[r] = "unacked"
        /\ \A q \in Run!Runs : q # r => runMsg'[q] = runMsg[q]
        /\ work'[w] = [pc |-> "run", run |-> r, held |-> TRUE]
        /\ \A v \in Workers : v # w => work'[v] = work[v]
        /\ row' = row
    BY <1>a, <1>7 DEF Run!Deliver
  <2>2. \A v \in Workers : v # w /\ work[v].pc # "idle" => work[v].run # r
    BY <1>b, <2>1
  <2> QED
    BY <1>b, <1>c, <1>d, <2>1, <2>2 DEF OneHolder
\* A worker that goes on with its run, whose row it may write.
<1>8. ASSUME NEW w \in Workers, NEW l \in {"ack", "mark", "nack"}, work[w].pc # "idle",
             work' = [work EXCEPT ![w].pc = l], UNCHANGED runMsg,
             \A q \in Run!Runs : q # work[w].run => row'[q] = row[q],
             l = "ack" => row'[work[w].run] = Run!Outcome(work[w].run),
             l = "nack" => row'[work[w].run] = "RE" \/ "db" \in runTrouble'
      PROVE  OneHolder'
  <2>1. /\ work'[w].pc = l /\ work'[w].run = work[w].run /\ work'[w].held = work[w].held
        /\ \A v \in Workers : v # w => work'[v] = work[v]
    BY <1>a, <1>8
  <2>2. /\ work[w].run \in Run!Runs /\ runMsg[work[w].run] = "unacked"
        /\ \A v \in Workers : v # w /\ work[v].pc # "idle" => work[v].run # work[w].run
    BY <1>b, <1>8
  <2>3. \A v \in Workers : v # w => row'[work[v].run] = row[work[v].run] \/ work[v].pc = "idle"
    BY <1>b, <1>8, <2>2
  <2> QED
    BY <1>b, <1>c, <1>d, <1>8, <2>1, <2>2, <2>3 DEF OneHolder
\* A worker that has done with its message.
<1>9. ASSUME NEW w \in Workers, work[w].pc # "idle", NEW m \in {"done", "dead", "ready"},
             work' = [work EXCEPT ![w] = Run!Idle], UNCHANGED row,
             runMsg' = [runMsg EXCEPT ![work[w].run] = m],
             m = "done" => work[w].pc = "ack",
             m = "dead" => work[w].pc = "nack"
      PROVE  OneHolder'
  <2>1. /\ work'[w] = Run!Idle /\ Run!Idle.pc = "idle" /\ Run!Idle.held
        /\ \A v \in Workers : v # w => work'[v] = work[v]
    BY <1>a, <1>9 DEF Run!Idle
  <2>2. /\ work[w].run \in Run!Runs /\ runMsg[work[w].run] = "unacked"
        /\ \A v \in Workers : v # w /\ work[v].pc # "idle" => work[v].run # work[w].run
    BY <1>b, <1>9
  <2>3. \A q \in Run!Runs : runMsg'[q] = IF q = work[w].run THEN m ELSE runMsg[q]
    BY <1>a, <1>9
  <2> QED
    BY <1>b, <1>c, <1>d, <1>9, <2>1, <2>2, <2>3 DEF OneHolder
<1>10. ASSUME NEW w \in Workers, Run!SaveRun(w)
       PROVE  OneHolder'
  <2>1. row'[work[w].run] = Run!Outcome(work[w].run)
    BY <1>a, <1>b, <1>10 DEF Run!SaveRun, Run!Set
  <2> QED
    BY <1>a, <1>8, <1>10, <2>1 DEF Run!SaveRun, Run!Set, Run!Step
<1>11. ASSUME NEW w \in Workers, Run!RunRaises(w) \/ Run!MarkRunError(w)
       PROVE  OneHolder'
  <2>1. CASE Run!RunRaises(w)
    BY <1>a, <1>8, <2>1 DEF Run!RunRaises, Run!Step
  <2>2. CASE Run!MarkRunError(w)
    <3>1. row'[work[w].run] = "RE" \/ "db" \in runTrouble'
      BY <1>a, <1>b, <2>2 DEF Run!MarkRunError, Run!Set
    <3> QED
      BY <1>a, <1>8, <2>2, <3>1 DEF Run!MarkRunError, Run!Set, Run!Step
  <2> QED
    BY <1>11, <2>1, <2>2
<1>12. ASSUME NEW w \in Workers, Run!AckRun(w) \/ Run!NackRun(w)
       PROVE  OneHolder'
  BY <1>b, <1>9, <1>12 DEF Run!AckRun, Run!NackRun
<1>13. ASSUME NEW w \in Workers, Run!LoseWorker(w)
       PROVE  OneHolder'
  BY <1>b, <1>9, <1>13 DEF Run!LoseWorker, Run!Fault
<1> QED
  BY <1>3, <1>4, <1>5, <1>6, <1>7, <1>10, <1>11, <1>12, <1>13
  DEF Run!Next, Run!PanelStep, Run!GatewayStep, Run!WorkerStep

\* As long as no answer comes late and none fails, the panel keeps to its newest run.
LEMMA QuestionStep ==
    ASSUME RunTypes, InTurn, OneQuestion, [Run!Next]_(Run!vars),
           ~late', "get" \notin runTrouble'
    PROVE  OneQuestion'
<1>a. /\ panel = [timer |-> panel.timer, running |-> panel.running, shown |-> panel.shown]
      /\ panel.running \in BOOLEAN
      /\ runGw \in [Run!Runs -> {"none", "insert", "send", "mark", "sent", "failed", "done"}]
      /\ \A g \in gets : g # Run!Nothing
  BY DEF RunTypes, Run!TypeOK, Run!Final, Run!Nothing
<1>n. /\ Run!Newest \in Nat /\ Run!Newest' = IF Run!Run THEN Run!Newest + 1 ELSE Run!Newest
  BY NewestMoves
<1>g. \A g \in gets : g.run \in Run!Runs
  BY DEF RunTypes, Run!TypeOK
<1>1. CASE Run!Run
  <2>1. /\ Run!Newest' = Run!Newest + 1 /\ ~panel.running /\ gets' = gets
        /\ panel' = [timer |-> 0, running |-> TRUE, shown |-> Run!Nothing]
    BY <1>n, <1>1 DEF Run!Run
  <2>2. /\ runGw' = [runGw EXCEPT ![Run!Newest + 1] = "insert"]
        /\ \A r \in Run!Runs : r = Run!Newest + 1 => runGw[r] = "none"
    BY <1>n, <1>1 DEF Run!Run, InTurn
  <2>3. \A r \in Run!Runs : runGw'[r] \in {"insert", "send", "mark", "sent", "failed"} => r = Run!Newest + 1
    BY <1>a, <2>1, <2>2 DEF OneQuestion
  <2>4. \A g \in gets : runGw'[g.run] = "done"
    BY <1>a, <1>g, <2>2 DEF OneQuestion
  <2> QED
    BY <2>1, <2>3, <2>4 DEF OneQuestion
<1>2. ASSUME NEW r \in Run!Runs, Run!PostAnswered(r)
      PROVE  OneQuestion'
  <2>1. /\ r = Run!Newest /\ panel.running /\ panel.timer = 0 /\ panel.shown = Run!Nothing
    BY <1>2 DEF Run!PostAnswered, OneQuestion
  <2>2. /\ \A q \in Run!Runs : runGw'[q] \notin {"insert", "send", "mark", "sent", "failed"}
        /\ \A q \in Run!Runs : runGw[q] = "done" => runGw'[q] = "done"
        /\ runGw'[r] = "done"
    BY <1>a, <1>2, <2>1 DEF Run!PostAnswered, OneQuestion
  <2>3. /\ panel'.shown = Run!Nothing /\ gets' = gets
        /\ \/ panel'.timer = 0
           \/ panel'.timer = r /\ panel'.running
    BY <1>a, <1>2, <2>1 DEF Run!PostAnswered
  <2>4. ~Run!Run
    BY <1>2, <2>1 DEF Run!Run
  <2>5. \A g \in gets' : runGw'[g.run] = "done"
    BY <1>g, <2>2, <2>3 DEF OneQuestion
  <2> QED
    BY <1>n, <2>1, <2>2, <2>3, <2>4, <2>5 DEF OneQuestion
<1>3. CASE Run!Poll
  <2>1. ~Run!Run
    BY <1>3, <1>a DEF Run!Poll, Run!Run, OneQuestion
  <2>2. UNCHANGED <<panel, runGw>> /\ \A g \in gets' : g \in gets \/ g.run = panel.timer
    BY <1>3 DEF Run!Poll
  <2>3. panel.timer # 0
    BY <1>3 DEF Run!Poll
  <2> QED
    BY <1>n, <2>1, <2>2, <2>3 DEF OneQuestion
<1>4. ASSUME NEW g \in gets, Run!PollAnswered(g)
      PROVE  OneQuestion'
  <2>1. g # Run!Nothing /\ g.run \in Run!Runs /\ g.run # 0 /\ runGw[g.run] = "done"
    BY <1>a, <1>g, ProgressAssumption DEF OneQuestion, Run!Runs, Run!RunAssumption
  <2>2. ~Run!Late(g)
    BY <1>4 DEF Run!PollAnswered
  <2>3. /\ panel'.shown = g /\ gets' \subseteq gets
        /\ panel'.running = (IF g.status \in Run!Final THEN FALSE ELSE panel.running)
        /\ panel'.timer = IF g.status \in Run!Final THEN 0 ELSE panel.timer
    BY <1>a, <1>4 DEF Run!PollAnswered
  <2>4. g.run = Run!Newest /\ (g.status \in Run!Final \/ (panel.running /\ panel.timer = Run!Newest))
    BY <2>1, <2>2 DEF Run!Late, OneQuestion
  <2>5. \A r \in Run!Runs : runGw[r] \notin {"insert", "send", "mark", "sent", "failed"}
    BY <2>1, <2>4 DEF OneQuestion
  <2>6. runGw' = runGw
    BY <1>4 DEF Run!PollAnswered
  <2>7. Run!Newest' = Run!Newest
    BY FiniteRuns, <2>6 DEF Run!Newest
  <2> QED
    BY <2>1, <2>3, <2>4, <2>5, <2>6, <2>7 DEF OneQuestion
<1>5. ASSUME NEW g \in gets, Run!PollFails(g)
      PROVE  OneQuestion'
  BY <1>5 DEF Run!PollFails, Run!Fault
<1>6. ASSUME UNCHANGED <<panel, gets>>,
             \A r \in Run!Runs :
                /\ runGw'[r] \in {"insert", "send", "mark", "sent", "failed"} =>
                      runGw[r] \in {"insert", "send", "mark", "sent", "failed"}
                /\ runGw[r] = "done" => runGw'[r] = "done",
             ~Run!Run
      PROVE  OneQuestion'
  <2>1. \A g \in gets' : runGw'[g.run] = "done"
    BY <1>g, <1>6 DEF OneQuestion
  <2>2. panel.timer # 0 => runGw'[panel.timer] = "done"
    <3>1. panel.timer # 0 => panel.timer \in Run!Runs
      BY ProgressAssumption DEF RunTypes, Run!TypeOK, Run!Runs, Run!RunAssumption
    <3> QED
      BY <1>6, <3>1 DEF OneQuestion
  <2> QED
    BY <1>n, <1>6, <2>1, <2>2 DEF OneQuestion
<1>7. ASSUME NEW r \in Run!Runs, Run!GatewayStep(r)
      PROVE  OneQuestion'
  <2>1. ~Run!Run
    BY <1>7 DEF Run!GatewayStep, Run!Insert, Run!Send, Run!MarkUnsent, Run!Run, OneQuestion
  <2> QED
    BY <1>a, <1>6, <1>7, <2>1 DEF Run!GatewayStep, Run!Insert, Run!Send, Run!MarkUnsent
<1>8. ASSUME \/ \E w \in Workers : Run!WorkerStep(w) \/ Run!RunRaises(w) \/ Run!LoseWorker(w)
             \/ UNCHANGED Run!vars
      PROVE  OneQuestion'
  <2>1. UNCHANGED <<panel, gets, runGw>>
    BY <1>8 DEF Run!WorkerStep, Run!Deliver, Run!SaveRun, Run!AckRun, Run!MarkRunError, Run!NackRun,
       Run!RunRaises, Run!LoseWorker, Run!vars
  <2>2. CASE Run!Run
    BY <1>1, <2>2
  <2>3. CASE ~Run!Run
    BY <1>6, <2>1, <2>3
  <2> QED
    BY <2>2, <2>3
<1> QED
  BY <1>1, <1>2, <1>3, <1>4, <1>5, <1>7, <1>8 DEF Run!Next, Run!PanelStep

\* The inductive invariant of the runs.
LEMMA RunsKeepInv == PartsSpec => []RunInv
<1>1. Run!Init => RunInv
  <2> SUFFICES ASSUME Run!Init PROVE RunInv
    OBVIOUS
  <2>1. RunTypes
    <3>1. MaxRuns \in Nat /\ 0 \in 0..MaxRuns
      BY ProgressAssumption DEF Run!RunAssumption
    <3>2. panel \in [timer : 0..MaxRuns, running : BOOLEAN,
                    shown : [run : 0..MaxRuns, status : {"none", "PENDING"} \cup Run!Final]]
      BY <3>1 DEF Run!Init, Run!Nothing
    <3>3. Run!Idle \in [pc : {"idle", "run", "ack", "mark", "nack"}, run : 0..MaxRuns, held : BOOLEAN]
      BY <3>1 DEF Run!Idle
    <3>4. panel.timer = 0
      BY DEF Run!Init
    <3> QED
      BY <3>2, <3>3, <3>4 DEF Run!Init, RunTypes, Run!TypeOK, RowKnown
  <2>2. InTurn
    <3>1. {r \in Run!Runs : runGw[r] # "none"} = {}
      BY DEF Run!Init
    <3>2. Run!Newest = 0
      BY <3>1, FiniteRuns, FS_EmptySet DEF Run!Newest
    <3> QED
      BY <3>2 DEF Run!Init, InTurn, Run!Runs
  <2>3. OneHolder
    BY DEF Run!Init, OneHolder, Run!Idle
  <2>4. OneQuestion
    BY DEF Run!Init, OneQuestion
  <2>5. Settled
    BY DEF Run!Init, Settled, Run!Idle
  <2> QED
    BY <2>1, <2>2, <2>3, <2>4, <2>5 DEF RunInv
<1>2. RunInv /\ [Run!Next]_(Run!vars) => RunInv'
  <2> SUFFICES ASSUME RunInv, [Run!Next]_(Run!vars) PROVE RunInv'
    OBVIOUS
  <2>1. runTrouble \subseteq runTrouble' /\ (late => late')
    <3>1. CASE Run!Run \/ UNCHANGED Run!vars
      BY <3>1 DEF Run!Run, Run!vars
    <3>2. ASSUME NEW r, Run!PostAnswered(r) \/ Run!GatewayStep(r) \/ Run!Poll
          PROVE  runTrouble \subseteq runTrouble' /\ late' = late
      BY <3>2 DEF Run!PostAnswered, Run!GatewayStep, Run!Insert, Run!Send, Run!MarkUnsent, Run!Fault, Run!Poll
    <3>3. ASSUME NEW g, Run!PollAnswered(g)
          PROVE  runTrouble \subseteq runTrouble' /\ (late => late')
      <4>1. runTrouble' = runTrouble /\ late' = (late \/ Run!Late(g))
        BY <3>3 DEF Run!PollAnswered
      <4>2. late => late'
        BY <4>1
      <4> QED
        BY <4>1, <4>2
    <3>5. ASSUME NEW g, Run!PollFails(g)
          PROVE  runTrouble \subseteq runTrouble' /\ late' = late
      BY <3>5 DEF Run!PollFails, Run!Fault
    <3>4. ASSUME NEW w, Run!WorkerStep(w) \/ Run!RunRaises(w) \/ Run!LoseWorker(w)
          PROVE  runTrouble \subseteq runTrouble' /\ late' = late
      BY <3>4 DEF Run!WorkerStep, Run!Deliver, Run!SaveRun, Run!AckRun, Run!MarkRunError,
         Run!NackRun, Run!RunRaises, Run!LoseWorker, Run!Fault
    <3> QED
      BY <3>1, <3>2, <3>3, <3>4, <3>5 DEF Run!Next, Run!PanelStep
  <2>2. RunTypes' /\ InTurn' /\ Settled'
    BY RunTypeStep, NewestMoves, SettledStep DEF RunInv
  <2>3. "conn" \in runTrouble' \/ OneHolder'
    BY <2>1, HolderStep DEF RunInv
  <2>4. late' \/ "get" \in runTrouble' \/ OneQuestion'
    BY <2>1, QuestionStep DEF RunInv
  <2> QED
    BY <2>2, <2>3, <2>4 DEF RunInv
<1> QED
  BY <1>1, <1>2, RunsRun, PTL

\* A run that is neither queued nor held any more is not PENDING unless its message or an
\* UPDATE was lost, whatever else failed.  Without a lost connection an acknowledged run
\* has the result of its program, and a dead-lettered one is RE (worker.py, mode "run",
\* with its error path).
THEOREM ResultsAreTrue == PartsSpec => []QuietRunIsRight
<1>1. RunInv => Run!QuietRunIsRight
  <2> SUFFICES ASSUME RunInv, NEW r \in Run!Runs, Run!Quiet(r)
               PROVE  /\ row[r] = "PENDING" => runTrouble \cap {"publish", "db"} # {}
                      /\ runMsg[r] = "done" => row[r] = Run!Outcome(r) \/ "conn" \in runTrouble
                      /\ runMsg[r] = "dead" => row[r] = "RE" \/ runTrouble \cap {"db", "conn"} # {}
    BY DEF Run!QuietRunIsRight
  <2>1. runMsg[r] \in {"none", "done", "dead"} /\ runGw[r] \in {"sent", "failed", "done"}
    BY DEF Run!Quiet, RunInv, RunTypes, Run!TypeOK
  <2>2. row[r] = "PENDING" => "publish" \in runTrouble \/ "db" \in runTrouble
    BY <2>1 DEF RunInv, Settled, Run!Final
  <2>3. "conn" \notin runTrouble =>
           /\ runMsg[r] = "done" => row[r] = Run!Outcome(r)
           /\ runMsg[r] = "dead" => row[r] = "RE" \/ "db" \in runTrouble
    BY DEF RunInv, OneHolder
  <2> QED
    BY <2>2, <2>3
<1> QED
  BY <1>1, RunsKeepInv, PTL DEF QuietRunIsRight

\* When the panel stops, it shows the final result of the newest run, however many GETs are
\* in flight, provided that no answer came after its run was given up and none failed
\* (RunPanel.tsx, poll and onRun).
THEOREM PanelIsUpToDate == PartsSpec => []PanelShowsNewest
<1>1. RunInv => Run!PanelShowsNewest
  BY DEF RunInv, OneQuestion, Run!PanelShowsNewest
<1> QED
  BY <1>1, RunsKeepInv, PTL DEF PanelShowsNewest

-----------------------------------------------------------------------------
(* The web session (WebSession)                                            *)

\* The steps of PartsSpec are steps of the session or leave it alone.
LEMMA SessionRuns == PartsSpec => Session!Init /\ [][Session!Next]_(Session!vars)
<1>1. PartsInit => Session!Init
  BY DEF PartsInit
<1>2. [PartsNext]_<<part, vars, runVars, linksVars, loginVars, sessionVars>>
        => [Session!Next]_(Session!vars)
  BY DEF PartsNext, Session!vars, sessionVars
<1> QED
  BY <1>1, <1>2, PTL DEF PartsSpec

\* What is left of the loads of a tab: once it has been loaded unasked, only an answer 401
\* loads it again; the second load finds the cookie refused, so that every later answer is
\* 401 too, and the third finds no user in the tab either, so that nothing is asked.
Settling(t) ==
    /\ loads[t] <= 3
    /\ loads[t] >= 1 =>
          /\ page[t] # "inside"
          /\ \A r \in pending[t] : r.kind \in {"verify", "poll"}
          /\ (page[t] = "leaving" \/ \E r \in pending[t] : r.status = "401") => ~Session!Valid(cookie)
    /\ loads[t] >= 2 =>
          /\ ~Session!Valid(cookie)
          /\ \A r \in pending[t] : r.status = "401"
          /\ page[t] = "leaving" => ui[t] = NoUser
    /\ loads[t] = 3 =>
          /\ page[t] = "login" /\ ui[t] = NoUser
          /\ \A r \in pending[t] : r.kind = "verify"

SessionInv == Session!TypeOK /\ \A t \in Tabs : Settling(t)

\* Every step keeps the types of the session.
LEMMA SessionTypeStep ==
    ASSUME Session!TypeOK, [Session!Next]_(Session!vars)
    PROVE  Session!TypeOK'
<1> DEFINE Reply == [kind : {"verify", "poll", "put"}, status : {"ok", "401", "403"},
                     user : Users \cup {NoUser}]
           Server == /\ cookie \in 0..MaxSessions
                     /\ owner \in [Session!Sessions -> Users \cup {NoUser}]
                     /\ expired \subseteq Session!Sessions /\ banned \subseteq Users
                     /\ clears \in BOOLEAN
           Browser == /\ ui \in [Tabs -> Users \cup {NoUser}]
                      /\ page \in [Tabs -> {"login", "inside", "leaving"}]
                      /\ pending \in [Tabs -> SUBSET Reply] /\ loads \in [Tabs -> Nat]
<1>a. Server /\ Browser /\ MaxSessions \in Nat /\ Session!Sessions = 1..MaxSessions
  BY ProgressAssumption DEF Session!TypeOK, Session!SessionAssumption, Session!Sessions
<1>b. ASSUME Server', Browser'
      PROVE  Session!TypeOK'
  BY <1>b DEF Session!TypeOK
<1>c. \A k \in {"verify", "poll", "put"} : Session!Request(k) \in Reply
  BY <1>a DEF Session!Request, Session!Answer, Session!Whose
<1>d. \A t \in Tabs : pending[t] \subseteq Reply /\ \A r \in pending[t] : r.user \in Users \cup {NoUser}
  BY <1>a
<1>e. UNCHANGED <<cookie, owner, expired, banned, clears>> => Server'
  BY <1>a
<1>f. UNCHANGED <<ui, page, pending, loads>> => Browser'
  BY <1>a
<1> HIDE DEF Reply
<1>1. ASSUME NEW t \in Tabs, Session!Open(t) \/ Session!Arrive(t)
      PROVE  Session!TypeOK'
  <2>0. PICK to \in {"login", "inside"}, n \in Nat :
          /\ ui' = ui /\ page' = [page EXCEPT ![t] = to] /\ loads' = [loads EXCEPT ![t] = n]
          /\ pending' = [pending EXCEPT ![t] = {Session!Request("verify")}]
    <3>1. CASE Session!Open(t)
      BY <3>1 DEF Session!Open, Session!Load
    <3>2. CASE Session!Arrive(t)
      <4>1. loads[t] + 1 \in Nat /\ "login" \in {"login", "inside"}
        BY <1>a
      <4> QED
        BY <3>2, <4>1 DEF Session!Arrive, Session!Load
    <3> QED
      BY <1>1, <3>1, <3>2
  <2>1. Browser'
    BY <1>a, <1>c, <2>0
  <2> QED
    BY <1>b, <1>e, <1>1, <2>1 DEF Session!Open, Session!Arrive, Session!Load, Session!server
<1>2. ASSUME NEW t \in Tabs, Session!Mount(t) \/ Session!Poll(t) \/ Session!SaveProfile(t)
      PROVE  Session!TypeOK'
  <2>1. PICK k \in {"verify", "poll", "put"} :
          pending' = [pending EXCEPT ![t] = @ \cup {Session!Request(k)}]
    BY <1>2 DEF Session!Mount, Session!Poll, Session!SaveProfile, Session!Sends
  <2>2. UNCHANGED <<ui, page, loads, cookie, owner, expired, banned, clears>>
    BY <1>2 DEF Session!Mount, Session!Poll, Session!SaveProfile, Session!server
  <2>3. pending' \in [Tabs -> SUBSET Reply]
    BY <1>a, <1>c, <2>1
  <2> QED
    BY <1>a, <1>b, <1>e, <2>2, <2>3
<1>3. ASSUME NEW t \in Tabs, NEW r \in pending[t],
             Session!VerifyAnswered(t, r) \/ Session!VerifyFails(t, r) \/ Session!ApiAnswered(t, r)
      PROVE  Session!TypeOK'
  <2>1. /\ UNCHANGED <<cookie, owner, expired, banned, loads>> /\ (clears' = clears \/ clears' = TRUE)
        /\ pending' = [pending EXCEPT ![t] = @ \ {r}]
        /\ page' = page \/ page' = [page EXCEPT ![t] = "leaving"]
        /\ \/ ui' = ui
           \/ ui' = [ui EXCEPT ![t] = r.user]
           \/ ui' = [ui EXCEPT ![t] = NoUser]
    BY <1>3 DEF Session!VerifyAnswered, Session!VerifyFails, Session!ApiAnswered, Session!Show,
       Session!Leave, Session!server
  <2>2. r.user \in Users \cup {NoUser}
    BY <1>d
  <2>3. Server'
    BY <1>a, <2>1
  <2>4. Browser'
    BY <1>a, <2>1, <2>2
  <2> QED
    BY <1>b, <2>3, <2>4
<1>4. ASSUME NEW t \in Tabs, NEW user \in Users, Session!Login(t, user)
      PROVE  Session!TypeOK'
  <2>1. Browser'
    BY <1>a, <1>4 DEF Session!Login, Session!Show, Session!Asked
  <2>2. PICK s \in Session!Sessions : cookie' = s /\ owner' = [owner EXCEPT ![s] = user]
    BY <1>4 DEF Session!Login, Session!Begins
  <2>3. UNCHANGED <<expired, banned, clears>>
    BY <1>4 DEF Session!Login
  <2> QED
    BY <1>a, <1>b, <2>1, <2>2, <2>3
<1>5. ASSUME NEW t \in Tabs, NEW user \in Users, Session!LoginRefused(t, user)
      PROVE  Session!TypeOK'
  <2>1. cookie' = 0 /\ UNCHANGED <<owner, expired, banned, clears>> /\ UNCHANGED <<ui, page, pending, loads>>
    BY <1>5 DEF Session!LoginRefused, Session!server
  <2> QED
    BY <1>a, <1>b, <1>f, <2>1
<1>6. ASSUME NEW t \in Tabs, Session!Logout(t)
      PROVE  Session!TypeOK'
  <2>1. Browser'
    BY <1>a, <1>6 DEF Session!Logout, Session!Show, Session!Leave
  <2>2. cookie' \in {0, cookie} /\ UNCHANGED <<owner, expired, banned, clears>>
    BY <1>6 DEF Session!Logout, Session!server
  <2> QED
    BY <1>a, <1>b, <2>1, <2>2
<1>7. CASE Session!CookieCleared
  <2>1. /\ cookie' \in {0, cookie} /\ clears' = FALSE
        /\ UNCHANGED <<owner, expired, banned>> /\ UNCHANGED <<ui, page, pending, loads>>
    BY <1>7 DEF Session!CookieCleared, Session!server
  <2>2. cookie' \in 0..MaxSessions /\ clears' \in BOOLEAN
    <3>1. cookie' \in 0..MaxSessions
      BY <1>a, <2>1
    <3>2. clears' \in BOOLEAN
      BY <2>1
    <3> QED
      BY <3>1, <3>2
  <2>3. Server'
    BY <1>a, <2>1, <2>2
  <2> QED
    BY <1>b, <1>f, <2>1, <2>3
<1>8. CASE Session!Elsewhere \/ Session!Expire \/ \E user \in Users : Session!Ban(user)
  <2>1. /\ UNCHANGED <<ui, page, pending>> /\ loads' = [t \in Tabs |-> 0]
        /\ clears' = clears
    BY <1>8 DEF Session!Elsewhere, Session!Expire, Session!Ban, Session!Asked
  <2>2. Browser'
    BY <1>a, <2>1
  <2>3. CASE Session!Elsewhere
    <3>1. /\ UNCHANGED <<expired, banned>>
          /\ \/ \E s \in Session!Sessions, user \in Users : cookie' = s /\ owner' = [owner EXCEPT ![s] = user]
             \/ cookie' = 0 /\ owner' = owner
      BY <2>3 DEF Session!Elsewhere, Session!Begins
    <3> QED
      BY <1>a, <1>b, <2>1, <2>2, <3>1
  <2>4. CASE Session!Expire
    BY <1>a, <1>b, <2>1, <2>2, <2>4 DEF Session!Expire, Session!Valid
  <2>5. CASE \E user \in Users : Session!Ban(user)
    BY <1>a, <1>b, <2>1, <2>2, <2>5 DEF Session!Ban
  <2> QED
    BY <1>8, <2>3, <2>4, <2>5
<1>9. CASE UNCHANGED Session!vars
  BY <1>b, <1>e, <1>f, <1>9 DEF Session!vars
<1> QED
  BY <1>1, <1>2, <1>3, <1>4, <1>5, <1>6, <1>7, <1>8, <1>9 DEF Session!Next, Session!Browser

\* Every step brings every tab nearer to rest, or is one that is asked for.
LEMMA SettleStep ==
    ASSUME Session!TypeOK, [Session!Next]_(Session!vars), NEW t \in Tabs, Settling(t)
    PROVE  Settling(t)'
<1> DEFINE V == Session!Valid(cookie)
<1>a. /\ pending \in [Tabs -> SUBSET [kind : {"verify", "poll", "put"}, status : {"ok", "401", "403"},
                                      user : Users \cup {NoUser}]]
      /\ ui \in [Tabs -> Users \cup {NoUser}] /\ page \in [Tabs -> {"login", "inside", "leaving"}]
      /\ loads \in [Tabs -> Nat]
  BY DEF Session!TypeOK
<1>b. \A k : /\ Session!Request(k).kind = k /\ Session!Request(k).status \in {"ok", "401", "403"}
             /\ Session!Request(k).status = "401" <=> ~V
  BY DEF Session!Request, Session!Answer
<1>c. 0 \notin {1, 2, 3}
  OBVIOUS
\* The loads are counted anew.
<1>1. ASSUME loads'[t] = 0
      PROVE  Settling(t)'
  BY <1>1 DEF Settling
\* Nothing changes in the tab, and the session at most ends.
<1>2. ASSUME ui'[t] = ui[t], page'[t] = page[t], pending'[t] = pending[t], loads'[t] = loads[t],
             V' => V
      PROVE  Settling(t)'
  BY <1>2 DEF Settling
\* Another tab.
<1>3. ASSUME NEW u \in Tabs, u # t,
             \/ Session!Browser(u) \/ Session!Open(u) \/ Session!Mount(u) \/ Session!SaveProfile(u)
             \/ Session!Logout(u)
             \/ \E r \in pending[u] : Session!VerifyFails(u, r)
             \/ \E user \in Users : Session!LoginRefused(u, user)
      PROVE  Settling(t)'
  <2>1. /\ ui'[t] = ui[t] /\ page'[t] = page[t] /\ pending'[t] = pending[t] /\ loads'[t] = loads[t]
        /\ cookie' \in {0, cookie} /\ expired' = expired
    BY <1>a, <1>3
    DEF Session!Browser, Session!Arrive, Session!Poll, Session!VerifyAnswered, Session!ApiAnswered,
        Session!Open, Session!Load, Session!Mount, Session!SaveProfile, Session!Logout,
        Session!VerifyFails, Session!LoginRefused, Session!Sends, Session!Show, Session!Leave,
        Session!server
  <2> QED
    BY <1>2, <2>1 DEF Session!Valid
<1>4. ASSUME \/ \E u \in Tabs, user \in Users : Session!Login(u, user)
             \/ Session!Open(t) \/ Session!Logout(t)
             \/ Session!Elsewhere \/ Session!Expire \/ \E user \in Users : Session!Ban(user)
      PROVE  Settling(t)'
  <2>1. loads'[t] = 0
    BY <1>a, <1>4 DEF Session!Login, Session!Open, Session!Load, Session!Logout, Session!Elsewhere,
       Session!Expire, Session!Ban, Session!Asked
  <2> QED
    BY <1>1, <2>1
<1>5. ASSUME \/ Session!CookieCleared \/ \E user \in Users : Session!LoginRefused(t, user)
             \/ UNCHANGED Session!vars
      PROVE  Settling(t)'
  <2>1. /\ UNCHANGED <<ui, page, pending, loads, expired>>
        /\ cookie' \in {0, cookie}
    BY <1>5 DEF Session!CookieCleared, Session!LoginRefused, Session!vars, Session!server
  <2> QED
    BY <1>2, <2>1 DEF Session!Valid
<1>6. CASE Session!Arrive(t)
  <2>1. /\ page[t] = "leaving" /\ page'[t] = "login" /\ ui'[t] = ui[t] /\ loads'[t] = loads[t] + 1
        /\ pending'[t] = {Session!Request("verify")} /\ (V' <=> V)
    BY <1>a, <1>6 DEF Session!Arrive, Session!Load, Session!server, Session!Valid
  <2>2. loads[t] \in {0, 1, 2}
    BY <1>a, <2>1 DEF Settling
  <2>3. CASE loads[t] = 0
    BY <1>b, <2>1, <2>3 DEF Settling
  <2>4. CASE loads[t] = 1
    BY <1>b, <2>1, <2>4 DEF Settling
  <2>5. CASE loads[t] = 2
    BY <1>b, <2>1, <2>5 DEF Settling
  <2> QED
    BY <2>2, <2>3, <2>4, <2>5
<1>7. ASSUME Session!Mount(t) \/ Session!SaveProfile(t)
      PROVE  Settling(t)'
  <2>1. page[t] = "inside" /\ loads' = loads
    BY <1>7 DEF Session!Mount, Session!SaveProfile
  <2>2. loads'[t] = 0
    BY <1>a, <2>1 DEF Settling
  <2> QED
    BY <1>1, <2>2
<1>8. CASE Session!Poll(t)
  <2>1. /\ ui[t] # NoUser /\ page[t] # "leaving" /\ UNCHANGED <<ui, page, loads>> /\ (V' <=> V)
        /\ pending'[t] = pending[t] \cup {Session!Request("poll")}
    BY <1>a, <1>8 DEF Session!Poll, Session!Sends, Session!server, Session!Valid
  <2> QED
    BY <1>b, <2>1 DEF Settling
<1>9. ASSUME NEW r \in pending[t], Session!VerifyFails(t, r)
      PROVE  Settling(t)'
  <2>1. UNCHANGED <<ui, page, loads>> /\ (V' <=> V) /\ pending'[t] \subseteq pending[t]
    BY <1>a, <1>9 DEF Session!VerifyFails, Session!server, Session!Valid
  <2> QED
    BY <2>1 DEF Settling
<1>10. ASSUME NEW r \in pending[t], Session!VerifyAnswered(t, r)
       PROVE  Settling(t)'
  <2>1. /\ ui'[t] = (IF r.status = "ok" THEN r.user ELSE NoUser) /\ loads' = loads /\ (V' <=> V)
        /\ pending'[t] \subseteq pending[t]
        /\ page'[t] = page[t] \/ page[t] = "inside"
    BY <1>a, <1>10 DEF Session!VerifyAnswered, Session!Show, Session!Leave, Session!server, Session!Valid
  <2> QED
    BY <2>1 DEF Settling
<1>11. ASSUME NEW r \in pending[t], Session!ApiAnswered(t, r)
       PROVE  Settling(t)'
  <2>1. /\ loads' = loads /\ (V' <=> V) /\ pending'[t] \subseteq pending[t] /\ r.kind \in {"poll", "put"}
        /\ r.status = "401" => ui'[t] = NoUser /\ page'[t] = "leaving"
        /\ r.status # "401" => page' = page /\ (ui' = ui \/ r.kind = "put")
    BY <1>a, <1>11 DEF Session!ApiAnswered, Session!Show, Session!Leave, Session!server, Session!Valid
  <2> QED
    BY <1>a, <2>1 DEF Settling
<1> QED
  BY <1>3, <1>4, <1>5, <1>6, <1>7, <1>8, <1>9, <1>10, <1>11 DEF Session!Next, Session!Browser

\* The inductive invariant of the session.
LEMMA SessionKeepsInv == PartsSpec => []SessionInv
<1>1. Session!Init => SessionInv
  <2> SUFFICES ASSUME Session!Init PROVE SessionInv
    OBVIOUS
  <2>1. Session!TypeOK
    <3>1. MaxSessions \in Nat /\ 0 \in 0..MaxSessions
      BY ProgressAssumption DEF Session!SessionAssumption
    <3>2. \A S : [t \in Tabs |-> {}] \in [Tabs -> SUBSET S]
      OBVIOUS
    <3> QED
      BY <3>1, <3>2 DEF Session!Init, Session!TypeOK
  <2>2. \A t \in Tabs : Settling(t)
    BY DEF Session!Init, Settling
  <2> QED
    BY <2>1, <2>2 DEF SessionInv
<1>2. SessionInv /\ [Session!Next]_(Session!vars) => SessionInv'
  BY SessionTypeStep, SettleStep DEF SessionInv
<1> QED
  BY <1>1, <1>2, SessionRuns, PTL

\* A tab whose session has ended is loaded three times at most without its user, whatever
\* answers were under way and whatever its other tabs do (lib/api.ts, hooks/useAuth.ts).
THEOREM TabsComeToRest == PartsSpec => []RedirectsEnd
<1>1. SessionInv => Session!RedirectsEnd
  BY DEF SessionInv, Settling, Session!RedirectsEnd
<1> QED
  BY <1>1, SessionKeepsInv, PTL DEF RedirectsEnd

-----------------------------------------------------------------------------
\* Whichever part runs keeps its types.
THEOREM PartsTypes == PartsSpec => []PartsTypeOK
<1>1. Links!Init => Links!TypeOK
  BY ProgressAssumption DEF Links!Init, Links!TypeOK, Links!ConnStates, Links!LinksAssumption
<1>2. Guard!Init => Guard!TypeOK
  <2>1. Guard!Idle \in [pc : {"idle"}, asks : Accounts]
    BY ProgressAssumption DEF Guard!Idle, Guard!GuardAssumption
  <2> QED
    BY <2>1, ProgressAssumption DEF Guard!Init, Guard!Gone, Guard!TypeOK, Guard!GuardAssumption
<1>3. PartsSpec => []Links!TypeOK
  BY <1>1, LinksTypeStep, LinksRun, PTL
<1>4. PartsSpec => []Guard!TypeOK
  BY <1>2, GuardTypeStep, GuardRuns, PTL
<1>5. RunInv /\ Links!TypeOK /\ Guard!TypeOK /\ SessionInv
        /\ part \in {"submissions", "runs", "links", "login", "session"} => PartsTypeOK
  BY DEF PartsTypeOK, RunInv, RunTypes, SessionInv
<1>6. PartsSpec => [](part \in {"submissions", "runs", "links", "login", "session"})
  <2>1. PartsInit => part \in {"submissions", "runs", "links", "login", "session"}
    BY DEF PartsInit
  <2>2. part \in {"submissions", "runs", "links", "login", "session"}
          /\ [PartsNext]_<<part, vars, runVars, linksVars, loginVars, sessionVars>>
        => (part \in {"submissions", "runs", "links", "login", "session"})'
    BY DEF PartsNext
  <2> QED
    BY <2>1, <2>2, PTL DEF PartsSpec
<1> QED
  BY <1>3, <1>4, <1>5, <1>6, RunsKeepInv, SessionKeepsInv, PTL
=============================================================================
