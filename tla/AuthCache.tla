----------------------------- MODULE AuthCache -----------------------------
(***************************************************************************)
(* Authentication of one user at the gateway: getAuthUser, its cache in    *)
(* Redis (one entry per token, stamped with the version of the user), the  *)
(* ban key, POST /auth/logout, and PUT /admin/users/:id, which changes the *)
(* row and invalidates.  Users share none of this state.                   *)
(*                                                                         *)
(* Each await is a step of its own.  A slot of Requests serves one request *)
(* after the other.  Durations are counted down by Tick, so that time      *)
(* needs no bound.                                                         *)
(***************************************************************************)
EXTENDS Integers

CONSTANTS
    Tokens,      \* the JWTs the user holds
    Life,        \* how long each token is valid; Forever for one that outlives the model
    Requests,    \* requests served at the same time
    TokenOf,     \* the token a request slot presents
    Updates,     \* PUT requests of administrators for this user
    Roles,
    TTL,         \* life of a cache entry (300 s in the code)
    BanTimes,    \* lengths of timed bans an administrator asks for
    Forever,     \* a duration that does not end; greater than all others
    MaxFaults    \* BOUND: how many Redis calls fail in one behaviour

ASSUME AuthAssumption ==
    /\ Roles # {}
    /\ Forever \in Nat
    /\ TTL \in 1..(Forever - 2)
    /\ BanTimes \subseteq 0..(Forever - 2)
    /\ Life \in [Tokens -> 1..Forever]
    /\ TokenOf \in [Requests -> Tokens]
    /\ MaxFaults \in Nat

\* The banned flag and banned_until as one number: the time left of the ban.
\* A timed ban that is over is Lapsed, its flag is still set.
Unbanned == -1
Lapsed == 0
Durations == 0..Forever
Active(ban) == ban > Lapsed

\* Bodies of PUT /admin/users/:id.  "keep": the field is absent.
Keep == -2
KeepRole == "keep"
Bodies ==
    [role : Roles \cup {KeepRole}, ban : {Keep, Unbanned, Forever} \cup BanTimes]

VARIABLES
    row,      \* [role, ban], the row of the user in the database
    ver,      \* auth:user:ver, 0 while the key does not exist
    banKey,   \* auth:ban, time left; 0 when the key does not exist
    cache,    \* auth:user:<token>, with the time left; 0 when there is no entry
    life,     \* time left of each token
    pc,       \* program counter of a request
    copy,     \* the user a request has read, from the cache or from the row
    up,       \* program counter of an update
    body,     \* what an update asks for; its ban runs down with time
    faults,
    \* history: what the properties compare
    epoch,    \* number of UPDATEs committed
    floor,    \* the newest UPDATE whose handler has come to the end
    since,    \* when the request began: floor, and whether its token had expired
    made      \* the epoch an update committed

reqVars == <<pc, copy, since>>
updVars == <<up, body, made>>
vars == <<row, ver, banKey, cache, life, pc, copy, up, body, faults,
          epoch, floor, since, made>>

\* raced: an UPDATE was committed between the read of the row and that of the version.
Copies == [role : Roles, ver : Nat, epoch : Nat, raced : BOOLEAN]
SomeRole == CHOOSE r \in Roles : TRUE
Blank == [role |-> SomeRole, ver |-> 0, epoch |-> 0, raced |-> FALSE]

NoUser == [user |-> Blank, left |-> 0]
NotBegun == [floor |-> 0, expired |-> FALSE]

Init ==
    /\ row \in [role : Roles, ban : {Unbanned}]
    /\ ver = 0
    /\ banKey = 0
    /\ cache = [t \in Tokens |-> NoUser]
    /\ life = Life
    /\ pc = [q \in Requests |-> "idle"]
    /\ copy = [q \in Requests |-> Blank]
    /\ up = [u \in Updates |-> "new"]
    /\ body = [u \in Updates |-> [role |-> KeepRole, ban |-> Keep]]
    /\ faults = 0
    /\ epoch = 0
    /\ floor = 0
    /\ since = [q \in Requests |-> NotBegun]
    /\ made = [u \in Updates |-> 0]

RedisFault == faults < MaxFaults /\ faults' = faults + 1

-----------------------------------------------------------------------------
(* getAuthUser *)

Goto(q, label) == pc' = [pc EXCEPT ![q] = label]

\* A step inside a request that keeps what it has read.
Proceed(q, label) == Goto(q, label) /\ UNCHANGED <<copy, since>>

\* The end of a request: with a user (Grant), or with 401, 403 or 503 (Deny).
Answered(q) ==
    /\ Goto(q, "idle")
    /\ copy' = [copy EXCEPT ![q] = Blank]
    /\ since' = [since EXCEPT ![q] = NotBegun]
Grant(q) == Answered(q)
Deny(q) == Answered(q)

\* What a step that only reads the shared state leaves alone.
ReadsOnly == UNCHANGED <<row, ver, banKey, cache, life, updVars, faults, epoch, floor>>
WritesCache == UNCHANGED <<row, ver, banKey, life, updVars, faults, epoch, floor>>

Hit(t) == cache[t].left > 0
Expired(t) == life[t] = 0

Begin(q) ==
    /\ pc[q] = "idle"
    /\ Goto(q, "lookup")
    /\ since' = [since EXCEPT ![q] =
           [floor |-> floor, expired |-> Expired(TokenOf[q])]]
    /\ UNCHANGED copy
    /\ ReadsOnly

\* Mutated: the hit does not look at exp.
CacheHit_NoExp(q) ==
    LET t == TokenOf[q] IN
    /\ pc[q] = "lookup"
    /\ Hit(t)
    /\ copy' = [copy EXCEPT ![q] = cache[t].user]
    /\ Goto(q, "banKey")
    /\ UNCHANGED since
    /\ ReadsOnly

\* The cached user; exp is looked at before anything else.
CacheHit(q) ==
    LET t == TokenOf[q] IN
    /\ pc[q] = "lookup"
    /\ Hit(t)
    /\ copy' = [copy EXCEPT ![q] = cache[t].user]
    /\ Goto(q, IF Expired(t) THEN "dropExpired" ELSE "banKey")
    /\ UNCHANGED since
    /\ ReadsOnly

CacheMiss(q) ==
    /\ pc[q] = "lookup"
    /\ ~Hit(TokenOf[q])
    /\ Proceed(q, "verify")
    /\ ReadsOnly

NoEntry(t) == cache' = [cache EXCEPT ![t] = NoUser]

DropExpired(q) ==
    /\ pc[q] = "dropExpired"
    /\ NoEntry(TokenOf[q])
    /\ Deny(q)
    /\ WritesCache

\* Mutated: a cached user is not checked against the ban key.
CheckBanKey_Skipped(q) ==
    /\ pc[q] = "banKey"
    /\ Proceed(q, "version")
    /\ ReadsOnly

CheckBanKey(q) ==
    /\ pc[q] = "banKey"
    /\ Proceed(q, IF banKey > 0 THEN "banInfo" ELSE "version")
    /\ ReadsOnly

\* getBanInfo and isBanActive.
ReadBanInfo(q) ==
    /\ pc[q] = "banInfo"
    /\ IF Active(row.ban) THEN Deny(q) ELSE Proceed(q, "dropBanKey")
    /\ ReadsOnly

DropBanKey(q) ==
    /\ pc[q] = "dropBanKey"
    /\ banKey' = 0
    /\ Proceed(q, "version")
    /\ UNCHANGED <<row, ver, cache, life, updVars, faults, epoch, floor>>

\* The cached user is good while its version is the current one.
CheckVersion(q) ==
    /\ pc[q] = "version"
    /\ IF copy[q].ver = ver THEN Grant(q) ELSE Proceed(q, "dropStale")
    /\ ReadsOnly

DropStale(q) ==
    /\ pc[q] = "dropStale"
    /\ NoEntry(TokenOf[q])
    /\ Proceed(q, "verify")
    /\ WritesCache

\* GET /auth/verify of the auth service: 401 for an expired token.
Verify(q) ==
    /\ pc[q] = "verify"
    /\ IF Expired(TokenOf[q]) THEN Deny(q) ELSE Proceed(q, "row")
    /\ ReadsOnly

ReadRow(q) ==
    /\ pc[q] = "row"
    /\ ~Active(row.ban)
    /\ copy' = [copy EXCEPT ![q] =
           [role |-> row.role, ver |-> 0, epoch |-> epoch, raced |-> FALSE]]
    /\ Goto(q, "rowVersion")
    /\ UNCHANGED since
    /\ ReadsOnly

\* The row is banned, or there is none.
ReadRowBanned(q) ==
    /\ pc[q] = "row"
    /\ Active(row.ban)
    /\ Deny(q)
    /\ ReadsOnly

ReadVersion(q) ==
    /\ pc[q] = "rowVersion"
    /\ copy' = [copy EXCEPT ![q].ver = ver]
    /\ Goto(q, "fill")
    /\ UNCHANGED since
    /\ ReadsOnly

\* Mutated: SET without a time to live.
Fill_NoTTL(q) ==
    /\ pc[q] = "fill"
    /\ cache' = [cache EXCEPT ![TokenOf[q]] = [user |-> copy[q], left |-> Forever]]
    /\ Grant(q)
    /\ WritesCache

Fill(q) ==
    /\ pc[q] = "fill"
    /\ cache' = [cache EXCEPT ![TokenOf[q]] = [user |-> copy[q], left |-> TTL]]
    /\ Grant(q)
    /\ WritesCache

\* The auth service does not answer, or the database fails: 503. On the cached path a
\* failing query falls through to the full verification.
Unavailable(q) ==
    /\ \/ pc[q] \in {"verify", "row"} /\ Deny(q)
       \/ pc[q] = "banInfo" /\ Proceed(q, "verify")
    /\ ReadsOnly

\* A Redis call fails: reads of the cached path fall through, deletions and the fill are
\* skipped, and a version that cannot be read is 0.
RedisFails(q) ==
    /\ RedisFault
    /\ \/ pc[q] \in {"lookup", "banKey", "version"} /\ Proceed(q, "verify")
       \/ pc[q] = "dropStale" /\ Proceed(q, "verify")
       \/ pc[q] = "dropBanKey" /\ Proceed(q, "version")
       \/ pc[q] = "rowVersion" /\ Proceed(q, "fill")
       \/ pc[q] = "dropExpired" /\ Deny(q)
       \/ pc[q] = "fill" /\ Grant(q)
    /\ UNCHANGED <<row, ver, banKey, cache, life, updVars, epoch, floor>>

\* The cookie is cleared and the entry of the token is deleted.
Logout(t) ==
    /\ Hit(t)
    /\ NoEntry(t)
    /\ UNCHANGED reqVars
    /\ WritesCache

-----------------------------------------------------------------------------
(* PUT /admin/users/:id *)

UpGoto(u, label) == up' = [up EXCEPT ![u] = label]

\* A guard refuses the body, or the row is gone.
Refuse(u) ==
    /\ up[u] = "new"
    /\ UpGoto(u, "done")
    /\ UNCHANGED <<row, ver, banKey, cache, life, reqVars, body, made, faults, epoch, floor>>

\* Mutated: an absent flag is written as NULL.
NewBan_NoCoalesce(old, asked) == asked

\* The new ban: COALESCE leaves an absent flag alone, but banned_until is overwritten,
\* with NULL when the body has none, whenever the flag is set afterwards.
NewBan(old, asked) ==
    IF asked = Keep THEN IF old = Unbanned THEN Unbanned ELSE Forever ELSE asked

\* The UPDATE. A request between its two reads now holds the old row.
Commit(u) ==
    /\ up[u] = "new"
    /\ \E b \in Bodies :
          /\ row' = [role |-> IF b.role = KeepRole THEN row.role ELSE b.role,
                     ban  |-> NewBan(row.ban, b.ban)]
          /\ body' = [body EXCEPT ![u] = b]
          /\ UpGoto(u, IF b.ban = Keep THEN "incr" ELSE "banKey")
    /\ epoch' = epoch + 1
    /\ made' = [made EXCEPT ![u] = epoch + 1]
    /\ copy' = [q \in Requests |->
                   IF pc[q] = "rowVersion" THEN [copy[q] EXCEPT !.raced = TRUE] ELSE copy[q]]
    /\ UNCHANGED <<ver, banKey, cache, life, pc, since, faults, floor>>

\* computeBanTtl rounds up; a ban that is over already gets a key without a time to live.
BanTtl(left) ==
    IF left = Unbanned THEN {0}
    ELSE IF left \in {Lapsed, Forever} THEN {Forever}
    ELSE {left, left + 1}

\* set, setEx or del of the ban key.
SetBanKey(u) ==
    /\ up[u] = "banKey"
    /\ UpGoto(u, "incr")
    /\ \/ /\ banKey' \in BanTtl(body[u].ban)
          /\ UNCHANGED faults
       \/ RedisFault /\ UNCHANGED banKey
    /\ UNCHANGED <<row, ver, cache, life, reqVars, body, made, epoch, floor>>

\* Mutated: the version stays as it is.
Invalidate_NoIncr(u) ==
    /\ up[u] = "incr"
    /\ UpGoto(u, "done")
    /\ floor' = IF made[u] > floor THEN made[u] ELSE floor
    /\ UNCHANGED <<row, ver, banKey, cache, life, reqVars, body, made, epoch, faults>>

\* invalidateUserAuthCache: INCR of the version. A failure is swallowed.
Invalidate(u) ==
    /\ up[u] = "incr"
    /\ UpGoto(u, "done")
    /\ floor' = IF made[u] > floor THEN made[u] ELSE floor
    /\ \/ ver' = ver + 1 /\ UNCHANGED faults
       \/ RedisFault /\ UNCHANGED ver
    /\ UNCHANGED <<row, banKey, cache, life, reqVars, body, made, epoch>>

-----------------------------------------------------------------------------
Sooner(d) == IF d \in 1..(Forever - 1) THEN d - 1 ELSE d

\* Time passes for bans, keys, entries and tokens alike.
Tick ==
    /\ row' = [row EXCEPT !.ban = Sooner(@)]
    /\ banKey' = Sooner(banKey)
    /\ cache' = [t \in Tokens |-> IF cache[t].left = 1 THEN NoUser
                                  ELSE [cache[t] EXCEPT !.left = Sooner(@)]]
    /\ life' = [t \in Tokens |-> Sooner(life[t])]
    /\ body' = [u \in Updates |-> [body[u] EXCEPT !.ban = Sooner(@)]]
    /\ UNCHANGED <<ver, reqVars, up, made, faults, epoch, floor>>

Serve(q) ==
    \/ CacheHit(q) \/ CacheMiss(q) \/ DropExpired(q) \/ CheckBanKey(q) \/ ReadBanInfo(q)
    \/ DropBanKey(q) \/ CheckVersion(q) \/ DropStale(q) \/ Verify(q) \/ ReadRow(q)
    \/ ReadRowBanned(q) \/ ReadVersion(q) \/ Fill(q) \/ Unavailable(q) \/ RedisFails(q)

Update(u) == Commit(u) \/ SetBanKey(u) \/ Invalidate(u) \/ Refuse(u)

Next ==
    \/ \E q \in Requests : Begin(q) \/ Serve(q)
    \/ \E t \in Tokens : Logout(t)
    \/ \E u \in Updates : Update(u)
    \/ Tick

Spec == Init /\ [][Next]_vars

\* Time passes; nothing is assumed of requests, updates and logouts.
FairSpec == Spec /\ WF_vars(Tick)

-----------------------------------------------------------------------------
(* Properties *)

\* Every variable keeps its type.
TypeOK ==
    /\ row \in [role : Roles, ban : Durations \cup {Unbanned}]
    /\ ver \in Nat
    /\ banKey \in Durations
    /\ cache \in [Tokens -> [user : Copies, left : Durations]]
    /\ life \in [Tokens -> Durations]
    /\ pc \in [Requests -> {"idle", "lookup", "dropExpired", "banKey", "banInfo", "dropBanKey",
                            "version", "dropStale", "verify", "row", "rowVersion", "fill"}]
    /\ copy \in [Requests -> Copies]
    /\ up \in [Updates -> {"new", "banKey", "incr", "done"}]
    /\ body \in [Updates -> [role : Roles \cup {KeepRole},
                             ban : Durations \cup {Keep, Unbanned}]]
    /\ faults \in 0..MaxFaults
    /\ epoch \in Nat
    /\ floor \in Nat
    /\ since \in [Requests -> [floor : Nat, expired : BOOLEAN]]
    /\ made \in [Updates -> Nat]

\* getAuthUser returns a user from the cache or after the fill, and nowhere else.
Grants(q) == pc[q] \in {"version", "fill"} /\ pc'[q] = "idle"

\* A request that begins after a PUT was answered never acts with the role or the ban
\* state from before it: "role/banned changes take effect at once" (admin.ts).
UpdateIsPrompt == [][\A q \in Requests : Grants(q) => copy[q].epoch >= since[q].floor]_vars

\* The one way around it: the user was cached by a request that read the row before the
\* UPDATE and the version after it. Without that overlap, and while Redis answers (an
\* INCR that fails invalidates nothing), the version check is exact.
StaleOnlyIfRaced ==
    [][\A q \in Requests :
          Grants(q) /\ faults = 0 =>
             copy[q].epoch >= since[q].floor \/ copy[q].raced]_vars

\* A first ban that was answered before the request began, and is still running, keeps
\* the user out: the ban key stands in front of a cached user, even of a stale one. (Later
\* bans cannot count on it: an earlier unban, or a request that still has the old row, may
\* delete the key.)
BanIsPrompt ==
    [][\A q \in Requests :
          Grants(q) /\ faults = 0 /\ epoch = 1 =>
             ~(Active(row.ban) /\ since[q].floor = epoch)]_vars

\* An expired token opens nothing, however long its cache entry outlives it.
ExpiredIsRefused == [][\A q \in Requests : Grants(q) => ~since[q].expired]_vars

\* A cached user that would still be accepted is, in the end, the user of the row: what a
\* lost INCR or an overlapping fill leaves behind lives no longer than the entry.
Fresh(t) == Hit(t) /\ cache[t].user.ver = ver => cache[t].user.epoch = epoch
EventuallyFresh == <>[](\A t \in Tokens : Fresh(t))

\* A timed ban ends by itself: only a body with banned = true bans a user.
OnlyBansBan ==
    [][~Active(row.ban) /\ Active(row.ban') =>
          \E u \in Updates : up[u] = "new" /\ up'[u] # "new" /\ body'[u].ban # Keep]_vars
=============================================================================
