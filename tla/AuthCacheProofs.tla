-------------------------- MODULE AuthCacheProofs --------------------------
(***************************************************************************)
(* Proofs about AuthCache, for any tokens, requests, updates and           *)
(* durations.                                                              *)
(***************************************************************************)
EXTENDS AuthCache, TLAPS

USE AuthAssumption

-----------------------------------------------------------------------------
(* Types *)

\* An update on its way to the ban key has asked for a ban or for its end.
BanAsked == \A u \in Updates : up[u] = "banKey" => body[u].ban # Keep

TypeInv == TypeOK /\ BanAsked

\* What a request starts from is well typed.
LEMMA BlankType == Blank \in Copies /\ NoUser \in [user : Copies, left : Durations]
<1>1. SomeRole \in Roles
  BY DEF SomeRole
<1> QED
  BY <1>1 DEF Blank, Copies, NoUser, Durations

\* Time does not take a duration out of its range.
LEMMA SoonerType ==
    ASSUME NEW d
    PROVE  /\ d \in Durations => Sooner(d) \in Durations
           /\ d \in Durations \cup {Unbanned} => Sooner(d) \in Durations \cup {Unbanned}
           /\ d \in Durations \cup {Keep, Unbanned} => Sooner(d) \in Durations \cup {Keep, Unbanned}
           /\ d \in Durations \cup {Keep, Unbanned} /\ d # Keep => Sooner(d) # Keep
BY DEF Sooner, Durations, Keep, Unbanned

\* The initial state is well typed.
LEMMA InitTypeInv == Init => TypeInv
<1>1. 0 \in Durations
  BY DEF Durations
<1>2. Life \in [Tokens -> Durations]
  BY DEF Durations
<1> QED
  BY <1>1, <1>2, BlankType DEF Init, TypeInv, TypeOK, BanAsked, NotBegun, Durations

\* A copy that gets its version, or that an UPDATE has overtaken, is still a copy.
LEMMA CopyType ==
    \A c \in Copies : /\ \A n \in Nat : [c EXCEPT !.ver = n] \in Copies
                      /\ [c EXCEPT !.raced = TRUE] \in Copies
BY DEF Copies

\* The labels of a request.
PCs == {"idle", "lookup", "dropExpired", "banKey", "banInfo", "dropBanKey",
        "version", "dropStale", "verify", "row", "rowVersion", "fill"}

\* The variables of a request keep their types when it goes on, and when it is answered.
LEMMA ProceedType ==
    ASSUME TypeOK, NEW q \in Requests, NEW l \in PCs, Proceed(q, l)
    PROVE  /\ pc' \in [Requests -> PCs]
           /\ copy' \in [Requests -> Copies]
           /\ since' \in [Requests -> [floor : Nat, expired : BOOLEAN]]
<1>1. pc \in [Requests -> PCs]
  BY DEF TypeOK, PCs
<1>2. pc' \in [Requests -> PCs]
  BY <1>1 DEF Proceed, Goto
<1> QED
  BY <1>2 DEF Proceed, TypeOK

\* A request that ends, and whose slot is free for the next one, keeps the types.
LEMMA AnsweredType ==
    ASSUME TypeOK, NEW q \in Requests, Answered(q)
    PROVE  /\ pc' \in [Requests -> PCs]
           /\ copy' \in [Requests -> Copies]
           /\ since' \in [Requests -> [floor : Nat, expired : BOOLEAN]]
<1>1. pc' \in [Requests -> PCs]
  BY DEF TypeOK, Answered, Goto, PCs
<1>2. copy' \in [Requests -> Copies]
  BY BlankType DEF TypeOK, Answered
<1>3. NotBegun \in [floor : Nat, expired : BOOLEAN]
  BY DEF NotBegun
<1>4. since' \in [Requests -> [floor : Nat, expired : BOOLEAN]]
  BY <1>3 DEF TypeOK, Answered
<1> QED
  BY <1>1, <1>2, <1>4

\* The steps of a request keep the types.
LEMMA RequestType ==
    ASSUME TypeInv, NEW q \in Requests, Begin(q) \/ Serve(q)
    PROVE  TypeInv'
<1> DEFINE ReqType == /\ pc' \in [Requests -> PCs]
                      /\ copy' \in [Requests -> Copies]
                      /\ since' \in [Requests -> [floor : Nat, expired : BOOLEAN]]
<1>a. TypeOK /\ BanAsked /\ TokenOf[q] \in Tokens
  BY DEF TypeInv
<1>b. /\ pc \in [Requests -> PCs]
      /\ copy \in [Requests -> Copies]
      /\ since \in [Requests -> [floor : Nat, expired : BOOLEAN]]
  BY <1>a DEF TypeOK, PCs
<1>c. ASSUME NEW l \in PCs, Proceed(q, l)
      PROVE  ReqType
  BY <1>a, <1>c, ProceedType
<1>d. ASSUME Answered(q)
      PROVE  ReqType
  BY <1>a, <1>d, AnsweredType
\* What is left once the variables of the request are settled.
<1>e. ASSUME ReqType, banKey' \in Durations,
             cache' \in [Tokens -> [user : Copies, left : Durations]],
             faults' \in 0..MaxFaults,
             UNCHANGED <<row, ver, life, updVars, epoch, floor>>
      PROVE  TypeInv'
  BY <1>a, <1>e DEF TypeInv, TypeOK, BanAsked, updVars, PCs
<1>f. ASSUME ReqType, ReadsOnly
      PROVE  TypeInv'
  BY <1>a, <1>e, <1>f DEF ReadsOnly, TypeOK
<1>g. ASSUME ReqType, WritesCache,
             cache' \in [Tokens -> [user : Copies, left : Durations]]
      PROVE  TypeInv'
  BY <1>a, <1>e, <1>g DEF WritesCache, TypeOK
<1>h. ASSUME NoEntry(TokenOf[q])
      PROVE  cache' \in [Tokens -> [user : Copies, left : Durations]]
  BY <1>a, <1>h, BlankType DEF NoEntry, TypeOK
<1>1. CASE Begin(q)
  <2>1. pc' \in [Requests -> PCs] /\ copy' \in [Requests -> Copies]
    BY <1>1, <1>b DEF Begin, Goto, PCs
  <2>2. floor \in Nat /\ Expired(TokenOf[q]) \in BOOLEAN
    BY <1>a DEF TypeOK, Expired
  <2>3. [floor |-> floor, expired |-> Expired(TokenOf[q])] \in [floor : Nat, expired : BOOLEAN]
    BY <2>2
  <2>4. since' \in [Requests -> [floor : Nat, expired : BOOLEAN]]
    BY <1>1, <1>b, <2>3 DEF Begin
  <2> QED
    BY <1>1, <1>f, <2>1, <2>4 DEF Begin
<1>2. CASE CacheHit(q)
  <2>1. pc' \in [Requests -> PCs]
    BY <1>2, <1>b DEF CacheHit, Goto, PCs
  <2>2. cache[TokenOf[q]].user \in Copies
    BY <1>a DEF TypeOK
  <2>3. copy' \in [Requests -> Copies] /\ since' = since
    BY <1>2, <1>b, <2>2 DEF CacheHit
  <2> QED
    BY <1>2, <1>b, <1>f, <2>1, <2>3 DEF CacheHit
<1>3. CASE CacheMiss(q)
  BY <1>3, <1>c, <1>f DEF CacheMiss, PCs
<1>4. CASE DropExpired(q)
  BY <1>4, <1>d, <1>g, <1>h DEF DropExpired, Deny
<1>5. CASE CheckBanKey(q)
  BY <1>5, <1>c, <1>f DEF CheckBanKey, PCs
<1>6. CASE ReadBanInfo(q)
  BY <1>6, <1>c, <1>d, <1>f DEF ReadBanInfo, Deny, PCs
<1>7. CASE DropBanKey(q)
  <2>1. ReqType
    BY <1>7, <1>c DEF DropBanKey, PCs
  <2> QED
    BY <1>7, <1>a, <1>e, <2>1 DEF DropBanKey, TypeOK, Durations
<1>8. CASE CheckVersion(q)
  BY <1>8, <1>c, <1>d, <1>f DEF CheckVersion, Grant, PCs
<1>9. CASE DropStale(q)
  BY <1>9, <1>c, <1>g, <1>h DEF DropStale, PCs
<1>10. CASE Verify(q)
  BY <1>10, <1>c, <1>d, <1>f DEF Verify, Deny, PCs
<1>11. CASE ReadRow(q)
  <2>1. pc' \in [Requests -> PCs]
    BY <1>11, <1>b DEF ReadRow, Goto, PCs
  <2>2. [role |-> row.role, ver |-> 0, epoch |-> epoch, raced |-> FALSE] \in Copies
    BY <1>a DEF TypeOK, Copies
  <2>3. copy' \in [Requests -> Copies] /\ since' = since
    BY <1>11, <1>b, <2>2 DEF ReadRow
  <2> QED
    BY <1>11, <1>b, <1>f, <2>1, <2>3 DEF ReadRow
<1>12. CASE ReadRowBanned(q)
  BY <1>12, <1>d, <1>f DEF ReadRowBanned, Deny
<1>13. CASE ReadVersion(q)
  <2>1. pc' \in [Requests -> PCs]
    BY <1>13, <1>b DEF ReadVersion, Goto, PCs
  <2>2. [copy[q] EXCEPT !.ver = ver] \in Copies
    BY <1>a, <1>b, CopyType DEF TypeOK
  <2>3. copy' \in [Requests -> Copies] /\ since' = since
    BY <1>13, <1>b, <2>2 DEF ReadVersion
  <2> QED
    BY <1>13, <1>b, <1>f, <2>1, <2>3 DEF ReadVersion
<1>14. CASE Fill(q)
  <2>1. cache' \in [Tokens -> [user : Copies, left : Durations]]
    BY <1>14, <1>a, <1>b DEF Fill, TypeOK, Durations
  <2> QED
    BY <1>14, <1>d, <1>g, <2>1 DEF Fill, Grant
<1>15. CASE Unavailable(q)
  BY <1>15, <1>c, <1>d, <1>f DEF Unavailable, Deny, PCs
<1>16. CASE RedisFails(q)
  <2>1. ReqType
    BY <1>16, <1>c, <1>d DEF RedisFails, Grant, Deny, PCs
  <2>2. faults' \in 0..MaxFaults
    BY <1>16, <1>a DEF RedisFails, RedisFault, TypeOK
  <2> QED
    BY <1>16, <1>a, <1>e, <2>1, <2>2 DEF RedisFails, TypeOK
<1> QED
  BY <1>1, <1>2, <1>3, <1>4, <1>5, <1>6, <1>7, <1>8, <1>9, <1>10, <1>11, <1>12, <1>13,
     <1>14, <1>15, <1>16 DEF Serve

\* The time to live of a ban key is a duration.
LEMMA BanTtlType ==
    ASSUME NEW left \in Durations \cup {Unbanned}, NEW ttl \in BanTtl(left)
    PROVE  ttl \in Durations
<1>1. CASE left = Unbanned
  BY <1>1 DEF BanTtl, Durations
<1>2. CASE left # Unbanned /\ left \in {Lapsed, Forever}
  BY <1>2 DEF BanTtl, Durations
<1>3. CASE left # Unbanned /\ left \notin {Lapsed, Forever}
  <2>1. left \in 0..Forever /\ left # 0 /\ left # Forever
    BY <1>3 DEF Durations, Lapsed
  <2>2. ttl = left \/ ttl = left + 1
    BY <1>3 DEF BanTtl
  <2> QED
    BY <2>1, <2>2 DEF Durations
<1> QED
  BY <1>1, <1>2, <1>3

\* The steps of an update keep the types.
LEMMA UpdateType ==
    ASSUME TypeInv, NEW u \in Updates, Update(u)
    PROVE  TypeInv'
<1> USE DEF TypeInv, TypeOK, BanAsked, reqVars, updVars
<1>1. CASE Commit(u)
  <2>1. PICK b \in Bodies :
          /\ row' = [role |-> IF b.role = KeepRole THEN row.role ELSE b.role,
                     ban  |-> NewBan(row.ban, b.ban)]
          /\ body' = [body EXCEPT ![u] = b]
          /\ UpGoto(u, IF b.ban = Keep THEN "incr" ELSE "banKey")
    BY <1>1 DEF Commit
  <2>2. /\ b.role \in Roles \cup {KeepRole}
        /\ b.ban \in Durations \cup {Keep, Unbanned}
        /\ b \in [role : Roles \cup {KeepRole}, ban : Durations \cup {Keep, Unbanned}]
    <3>1. Forever \in Durations /\ BanTimes \subseteq Durations
      BY DEF Durations
    <3> QED
      BY <3>1 DEF Bodies
  <2>3. NewBan(row.ban, b.ban) \in Durations \cup {Unbanned}
    BY <2>2 DEF NewBan, Durations
  <2>4. row' \in [role : Roles, ban : Durations \cup {Unbanned}]
    BY <2>1, <2>2, <2>3
  <2>5. copy' \in [Requests -> Copies]
    BY <1>1, CopyType DEF Commit
  <2>6. up' \in [Updates -> {"new", "banKey", "incr", "done"}]
    BY <2>1 DEF UpGoto
  <2>7. BanAsked'
    BY <2>1, <2>2 DEF UpGoto
  <2> QED
    <3>1. body' \in [Updates -> [role : Roles \cup {KeepRole}, ban : Durations \cup {Keep, Unbanned}]]
      BY <2>1, <2>2
    <3>2. epoch' \in Nat /\ made' \in [Updates -> Nat]
      BY <1>1 DEF Commit
    <3>3. UNCHANGED <<ver, banKey, cache, life, pc, since, faults, floor>>
      BY <1>1 DEF Commit
    <3> QED
      BY <2>4, <2>5, <2>6, <2>7, <3>1, <3>2, <3>3
<1>2. CASE SetBanKey(u)
  <2>1. body[u].ban \in Durations \cup {Unbanned}
    BY <1>2 DEF SetBanKey
  <2>2. banKey' \in Durations
    BY <1>2, <2>1, BanTtlType DEF SetBanKey
  <2> QED
    BY <1>2, <2>2 DEF SetBanKey, UpGoto, RedisFault
<1>3. CASE Invalidate(u)
  BY <1>3 DEF Invalidate, UpGoto, RedisFault
<1>4. CASE Refuse(u)
  BY <1>4 DEF Refuse, UpGoto
<1> QED
  BY <1>1, <1>2, <1>3, <1>4 DEF Update

\* The passing of time keeps the types.
LEMMA TimeType == TypeInv /\ Tick => TypeInv'
<1> USE DEF TypeInv, TypeOK, BanAsked, reqVars
<1> SUFFICES ASSUME TypeInv, Tick
             PROVE  TypeInv'
  OBVIOUS
<1>1. row' \in [role : Roles, ban : Durations \cup {Unbanned}]
  BY SoonerType DEF Tick
<1>2. banKey' \in Durations /\ life' \in [Tokens -> Durations]
  BY SoonerType DEF Tick
<1>3. cache' \in [Tokens -> [user : Copies, left : Durations]]
  BY SoonerType, BlankType DEF Tick
<1>4. body' \in [Updates -> [role : Roles \cup {KeepRole}, ban : Durations \cup {Keep, Unbanned}]]
  BY SoonerType DEF Tick
<1>5. BanAsked'
  BY SoonerType DEF Tick
<1> QED
  BY <1>1, <1>2, <1>3, <1>4, <1>5 DEF Tick

\* Every step keeps the types.
LEMMA NextType == TypeInv /\ [Next]_vars => TypeInv'
<1> SUFFICES ASSUME TypeInv, [Next]_vars
             PROVE  TypeInv'
  OBVIOUS
<1>1. ASSUME NEW t \in Tokens, Logout(t)
      PROVE  TypeInv'
  BY <1>1, BlankType
  DEF Logout, NoEntry, WritesCache, TypeInv, TypeOK, BanAsked, reqVars, updVars
<1>2. CASE UNCHANGED vars
  BY <1>2 DEF vars, TypeInv, TypeOK, BanAsked
<1> QED
  BY <1>1, <1>2, RequestType, UpdateType, TimeType DEF Next

\* Type correctness of the authentication cache.
THEOREM CacheTypeCorrect == Spec => []TypeOK
<1>1. TypeInv => TypeOK
  BY DEF TypeInv
<1> QED
  BY <1>1, InitTypeInv, NextType, PTL DEF Spec

-----------------------------------------------------------------------------
(* A stale user is granted only after an overlap *)

\* A user that was read without overlap is either refused by the version check, or as
\* recent as every update that has been answered.
Exact(c) == c.raced \/ c.ver < ver \/ (c.ver = ver /\ c.epoch >= floor)

Entries == \A t \in Tokens : Hit(t) => Exact(cache[t].user)

\* What a request has in hand: a cached user, or the row it has read.
Cached == {"dropExpired", "banKey", "banInfo", "dropBanKey", "version"}
HoldsUser(q) ==
    /\ pc[q] \in Cached \cup {"fill"} => Exact(copy[q])
    /\ pc[q] \in {"rowVersion", "fill"} => copy[q].epoch >= since[q].floor
    /\ pc[q] = "rowVersion" => copy[q].raced \/ copy[q].epoch = epoch

\* The numbers of the updates: committed before answered, answered before seen.
Ordered ==
    /\ floor <= epoch
    /\ \A u \in Updates : made[u] <= epoch
    /\ \A q \in Requests : since[q].floor <= floor

\* The inductive invariant. StaleOnlyIfRaced speaks of the moment a user is granted; the
\* reason lies in what was cached and read before it.
FreshInv == Ordered /\ (faults = 0 => Entries /\ \A q \in Requests : HoldsUser(q))

\* Nothing is cached, read or answered initially.
LEMMA FreshInit == Init => FreshInv
BY DEF Init, FreshInv, Ordered, Entries, Hit, NoUser, HoldsUser, Cached, NotBegun

\* A request that takes user c and time s to label l keeps the invariant when c and s are
\* as the label demands.
LEMMA RequestMoves ==
    ASSUME TypeOK, FreshInv, NEW q \in Requests, NEW l, NEW c, NEW s,
           pc' = [pc EXCEPT ![q] = l], copy' = [copy EXCEPT ![q] = c],
           since' = [since EXCEPT ![q] = s], s.floor <= floor,
           UNCHANGED <<epoch, floor, ver, made>>, faults' = 0 => faults = 0,
           faults' = 0 =>
              /\ Entries'
              /\ l \in Cached \cup {"fill"} => Exact(c)
              /\ l \in {"rowVersion", "fill"} => c.epoch >= s.floor
              /\ l = "rowVersion" => c.raced \/ c.epoch = epoch
    PROVE  FreshInv'
<1>1. /\ pc'[q] = l /\ copy'[q] = c /\ since'[q] = s
      /\ \A p \in Requests \ {q} : pc'[p] = pc[p] /\ copy'[p] = copy[p] /\ since'[p] = since[p]
  BY DEF TypeOK
<1>2. Ordered'
  BY <1>1 DEF FreshInv, Ordered
<1>3. ASSUME faults' = 0, NEW p \in Requests
      PROVE  HoldsUser(p)'
  <2>1. CASE p = q
    BY <1>1, <1>3, <2>1 DEF HoldsUser, Exact
  <2>2. CASE p # q
    BY <1>1, <1>3, <2>2 DEF FreshInv, HoldsUser, Exact
  <2> QED
    BY <2>1, <2>2
<1> QED
  BY <1>2, <1>3 DEF FreshInv

\* The steps of a request.
LEMMA RequestFresh ==
    ASSUME TypeInv, FreshInv, NEW q \in Requests, Begin(q) \/ Serve(q)
    PROVE  FreshInv'
<1> USE DEF Goto, ReadsOnly, WritesCache, updVars
<1>a. /\ TypeOK /\ Ordered /\ TokenOf[q] \in Tokens
      /\ faults \in Nat /\ epoch \in Nat /\ floor \in Nat /\ ver \in Nat
      /\ copy = [copy EXCEPT ![q] = copy[q]] /\ since = [since EXCEPT ![q] = since[q]]
      /\ since[q].floor <= floor /\ floor <= epoch /\ NotBegun.floor <= floor
      /\ since[q].floor \in Nat
  BY DEF TypeInv, TypeOK, FreshInv, Ordered, NotBegun
<1>b. faults = 0 => Entries /\ HoldsUser(q)
  BY DEF FreshInv
\* A request that is answered, and one that goes on with what it has.
<1>c. ASSUME Answered(q), UNCHANGED <<epoch, floor, ver, made>>, faults' = 0 => faults = 0,
             faults' = 0 => Entries'
      PROVE  FreshInv'
  BY <1>a, <1>c, RequestMoves DEF Answered, Cached
<1>d. ASSUME NEW l, Proceed(q, l), UNCHANGED <<epoch, floor, ver, made>>,
             faults' = 0 => faults = 0 /\ Entries',
             faults' = 0 => /\ l \in Cached => pc[q] \in Cached
                            /\ l \notin {"rowVersion", "fill"}
      PROVE  FreshInv'
  <2>1. /\ pc' = [pc EXCEPT ![q] = l] /\ copy' = [copy EXCEPT ![q] = copy[q]]
        /\ since' = [since EXCEPT ![q] = since[q]]
    BY <1>a, <1>d DEF Proceed
  <2>2. faults' = 0 =>
              /\ Entries'
              /\ l \in Cached \cup {"fill"} => Exact(copy[q])
              /\ l \in {"rowVersion", "fill"} => copy[q].epoch >= since[q].floor
              /\ l = "rowVersion" => copy[q].raced \/ copy[q].epoch = epoch
    BY <1>b, <1>d DEF HoldsUser
  <2> QED
    BY <1>a, <1>d, <2>1, <2>2, RequestMoves
\* The cache keeps what it has, or loses an entry.
<1>e. ASSUME UNCHANGED <<cache, ver, floor>>, Entries
      PROVE  Entries'
  BY <1>e DEF Entries, Hit, Exact
<1>f. ASSUME NoEntry(TokenOf[q]), UNCHANGED <<ver, floor>>, Entries
      PROVE  Entries'
  BY <1>a, <1>f DEF NoEntry, NoUser, Entries, Hit, Exact, TypeOK
<1>1. CASE Begin(q)
  <2>1. /\ pc' = [pc EXCEPT ![q] = "lookup"] /\ copy' = [copy EXCEPT ![q] = copy[q]]
        /\ since' = [since EXCEPT ![q] = [floor |-> floor, expired |-> Expired(TokenOf[q])]]
        /\ UNCHANGED <<epoch, floor, ver, made, faults, cache>>
    BY <1>1, <1>a DEF Begin
  <2>2. [floor |-> floor, expired |-> Expired(TokenOf[q])].floor <= floor
    BY <1>a
  <2> QED
    BY <1>a, <1>b, <1>e, <2>1, <2>2, RequestMoves DEF Cached
<1>2. CASE CacheHit(q)
  <2> DEFINE l == IF Expired(TokenOf[q]) THEN "dropExpired" ELSE "banKey"
  <2>1. /\ pc' = [pc EXCEPT ![q] = l] /\ copy' = [copy EXCEPT ![q] = cache[TokenOf[q]].user]
        /\ since' = [since EXCEPT ![q] = since[q]] /\ Hit(TokenOf[q])
        /\ UNCHANGED <<epoch, floor, ver, made, faults, cache>>
    BY <1>2, <1>a DEF CacheHit
  <2>2. faults = 0 => Exact(cache[TokenOf[q]].user)
    BY <1>a, <1>b, <2>1 DEF Entries
  <2>3. l \notin {"rowVersion", "fill"}
    OBVIOUS
  <2> QED
    BY <1>a, <1>b, <1>e, <2>1, <2>2, <2>3, RequestMoves
<1>3. CASE CacheMiss(q)
  BY <1>3, <1>b, <1>d, <1>e DEF CacheMiss, Cached
<1>4. CASE DropExpired(q)
  BY <1>4, <1>b, <1>c, <1>f DEF DropExpired, Deny
<1>5. CASE CheckBanKey(q)
  BY <1>5, <1>b, <1>d, <1>e DEF CheckBanKey, Cached
<1>6. CASE ReadBanInfo(q)
  BY <1>6, <1>b, <1>c, <1>d, <1>e DEF ReadBanInfo, Deny, Cached
<1>7. CASE DropBanKey(q)
  BY <1>7, <1>b, <1>d, <1>e DEF DropBanKey, Cached
<1>8. CASE CheckVersion(q)
  BY <1>8, <1>b, <1>c, <1>d, <1>e DEF CheckVersion, Grant, Cached
<1>9. CASE DropStale(q)
  BY <1>9, <1>b, <1>d, <1>f DEF DropStale, Cached
<1>10. CASE Verify(q)
  BY <1>10, <1>b, <1>c, <1>d, <1>e DEF Verify, Deny, Cached
<1>11. CASE ReadRow(q)
  <2> DEFINE c == [role |-> row.role, ver |-> 0, epoch |-> epoch, raced |-> FALSE]
  <2>1. /\ pc' = [pc EXCEPT ![q] = "rowVersion"] /\ copy' = [copy EXCEPT ![q] = c]
        /\ since' = [since EXCEPT ![q] = since[q]]
        /\ UNCHANGED <<epoch, floor, ver, made, faults, cache>>
    BY <1>11, <1>a DEF ReadRow
  <2>2. c.epoch = epoch /\ c.epoch >= since[q].floor
    BY <1>a
  <2> QED
    BY <1>a, <1>b, <1>e, <2>1, <2>2, RequestMoves DEF Cached
<1>12. CASE ReadRowBanned(q)
  BY <1>12, <1>b, <1>c, <1>e DEF ReadRowBanned, Deny
<1>13. CASE ReadVersion(q)
  <2> DEFINE c == [copy[q] EXCEPT !.ver = ver]
  <2>1. /\ pc' = [pc EXCEPT ![q] = "fill"] /\ copy' = [copy EXCEPT ![q] = c]
        /\ since' = [since EXCEPT ![q] = since[q]] /\ pc[q] = "rowVersion"
        /\ UNCHANGED <<epoch, floor, ver, made, faults, cache>>
    BY <1>13, <1>a DEF ReadVersion
  <2>2. c.ver = ver /\ c.epoch = copy[q].epoch /\ (c.raced <=> copy[q].raced)
    BY <1>a DEF TypeOK, Copies
  <2>3. faults = 0 => Exact(c) /\ c.epoch >= since[q].floor
    BY <1>a, <1>b, <2>1, <2>2 DEF HoldsUser, Exact
  <2> QED
    BY <1>a, <1>b, <1>e, <2>1, <2>3, RequestMoves
<1>14. CASE Fill(q)
  <2>1. /\ cache' = [cache EXCEPT ![TokenOf[q]] = [user |-> copy[q], left |-> TTL]]
        /\ Answered(q) /\ pc[q] = "fill" /\ UNCHANGED <<epoch, floor, ver, made, faults>>
    BY <1>14 DEF Fill, Grant
  <2>2. faults = 0 => Exact(copy[q])
    BY <1>b, <2>1 DEF HoldsUser
  <2>3. faults = 0 => Entries'
    BY <1>a, <1>b, <2>1, <2>2 DEF Entries, Hit, Exact, TypeOK
  <2> QED
    BY <1>c, <2>1, <2>3
<1>15. CASE Unavailable(q)
  BY <1>15, <1>b, <1>c, <1>d, <1>e DEF Unavailable, Deny, Cached
<1>16. CASE RedisFails(q)
  <2>1. faults' # 0 /\ UNCHANGED <<epoch, floor, ver, made>>
    BY <1>16, <1>a DEF RedisFails, RedisFault
  <2>2. ASSUME NEW l, Proceed(q, l)
        PROVE  FreshInv'
    BY <1>d, <2>1, <2>2
  <2>3. ASSUME Answered(q)
        PROVE  FreshInv'
    BY <1>c, <2>1, <2>3
  <2> QED
    BY <1>16, <2>2, <2>3 DEF RedisFails, Grant, Deny
<1> QED
  BY <1>1, <1>2, <1>3, <1>4, <1>5, <1>6, <1>7, <1>8, <1>9, <1>10, <1>11, <1>12, <1>13,
     <1>14, <1>15, <1>16 DEF Serve

\* The steps of an update: COMMIT marks the readers it overtakes, INCR outdates the rest.
LEMMA UpdateFresh ==
    ASSUME TypeInv, FreshInv, NEW u \in Updates, Update(u)
    PROVE  FreshInv'
<1>a. /\ TypeOK /\ Ordered /\ faults \in Nat /\ epoch \in Nat /\ floor \in Nat /\ ver \in Nat
      /\ made \in [Updates -> Nat] /\ made[u] <= epoch /\ floor <= epoch
  BY DEF TypeInv, TypeOK, FreshInv, Ordered
<1>b. faults = 0 => Entries /\ \A q \in Requests : HoldsUser(q)
  BY DEF FreshInv
<1>1. CASE Commit(u)
  <2>1. /\ epoch' = epoch + 1 /\ made' = [made EXCEPT ![u] = epoch + 1]
        /\ copy' = [q \in Requests |->
              IF pc[q] = "rowVersion" THEN [copy[q] EXCEPT !.raced = TRUE] ELSE copy[q]]
        /\ UNCHANGED <<ver, cache, pc, since, faults, floor>>
    BY <1>1 DEF Commit
  <2>2. Ordered'
    BY <1>a, <2>1 DEF Ordered
  <2>3. Entries => Entries'
    BY <2>1 DEF Entries, Hit, Exact
  <2>4. ASSUME NEW q \in Requests, HoldsUser(q)
        PROVE  HoldsUser(q)'
    <3>1. CASE pc[q] = "rowVersion"
      <4>1. copy'[q] = [copy[q] EXCEPT !.raced = TRUE]
        BY <2>1, <3>1
      <4>2. copy'[q].raced /\ copy'[q].epoch = copy[q].epoch
        BY <4>1, <1>a DEF TypeOK, Copies
      <4> QED
        BY <2>1, <2>4, <3>1, <4>2 DEF HoldsUser, Cached
    <3>2. CASE pc[q] # "rowVersion"
      BY <2>1, <2>4, <3>2 DEF HoldsUser, Exact
    <3> QED
      BY <3>1, <3>2
  <2> QED
    BY <1>b, <2>1, <2>2, <2>3, <2>4 DEF FreshInv
<1>2. CASE SetBanKey(u) \/ Refuse(u)
  <2>1. UNCHANGED <<ver, cache, pc, copy, since, floor, epoch, made>>
    BY <1>2 DEF SetBanKey, Refuse, reqVars
  <2>2. faults' = 0 => faults = 0
    BY <1>2, <1>a DEF SetBanKey, Refuse, RedisFault
  <2> QED
    BY <1>b, <2>1, <2>2 DEF FreshInv, Ordered, Entries, Hit, HoldsUser, Exact
<1>3. CASE Invalidate(u)
  <2>1. /\ floor' = IF made[u] > floor THEN made[u] ELSE floor
        /\ UNCHANGED <<cache, pc, copy, since, epoch, made>>
    BY <1>3 DEF Invalidate, reqVars
  <2>2. floor' \in Nat /\ floor <= floor' /\ floor' <= epoch
    BY <1>a, <2>1
  <2>3. Ordered'
    BY <1>a, <2>1, <2>2 DEF Ordered, TypeOK
  <2>4. faults' = 0 => faults = 0 /\ ver' = ver + 1
    BY <1>3, <1>a DEF Invalidate, RedisFault
  <2>5. ASSUME faults' = 0, NEW c \in Copies, Exact(c)
        PROVE  c.raced \/ c.ver < ver'
    BY <1>a, <2>4, <2>5 DEF Exact, Copies
  <2>6. faults' = 0 => Entries'
    BY <1>a, <1>b, <2>1, <2>4, <2>5 DEF Entries, Hit, Exact, TypeOK
  <2>7. ASSUME faults' = 0, NEW q \in Requests
        PROVE  HoldsUser(q)'
    BY <1>a, <1>b, <2>1, <2>4, <2>5, <2>7 DEF HoldsUser, Exact, TypeOK
  <2> QED
    BY <2>3, <2>6, <2>7 DEF FreshInv
<1> QED
  BY <1>1, <1>2, <1>3 DEF Update

\* Every step keeps the invariant: time and logout only remove entries.
LEMMA FreshStep ==
    ASSUME TypeInv, FreshInv, [Next]_vars
    PROVE  FreshInv'
<1>a. TypeOK
  BY DEF TypeInv
<1>1. ASSUME UNCHANGED <<ver, pc, copy, since, made, faults, epoch, floor>>,
             \A t \in Tokens : Hit(t)' => Hit(t) /\ cache'[t].user = cache[t].user
      PROVE  FreshInv'
  BY <1>1 DEF FreshInv, Ordered, Entries, HoldsUser, Exact
<1>2. CASE Tick
  <2>1. UNCHANGED <<ver, pc, copy, since, made, faults, epoch, floor>>
    BY <1>2 DEF Tick, reqVars
  <2>2. ASSUME NEW t \in Tokens, Hit(t)'
        PROVE  Hit(t) /\ cache'[t].user = cache[t].user
    <3>1. cache'[t] = IF cache[t].left = 1 THEN NoUser
                      ELSE [cache[t] EXCEPT !.left = Sooner(@)]
      BY <1>2 DEF Tick
    <3>2. cache[t].left # 1
      BY <2>2, <3>1 DEF Hit, NoUser
    <3>3. cache[t] \in [user : Copies, left : Durations]
      BY <1>a DEF TypeOK
    <3>4. cache'[t].user = cache[t].user /\ cache'[t].left = Sooner(cache[t].left)
      BY <3>1, <3>2, <3>3
    <3> QED
      BY <2>2, <3>3, <3>4 DEF Hit, Sooner, Durations
  <2> QED
    BY <1>1, <2>1, <2>2
<1>3. ASSUME NEW t \in Tokens, Logout(t)
      PROVE  FreshInv'
  <2>1. /\ cache' = [cache EXCEPT ![t] = NoUser]
        /\ UNCHANGED <<ver, pc, copy, since, made, faults, epoch, floor>>
    BY <1>3 DEF Logout, NoEntry, WritesCache, reqVars, updVars
  <2>2. ASSUME NEW s \in Tokens, Hit(s)'
        PROVE  Hit(s) /\ cache'[s].user = cache[s].user
    BY <1>a, <2>1, <2>2 DEF Hit, NoUser, TypeOK
  <2> QED
    BY <1>1, <2>1, <2>2
<1>4. CASE UNCHANGED vars
  BY <1>1, <1>4 DEF vars, Hit
<1> QED
  BY <1>2, <1>3, <1>4, RequestFresh, UpdateFresh DEF Next

\* A user is granted after the version check, or after the fill.
LEMMA GrantGuard ==
    ASSUME TypeInv, [Next]_vars, NEW q \in Requests, Grants(q)
    PROVE  pc[q] = "fill" \/ (pc[q] = "version" /\ copy[q].ver = ver)
<1>a. pc[q] \in {"version", "fill"} /\ pc'[q] = "idle"
      /\ pc \in [Requests -> PCs]
  BY DEF Grants, TypeInv, TypeOK, PCs
<1>1. ASSUME NEW p \in Requests, Begin(p) \/ Serve(p)
      PROVE  pc[q] = "fill" \/ copy[q].ver = ver
  <2>1. PICK l : pc' = [pc EXCEPT ![p] = l]
    BY <1>1 DEF Begin, Serve, CacheHit, CacheMiss, DropExpired, CheckBanKey, ReadBanInfo,
       DropBanKey, CheckVersion, DropStale, Verify, ReadRow, ReadRowBanned, ReadVersion,
       Fill, Unavailable, RedisFails, Proceed, Answered, Grant, Deny, Goto
  <2>2. p = q
    BY <1>a, <2>1
  <2>3. CASE pc[q] = "version"
    BY <1>1, <1>a, <2>2, <2>3 DEF Begin, Serve, CacheHit, CacheMiss, DropExpired, CheckBanKey,
       ReadBanInfo, DropBanKey, CheckVersion, DropStale, Verify, ReadRow, ReadRowBanned,
       ReadVersion, Fill, Unavailable, RedisFails, Proceed, Goto
  <2> QED
    BY <1>a, <2>3
<1>2. CASE UNCHANGED pc
  BY <1>a, <1>2
<1>3. ASSUME NEW u \in Updates, Update(u)
      PROVE  UNCHANGED pc
  BY <1>3 DEF Update, Commit, SetBanKey, Invalidate, Refuse, reqVars
<1> QED
  BY <1>a, <1>1, <1>2, <1>3 DEF Next, Tick, Logout, reqVars, vars

\* While Redis answers, a request acts with data older than the last answered update only
\* if the user was cached by a request whose two reads that update overlapped.
THEOREM StaleOnlyByOverlap == Spec => StaleOnlyIfRaced
<1>1. Init => TypeInv /\ FreshInv
  BY InitTypeInv, FreshInit
<1>2. TypeInv /\ FreshInv /\ [Next]_vars => TypeInv' /\ FreshInv'
  BY NextType, FreshStep
<1>3. TypeInv /\ FreshInv /\ [Next]_vars =>
        [\A q \in Requests :
            Grants(q) /\ faults = 0 =>
               copy[q].epoch >= since[q].floor \/ copy[q].raced]_vars
  <2> SUFFICES ASSUME TypeInv, FreshInv, [Next]_vars, NEW q \in Requests, Grants(q), faults = 0
               PROVE  copy[q].epoch >= since[q].floor \/ copy[q].raced
    OBVIOUS
  <2>1. HoldsUser(q) /\ since[q].floor <= floor
    BY DEF FreshInv, Ordered
  <2>2. CASE pc[q] = "fill"
    BY <2>1, <2>2 DEF HoldsUser
  <2>3. CASE pc[q] = "version" /\ copy[q].ver = ver
    <3>1. /\ copy[q] \in Copies /\ floor \in Nat /\ ver \in Nat
          /\ since[q] \in [floor : Nat, expired : BOOLEAN]
      BY DEF TypeInv, TypeOK
    <3>2. Exact(copy[q])
      BY <2>1, <2>3 DEF HoldsUser, Cached
    <3> QED
      BY <2>1, <2>3, <3>1, <3>2 DEF Exact, Copies
  <2> QED
    BY <2>2, <2>3, GrantGuard
<1> QED
  BY <1>1, <1>2, <1>3, PTL DEF Spec, StaleOnlyIfRaced

-----------------------------------------------------------------------------
(* An expired token opens nothing *)

\* The steps of a request, seen from outside: other requests stay where they are; this one
\* begins, is answered, or keeps what it noted when it began.
LEMMA RequestSteps ==
    ASSUME TypeInv, NEW q \in Requests, Begin(q) \/ Serve(q)
    PROVE  /\ \A p \in Requests \ {q} : pc'[p] = pc[p] /\ since'[p] = since[p]
           /\ UNCHANGED <<row, ver, life, up, body, made, epoch, floor>>
           /\ \/ /\ pc[q] = "idle" /\ pc'[q] = "lookup"
                 /\ since'[q] = [floor |-> floor, expired |-> Expired(TokenOf[q])]
              \/ pc'[q] = "idle" /\ since'[q] = NotBegun
              \/ pc'[q] # "idle" /\ since'[q] = since[q]
<1> USE DEF Proceed, Goto, ReadsOnly, WritesCache, updVars
<1>t. pc \in [Requests -> PCs] /\ since \in [Requests -> [floor : Nat, expired : BOOLEAN]]
  BY DEF TypeInv, TypeOK, PCs
<1>1. CASE Begin(q)
  BY <1>1, <1>t DEF Begin
<1>2. CASE Serve(q)
  <2>1. UNCHANGED <<row, ver, life, up, body, made, epoch, floor>>
    BY <1>2 DEF Serve, CacheHit, CacheMiss, DropExpired, CheckBanKey, ReadBanInfo, DropBanKey,
       CheckVersion, DropStale, Verify, ReadRow, ReadRowBanned, ReadVersion, Fill,
       Unavailable, RedisFails
  <2>2. \/ Answered(q)
        \/ since' = since /\ \E l \in PCs \ {"idle"} : pc' = [pc EXCEPT ![q] = l]
    BY <1>2 DEF Serve, CacheHit, CacheMiss, DropExpired, CheckBanKey, ReadBanInfo, DropBanKey,
       CheckVersion, DropStale, Verify, ReadRow, ReadRowBanned, ReadVersion, Fill,
       Unavailable, RedisFails, Grant, Deny, PCs
  <2> QED
    BY <1>t, <2>1, <2>2 DEF Answered
<1> QED
  BY <1>1, <1>2

\* A request whose token had expired when it began is on its way to a 401.
LateIsRefused ==
    \A q \in Requests : since[q].expired =>
        Expired(TokenOf[q]) /\ pc[q] \in {"lookup", "dropExpired", "verify"}

\* Every step keeps it there.
LEMMA LateStep ==
    ASSUME TypeInv, LateIsRefused, [Next]_vars
    PROVE  LateIsRefused'
<1>t. /\ pc \in [Requests -> PCs] /\ life \in [Tokens -> Durations]
      /\ \A q \in Requests : TokenOf[q] \in Tokens
  BY DEF TypeInv, TypeOK, PCs
<1>1. ASSUME NEW q \in Requests, Begin(q) \/ Serve(q) PROVE LateIsRefused'
  <2>1. ASSUME NEW p \in Requests, p # q, since'[p].expired
        PROVE  Expired(TokenOf[p])' /\ pc'[p] \in {"lookup", "dropExpired", "verify"}
    BY <1>1, <2>1, RequestSteps DEF LateIsRefused, Expired
  <2>2. ASSUME since'[q].expired
        PROVE  Expired(TokenOf[q])' /\ pc'[q] \in {"lookup", "dropExpired", "verify"}
    <3>1. CASE /\ pc[q] = "idle" /\ pc'[q] = "lookup"
               /\ since'[q] = [floor |-> floor, expired |-> Expired(TokenOf[q])]
      <4>1. since'[q].expired = Expired(TokenOf[q])
        BY <3>1
      <4>2. Expired(TokenOf[q])
        BY <2>2, <4>1
      <4>3. UNCHANGED life
        BY <1>1, RequestSteps
      <4> QED
        BY <3>1, <4>2, <4>3 DEF Expired
    <3>2. CASE since'[q] = NotBegun
      BY <2>2, <3>2 DEF NotBegun
    <3>3. CASE pc'[q] # "idle" /\ since'[q] = since[q]
      <4>1. Expired(TokenOf[q]) /\ pc[q] \in {"lookup", "dropExpired", "verify"}
        BY <2>2, <3>3 DEF LateIsRefused
      <4>2. UNCHANGED life
        BY <1>1, RequestSteps
      <4>3. pc'[q] \in {"lookup", "dropExpired", "verify"}
        BY <1>1, <1>t, <3>3, <4>1 DEF Begin, Serve, CacheHit, CacheMiss, DropExpired,
           CheckBanKey, ReadBanInfo, DropBanKey, CheckVersion, DropStale, Verify, ReadRow,
           ReadRowBanned, ReadVersion, Fill, Unavailable, RedisFails, Proceed, Goto,
           Answered, Grant, Deny
      <4> QED
        BY <4>1, <4>2, <4>3 DEF Expired
    <3> QED
      BY <1>1, <3>1, <3>2, <3>3, RequestSteps
  <2> QED
    BY <2>1, <2>2 DEF LateIsRefused
<1>2. ASSUME NEW t \in Tokens, Logout(t) PROVE LateIsRefused'
  BY <1>2 DEF Logout, reqVars, WritesCache, LateIsRefused, Expired
<1>3. ASSUME NEW u \in Updates, Update(u) PROVE LateIsRefused'
  BY <1>3 DEF Update, Commit, SetBanKey, Invalidate, Refuse, reqVars, LateIsRefused, Expired
<1>4. CASE Tick
  <2>1. \A q \in Requests : Expired(TokenOf[q]) => Expired(TokenOf[q])'
    BY <1>4, <1>t DEF Tick, Expired, Sooner
  <2> QED
    BY <1>4, <2>1 DEF Tick, reqVars, LateIsRefused
<1>5. CASE UNCHANGED vars
  BY <1>5 DEF vars, LateIsRefused, Expired
<1> QED
  BY <1>1, <1>2, <1>3, <1>4, <1>5 DEF Next

\* An expired token opens nothing: a request that begins after its token has expired is
\* never granted a user, although the cache entry may outlive the token.
THEOREM ExpiredOpensNothing == Spec => ExpiredIsRefused
<1>1. Init => LateIsRefused
  BY DEF Init, LateIsRefused, NotBegun
<1>2. TypeInv /\ LateIsRefused /\ [Next]_vars => LateIsRefused'
  BY LateStep
<1>3. LateIsRefused => [\A q \in Requests : Grants(q) => ~since[q].expired]_vars
  BY DEF LateIsRefused, Grants
<1> QED
  BY <1>1, <1>2, <1>3, InitTypeInv, NextType, PTL DEF Spec, ExpiredIsRefused

-----------------------------------------------------------------------------
(* A first ban is prompt *)

\* Before the first UPDATE there is no ban and no ban key.
NoBanYet ==
    /\ banKey = 0 /\ row.ban = Unbanned
    /\ \A u \in Updates : up[u] \in {"new", "done"}
    /\ \A q \in Requests : pc[q] \notin {"banInfo", "dropBanKey"}

\* From the first UPDATE to the next, the key that it sets outlives the ban; who drops the
\* key has seen the ban over, and so has who comes past it after the answer.
KeyGuardsBan ==
    /\ \A u \in Updates : up[u] = "banKey" => body[u].ban = row.ban
    /\ Active(row.ban) /\ (floor = 1 \/ \E u \in Updates : up[u] = "incr") => banKey >= row.ban
    /\ \A q \in Requests : pc[q] = "dropBanKey" => ~Active(row.ban)
    /\ \A q \in Requests :
          since[q].floor = 1 /\ pc[q] \in {"version", "rowVersion", "fill"} => ~Active(row.ban)

FirstBan == faults = 0 => (epoch = 0 => NoBanYet) /\ (epoch = 1 => KeyGuardsBan)

\* Every step keeps it.
LEMMA FirstBanStep ==
    ASSUME TypeInv, FreshInv, FirstBan, [Next]_vars
    PROVE  FirstBan'
<1>t. /\ pc \in [Requests -> PCs] /\ up \in [Updates -> {"new", "banKey", "incr", "done"}]
      /\ row.ban \in Durations \cup {Unbanned} /\ banKey \in Durations
      /\ epoch \in Nat /\ floor \in Nat /\ floor <= epoch /\ faults \in Nat
      /\ \A q \in Requests : since[q].floor \in Nat /\ since[q].floor <= floor
      /\ \A u \in Updates : made[u] \in Nat /\ made[u] <= epoch
      /\ body \in [Updates -> [role : Roles \cup {KeepRole},
                               ban : Durations \cup {Keep, Unbanned}]]
  BY DEF TypeInv, TypeOK, PCs, FreshInv, Ordered
<1> SUFFICES ASSUME faults' = 0
             PROVE  (epoch' = 0 => NoBanYet') /\ (epoch' = 1 => KeyGuardsBan')
  BY DEF FirstBan
<1>1. ASSUME NEW q \in Requests, Begin(q) \/ Serve(q)
      PROVE  (epoch' = 0 => NoBanYet') /\ (epoch' = 1 => KeyGuardsBan')
  <2>1. /\ \A p \in Requests \ {q} : pc'[p] = pc[p] /\ since'[p] = since[p]
        /\ UNCHANGED <<row, up, body, epoch, floor>>
    BY <1>1, RequestSteps
  <2>2. faults = 0
    BY <1>1, <1>t DEF Begin, Serve, CacheHit, CacheMiss, DropExpired, CheckBanKey,
       ReadBanInfo, DropBanKey, CheckVersion, DropStale, Verify, ReadRow, ReadRowBanned,
       ReadVersion, Fill, Unavailable, RedisFails, RedisFault, ReadsOnly, WritesCache
  <2>3. ~RedisFails(q)
    BY <1>t, <2>2 DEF RedisFails, RedisFault
  <2>4. /\ banKey' = banKey \/ (banKey' = 0 /\ pc[q] = "dropBanKey")
        /\ pc'[q] = "banInfo" => pc[q] = "banKey" /\ banKey > 0
        /\ pc'[q] = "dropBanKey" => pc[q] = "banInfo" /\ ~Active(row.ban)
        /\ pc'[q] = "version" =>
              since'[q] = since[q] /\ (pc[q] = "dropBanKey" \/ (pc[q] = "banKey" /\ ~(banKey > 0)))
        /\ pc'[q] = "rowVersion" => ~Active(row.ban)
        /\ pc'[q] = "fill" => since'[q] = since[q] /\ pc[q] = "rowVersion"
    BY <1>1, <1>t, <2>3 DEF Begin, Serve, CacheHit, CacheMiss, DropExpired, CheckBanKey,
       ReadBanInfo, DropBanKey, CheckVersion, DropStale, Verify, ReadRow, ReadRowBanned,
       ReadVersion, Fill, Unavailable, ReadsOnly, WritesCache, Proceed, Goto, Answered,
       Grant, Deny
  <2>5. ASSUME epoch' = 0 PROVE NoBanYet'
    <3>1. NoBanYet
      BY <2>1, <2>2, <2>5 DEF FirstBan
    <3> QED
      BY <2>1, <2>4, <3>1 DEF NoBanYet
  <2>6. ASSUME epoch' = 1 PROVE KeyGuardsBan'
    <3>1. KeyGuardsBan
      BY <2>1, <2>2, <2>6 DEF FirstBan
    <3>2. Active(row.ban) => pc[q] # "dropBanKey" /\ banKey' = banKey
      BY <2>4, <3>1 DEF KeyGuardsBan
    <3>3. since'[q].floor = 1 /\ pc'[q] \in {"version", "rowVersion", "fill"} => ~Active(row.ban)
      <4>1. CASE pc'[q] = "version" /\ pc[q] = "banKey" /\ ~(banKey > 0) /\ since'[q].floor = 1
        <5>1. since[q].floor = 1
          BY <2>4, <4>1
        <5>2. floor = 1
          BY <1>t, <2>1, <2>6, <5>1
        <5>3. Active(row.ban) => banKey >= row.ban
          BY <3>1, <5>2 DEF KeyGuardsBan
        <5> QED
          BY <1>t, <4>1, <5>3 DEF Active, Lapsed, Durations, Unbanned
      <4>2. CASE pc'[q] = "version" /\ pc[q] = "dropBanKey"
        BY <3>1, <4>2 DEF KeyGuardsBan
      <4>3. CASE pc'[q] = "fill" /\ since'[q].floor = 1
        BY <2>4, <3>1, <4>3 DEF KeyGuardsBan
      <4> QED
        BY <2>4, <4>1, <4>2, <4>3
    <3>4. \A p \in Requests : since'[p].floor = 1
             /\ pc'[p] \in {"version", "rowVersion", "fill"} => ~Active(row.ban)
      BY <2>1, <3>1, <3>3 DEF KeyGuardsBan
    <3>5. \A p \in Requests : pc'[p] = "dropBanKey" => ~Active(row.ban)
      BY <2>1, <2>4, <3>1 DEF KeyGuardsBan
    <3>6. Active(row'.ban) <=> Active(row.ban)
      BY <2>1
    <3> QED
      BY <2>1, <3>1, <3>2, <3>4, <3>5, <3>6 DEF KeyGuardsBan
  <2> QED
    BY <2>5, <2>6
<1>2. ASSUME NEW t \in Tokens, Logout(t)
      PROVE  (epoch' = 0 => NoBanYet') /\ (epoch' = 1 => KeyGuardsBan')
  <2>1. UNCHANGED <<row, banKey, pc, since, up, body, epoch, floor, faults>>
    BY <1>2 DEF Logout, WritesCache, reqVars, updVars
  <2> QED
    BY <2>1 DEF FirstBan, NoBanYet, KeyGuardsBan, Active
<1>3. ASSUME NEW u \in Updates, Update(u)
      PROVE  (epoch' = 0 => NoBanYet') /\ (epoch' = 1 => KeyGuardsBan')
  <2>1. CASE Commit(u)
    <3>1. /\ epoch' = epoch + 1 /\ UNCHANGED <<banKey, pc, since, faults, floor>>
      BY <2>1 DEF Commit
    <3>2. CASE epoch = 0
      <4>1. NoBanYet
        BY <3>1, <3>2 DEF FirstBan
      <4>2. PICK b \in Bodies :
              /\ row' = [role |-> IF b.role = KeepRole THEN row.role ELSE b.role,
                         ban  |-> NewBan(row.ban, b.ban)]
              /\ body' = [body EXCEPT ![u] = b]
              /\ up' = [up EXCEPT ![u] = IF b.ban = Keep THEN "incr" ELSE "banKey"]
        BY <2>1 DEF Commit, UpGoto
      <4>3. row'.ban = IF b.ban = Keep THEN Unbanned ELSE b.ban
        BY <4>1, <4>2 DEF NewBan, NoBanYet
      <4>4. /\ up'[u] = "banKey" => body'[u].ban = row'.ban
            /\ up'[u] = "incr" => ~Active(row'.ban)
            /\ \A v \in Updates \ {u} : up'[v] \in {"new", "done"}
        BY <1>t, <4>1, <4>2, <4>3 DEF NoBanYet, Active, Lapsed, Unbanned
      <4>5. floor' = 0 /\ \A q \in Requests : since'[q].floor # 1
        BY <1>t, <3>1, <3>2
      <4>6. KeyGuardsBan'
        BY <3>1, <4>1, <4>4, <4>5 DEF KeyGuardsBan, NoBanYet
      <4> QED
        BY <3>1, <3>2, <4>6
    <3> QED
      BY <1>t, <3>1, <3>2
  <2>2. CASE SetBanKey(u)
    <3>1. /\ up[u] = "banKey" /\ up' = [up EXCEPT ![u] = "incr"]
          /\ UNCHANGED <<row, body, pc, since, epoch, floor>>
      BY <2>2 DEF SetBanKey, UpGoto, reqVars
    <3>2. faults = 0 /\ banKey' \in BanTtl(body[u].ban)
      BY <1>t, <2>2 DEF SetBanKey, RedisFault
    <3>3. epoch = 0 => FALSE
      BY <3>1, <3>2 DEF FirstBan, NoBanYet
    <3>4. ASSUME epoch' = 1 PROVE KeyGuardsBan'
      <4>1. KeyGuardsBan
        BY <3>1, <3>2, <3>4 DEF FirstBan
      <4>2. body[u].ban = row.ban
        BY <3>1, <4>1 DEF KeyGuardsBan
      <4>3. Active(row.ban) => banKey' >= row.ban
        BY <1>t, <3>2, <4>2 DEF BanTtl, Active, Lapsed, Unbanned, Durations
      <4>4. \A v \in Updates : up'[v] = "banKey" => body'[v].ban = row'.ban
        BY <1>t, <3>1, <4>1 DEF KeyGuardsBan
      <4> QED
        BY <3>1, <4>1, <4>3, <4>4 DEF KeyGuardsBan, Active
    <3> QED
      BY <3>1, <3>3, <3>4
  <2>3. CASE Invalidate(u)
    <3>1. /\ up[u] = "incr" /\ up' = [up EXCEPT ![u] = "done"]
          /\ floor' = IF made[u] > floor THEN made[u] ELSE floor
          /\ UNCHANGED <<row, banKey, body, pc, since, epoch>>
      BY <2>3 DEF Invalidate, UpGoto, reqVars
    <3>2. faults = 0
      BY <1>t, <2>3 DEF Invalidate, RedisFault
    <3>3. epoch = 0 => FALSE
      BY <3>1, <3>2 DEF FirstBan, NoBanYet
    <3>4. ASSUME epoch' = 1 PROVE KeyGuardsBan'
      <4>1. KeyGuardsBan
        BY <3>1, <3>2, <3>4 DEF FirstBan
      <4>2. Active(row.ban) => banKey >= row.ban
        BY <3>1, <4>1 DEF KeyGuardsBan
      <4>3. \A v \in Updates : up'[v] = "banKey" => body'[v].ban = row'.ban
        BY <1>t, <3>1, <4>1 DEF KeyGuardsBan
      <4> QED
        BY <3>1, <4>1, <4>2, <4>3 DEF KeyGuardsBan, Active
    <3> QED
      BY <3>1, <3>3, <3>4
  <2>4. CASE Refuse(u)
    <3>1. /\ up' = [up EXCEPT ![u] = "done"]
          /\ UNCHANGED <<row, banKey, body, pc, since, epoch, floor, faults>>
      BY <2>4 DEF Refuse, UpGoto, reqVars
    <3>2. \A v \in Updates : up'[v] = up[v] \/ up'[v] = "done"
      BY <1>t, <3>1
    <3> QED
      BY <3>1, <3>2 DEF FirstBan, NoBanYet, KeyGuardsBan, Active
  <2> QED
    BY <1>3, <2>1, <2>2, <2>3, <2>4 DEF Update
<1>4. CASE Tick
  <2>1. /\ UNCHANGED <<pc, since, up, epoch, floor, faults>>
        /\ banKey' = Sooner(banKey)
    BY <1>4 DEF Tick, reqVars
  <2>2. row'.ban = Sooner(row.ban)
    BY <1>4 DEF Tick, TypeInv, TypeOK
  <2>3. \A u \in Updates : body'[u].ban = Sooner(body[u].ban)
    BY <1>4, <1>t DEF Tick
  <2>4. /\ Active(row'.ban) => Active(row.ban)
        /\ Active(row'.ban) /\ banKey >= row.ban => banKey' >= row'.ban
        /\ row.ban = Unbanned => row'.ban = Unbanned
        /\ banKey = 0 => banKey' = 0
    BY <1>t, <2>1, <2>2 DEF Sooner, Active, Lapsed, Unbanned, Durations
  <2>5. NoBanYet => NoBanYet'
    BY <2>1, <2>4 DEF NoBanYet
  <2>6. KeyGuardsBan => KeyGuardsBan'
    BY <2>1, <2>2, <2>3, <2>4 DEF KeyGuardsBan
  <2> QED
    BY <2>1, <2>5, <2>6 DEF FirstBan
<1>5. CASE UNCHANGED vars
  BY <1>5 DEF vars, FirstBan, NoBanYet, KeyGuardsBan, Active
<1> QED
  BY <1>1, <1>2, <1>3, <1>4, <1>5 DEF Next

\* While Redis answers, a first ban that was answered before a request began, and is still
\* running, keeps the user out, whatever is cached, with any number of tokens, requests and
\* updates.
THEOREM FirstBanIsPrompt == Spec => BanIsPrompt
<1>1. Init => FirstBan
  BY DEF Init, FirstBan, NoBanYet
<1>2. TypeInv /\ FreshInv /\ FirstBan /\ [Next]_vars => FirstBan'
  BY FirstBanStep
<1>3. FirstBan =>
        [\A q \in Requests :
            Grants(q) /\ faults = 0 /\ epoch = 1 =>
               ~(Active(row.ban) /\ since[q].floor = epoch)]_vars
  BY DEF FirstBan, KeyGuardsBan, Grants
<1> QED
  BY <1>1, <1>2, <1>3, InitTypeInv, NextType, FreshInit, FreshStep, PTL DEF Spec, BanIsPrompt
=============================================================================
