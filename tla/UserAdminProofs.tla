--------------------------- MODULE UserAdminProofs ---------------------------
(***************************************************************************)
(* Served one after the other, the requests of PUT /admin/users/:id never  *)
(* lock the system, for any number of users and requests.                  *)
(***************************************************************************)
EXTENDS UserAdmin, FiniteSetTheorems, TLAPS

Active(p) == pc[p] \notin {"new", "done"}

\* One request is under way at most.
OneAtATime == \A p, q \in Puts : Active(p) /\ Active(q) => p = q

\* What the guards have made sure of when a request comes to its UPDATE: it takes
\* nothing away, or not from an administrator, or there is another one.
Harmless(a) ==
    \/ a.role # "user" /\ a.ban # "set"
    \/ role[a.target] # "admin"
    \/ \E u \in Admins : u # a.target

UpdateIsHarmless == \A p \in Puts : pc[p] = "update" => Harmless(ask[p])

IInv == TypeOK /\ NeverLocked /\ OneAtATime /\ UpdateIsHarmless

\* The bodies that name "user" or "admin" only; "teacher" is the role the guards forget.
GuardedRoles == Roles \subseteq {"user", "admin"}

\* More than one administrator is one besides any given user.
LEMMA AnotherOne ==
    ASSUME IsFiniteSet(Users), Cardinality(Admins) > 1, NEW t
    PROVE  \E u \in Admins : u # t
<1>1. SUFFICES ASSUME \A u \in Admins : u = t PROVE FALSE
  OBVIOUS
<1>2. Admins \subseteq {t}
  BY <1>1
<1>3. IsFiniteSet({t}) /\ Cardinality({t}) = 1
  BY FS_Singleton
<1>4. Cardinality(Admins) <= Cardinality({t})
  BY <1>2, <1>3, FS_Subset
<1>5. IsFiniteSet(Admins) /\ Cardinality(Admins) \in Nat
  BY <1>2, <1>3, FS_Subset, FS_CardinalityType
<1> QED
  BY <1>3, <1>4, <1>5

\* Every variable keeps its type.
LEMMA TypeStep ==
    ASSUME UserAdminAssumption, TypeOK, [Next]_vars
    PROVE  TypeOK'
<1> USE DEF TypeOK, Keep, Goto
<1>1. ASSUME NEW p \in Puts, Begin(p) PROVE TypeOK'
  BY <1>1 DEF Begin
<1>2. ASSUME NEW p \in Puts, ReadTarget(p) PROVE TypeOK'
  BY <1>2 DEF ReadTarget
<1>3. ASSUME NEW p \in Puts, CountAdmins(p) PROVE TypeOK'
  BY <1>3 DEF CountAdmins
<1>4. ASSUME NEW p \in Puts, UpdateUser(p) PROVE TypeOK'
  <2>1. ask[p].target \in Users /\ ask[p].role \in Roles \cup {"keep"}
    BY DEF Asks
  <2>2. role' \in [Users -> {"user", "teacher", "admin"}]
    BY <1>4, <2>1 DEF UpdateUser, UserAdminAssumption
  <2>3. banned' \in [Users -> BOOLEAN]
    BY <1>4, <2>1 DEF UpdateUser
  <2>4. trusted' \subseteq Users
    BY <1>4 DEF UpdateUser, Admins
  <2> QED
    BY <1>4, <2>2, <2>3, <2>4 DEF UpdateUser
<1>5. ASSUME NEW u \in Users, Notice(u) PROVE TypeOK'
  BY <1>5 DEF Notice
<1>6. CASE UNCHANGED vars
  BY <1>6 DEF vars
<1> QED
  BY <1>1, <1>2, <1>3, <1>4, <1>5, <1>6 DEF Next

\* The guards: a request comes to its UPDATE only when that is harmless.
LEMMA GuardStep ==
    ASSUME UserAdminAssumption, TypeOK, NEW p \in Puts,
           Begin(p) \/ ReadTarget(p) \/ CountAdmins(p),
           pc'[p] = "update"
    PROVE  Harmless(ask[p])
<1>1. CASE Begin(p)
  BY <1>1 DEF Begin, Goto, TypeOK, Harmless
<1>2. CASE ReadTarget(p)
  BY <1>2 DEF ReadTarget, Goto, TypeOK, Harmless
<1>3. CASE CountAdmins(p)
  <2>1. ~(Cardinality(Admins) <= 1)
    BY <1>3 DEF CountAdmins, Goto, TypeOK
  <2>2. IsFiniteSet(Admins)
    BY FS_Subset DEF Admins, UserAdminAssumption
  <2>3. Cardinality(Admins) > 1
    BY <2>1, <2>2, FS_CardinalityType
  <2>4. \E u \in Admins : u # ask[p].target
    BY <2>3, AnotherOne DEF UserAdminAssumption
  <2> QED
    BY <2>4 DEF Harmless
<1> QED
  BY <1>1, <1>2, <1>3

\* A harmless UPDATE leaves an administrator.
LEMMA UpdateStep ==
    ASSUME TypeOK, GuardedRoles, NeverLocked, NEW p \in Puts, UpdateUser(p),
           Harmless(ask[p])
    PROVE  NeverLocked'
<1> DEFINE a == ask[p]
<1>1. a.target \in Users /\ a.role \in {"user", "admin", "keep"}
      /\ a.ban \in {"set", "lift", "keep"}
  BY DEF TypeOK, Asks, GuardedRoles, Keep
<1>2. \A u \in Users : u # a.target => role'[u] = role[u] /\ banned'[u] = banned[u]
  BY <1>1 DEF UpdateUser, TypeOK
<1>3. \A u \in Admins : u # a.target => u \in Admins'
  BY <1>2 DEF Admins, ActiveAdmin
<1>4. CASE a.role # "user" /\ a.ban # "set"
  <2>1. PICK u \in Admins : TRUE
    BY DEF NeverLocked
  <2>2. CASE u = a.target
    <3>1. role[u] = "admin" /\ ~banned[u] /\ u \in Users
      BY DEF Admins, ActiveAdmin
    <3>2. role'[u] = "admin" /\ ~banned'[u]
      BY <1>1, <1>4, <2>2, <3>1 DEF UpdateUser, TypeOK, Keep
    <3> QED
      BY <3>1, <3>2 DEF NeverLocked, Admins, ActiveAdmin
  <2> QED
    BY <2>1, <2>2, <1>3 DEF NeverLocked
<1>5. CASE role[a.target] # "admin"
  <2>1. PICK u \in Admins : TRUE
    BY DEF NeverLocked
  <2>2. u # a.target
    BY <1>5 DEF Admins, ActiveAdmin
  <2> QED
    BY <2>1, <2>2, <1>3 DEF NeverLocked
<1>6. CASE \E u \in Admins : u # a.target
  BY <1>6, <1>3 DEF NeverLocked
<1> QED
  BY <1>4, <1>5, <1>6 DEF Harmless

\* While requests do not overlap, one that is under way is the only one that moves.
LEMMA SerialStep ==
    ASSUME Overlap = FALSE, TypeOK, OneAtATime, NEW p \in Puts,
           Begin(p) \/ ReadTarget(p) \/ CountAdmins(p) \/ UpdateUser(p)
    PROVE  /\ \A q \in Puts \ {p} : ~Active(q) /\ pc'[q] = pc[q]
           /\ OneAtATime'
<1>1. \A q \in Puts \ {p} : ~Active(q)
  <2>1. CASE Begin(p)
    BY <2>1 DEF Begin, MayRun, Active
  <2>2. CASE ReadTarget(p) \/ CountAdmins(p) \/ UpdateUser(p)
    BY <2>2 DEF ReadTarget, CountAdmins, UpdateUser, Active, OneAtATime
  <2> QED
    BY <2>1, <2>2
<1>2. \A q \in Puts \ {p} : pc'[q] = pc[q]
  BY DEF Begin, ReadTarget, CountAdmins, UpdateUser, Goto, TypeOK
<1>3. OneAtATime'
  BY <1>1, <1>2 DEF OneAtATime, Active
<1> QED
  BY <1>1, <1>2, <1>3

\* The invariant is inductive.
LEMMA Inductive ==
    ASSUME UserAdminAssumption, Overlap = FALSE, GuardedRoles, IInv, [Next]_vars
    PROVE  IInv'
<1> USE DEF IInv
<1>1. TypeOK'
  BY TypeStep
<1>2. ASSUME NEW p \in Puts, Begin(p) \/ ReadTarget(p) \/ CountAdmins(p) PROVE IInv'
  <2>1. UNCHANGED <<role, banned, ask>>
    BY <1>2 DEF Begin, ReadTarget, CountAdmins
  <2>2. OneAtATime' /\ \A q \in Puts \ {p} : ~Active(q) /\ pc'[q] = pc[q]
    BY <1>2, SerialStep
  <2>3. NeverLocked'
    BY <2>1 DEF NeverLocked, Admins, ActiveAdmin
  <2>4. \A a : Harmless(a) => Harmless(a)'
    BY <2>1 DEF Harmless, Admins, ActiveAdmin
  <2>5. ASSUME NEW q \in Puts, pc'[q] = "update" PROVE Harmless(ask[q])'
    <3>1. q = p
      BY <2>2, <2>5 DEF Active
    <3>2. Harmless(ask[p])
      BY <1>2, <2>5, <3>1, GuardStep
    <3> QED
      BY <2>1, <3>1, <3>2 DEF Harmless, Admins, ActiveAdmin
  <2> QED
    BY <1>1, <2>2, <2>3, <2>5 DEF UpdateIsHarmless
<1>3. ASSUME NEW p \in Puts, UpdateUser(p) PROVE IInv'
  <2>1. OneAtATime' /\ \A q \in Puts \ {p} : ~Active(q) /\ pc'[q] = pc[q]
    BY <1>3, SerialStep
  <2>2. pc[p] = "update" /\ pc'[p] = "done"
    BY <1>3 DEF UpdateUser, Goto, TypeOK
  <2>3. NeverLocked'
    BY <1>3, <2>2, UpdateStep DEF UpdateIsHarmless
  <2>4. \A q \in Puts : pc'[q] # "update"
    BY <2>1, <2>2 DEF Active
  <2> QED
    BY <1>1, <2>1, <2>3, <2>4 DEF UpdateIsHarmless
<1>4. CASE UNCHANGED <<role, banned, pc, ask>>
  BY <1>1, <1>4 DEF NeverLocked, Admins, ActiveAdmin, OneAtATime, Active,
                    UpdateIsHarmless, Harmless
<1>5. ASSUME NEW u \in Users, Notice(u) PROVE IInv'
  BY <1>5, <1>4 DEF Notice
<1>6. CASE UNCHANGED vars
  BY <1>6, <1>4 DEF vars
<1> QED
  BY <1>2, <1>3, <1>5, <1>6 DEF Next

\* Initially no request is under way and there is an administrator.
LEMMA Initially ==
    ASSUME UserAdminAssumption, Init
    PROVE  IInv
BY DEF Init, IInv, TypeOK, NeverLocked, OneAtATime, Active, UpdateIsHarmless, Admins

\* The system is never locked: served one after the other, requests that name the roles
\* the guards know about always leave an administrator that is not banned, even those of
\* a former administrator that the cache still lets through.
THEOREM SerialNeverLocked ==
    ASSUME UserAdminAssumption, Overlap = FALSE, GuardedRoles
    PROVE  Spec => []NeverLocked
<1>1. Init => IInv
  BY Initially
<1>2. IInv /\ [Next]_vars => IInv'
  BY Inductive
<1>3. IInv => NeverLocked
  BY DEF IInv
<1> QED
  BY <1>1, <1>2, <1>3, PTL DEF Spec
=============================================================================
