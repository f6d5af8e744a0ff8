---------------------------- MODULE InvitesProofs ----------------------------
(***************************************************************************)
(* Proofs about Invites: invitations are single-use tokens however the     *)
(* requests race, and the bound on the number of pending ones.             *)
(***************************************************************************)
EXTENDS Invites, FiniteSetTheorems, TLAPS

LEMMA NextSplit ==
    [Next]_vars <=>
        \/ \E r \in Requests : Begin(r) \/ Continue(r) \/ Abort(r)
        \/ Tick \/ UNCHANGED vars
BY DEF Next

(***************************************************************************)
(* The type invariant together with Consistent is inductive.               *)
(***************************************************************************)
Inv == TypeOK /\ Consistent

LEMMA InitInv == Init => Inv
BY InvitesAssumption DEF Init, Inv, TypeOK, Consistent, PCs, Created, Reserves

LEMMA RejectKeepsInv ==
    ASSUME Inv, NEW r \in Requests, NEW from \in PCs, Reject(r, from)
    PROVE  Inv'
BY InvitesAssumption DEF Inv, TypeOK, Consistent, PCs, Created, Reserves,
   Reject, Goto, Forget, table

LEMMA CommitKeepsInv ==
    ASSUME Inv, NEW r \in Requests, CommitAccept(r)
    PROVE  Inv'
<1>. USE InvitesAssumption DEF Inv, TypeOK, PCs, CommitAccept, Goto, Forget
<1>1. /\ inv[r] \in Invites /\ email[r] \in Emails /\ stamp[r] \in Nat \ {0}
      /\ Created' = Created /\ inv[r] \in Created
      /\ Reserves(r, email[r])
  BY DEF Consistent, Created, Reserves
<1>2. TypeOK'
  BY <1>1
<1>3. \A q \in Requests \ {r} : Reserves(q, email[q]) => email[q] # email[r]
  BY <1>1 DEF Consistent, Reserves
<1>4. Consistent'
  BY <1>1, <1>3 DEF Consistent, Reserves
<1>. QED  BY <1>2, <1>4

LEMMA StepKeepsInv ==
    ASSUME Inv, NEW r \in Requests, Begin(r) \/ Continue(r) \/ Abort(r)
    PROVE  Inv'
<1>. USE InvitesAssumption DEF Inv, TypeOK, Consistent, PCs, Created, Reserves,
        Goto, table, local
<1>1. CASE BeginCreate(r)
  BY <1>1 DEF BeginCreate
<1>2. CASE BeginRevoke(r)
  BY <1>2 DEF BeginRevoke
<1>3. CASE BeginAccept(r)
  BY <1>3 DEF BeginAccept
<1>4. CASE CountPending(r)
  BY <1>4 DEF CountPending
<1>5. CASE InsertInvite(r)
  BY <1>5 DEF InsertInvite, Forget
<1>6. CASE FindPending(r)
  BY <1>6 DEF FindPending, PendingAt
<1>7. CASE MarkRevoked(r)
  BY <1>7 DEF MarkRevoked, Forget
<1>8. CASE CheckInvite(r)
  BY <1>8 DEF CheckInvite
<1>9. CASE CreateUser(r)
  BY <1>9 DEF CreateUser
<1>10. CASE CreateMember(r)
  BY <1>10 DEF CreateMember
<1>11. CASE CommitAccept(r)
  BY <1>11, CommitKeepsInv
<1>12. CASE \/ RejectFull(r) \/ RejectRevoke(r) \/ RejectInvite(r)
            \/ RejectEmail(r) \/ RollBackAccept(r) \/ Abort(r)
  <2>1. PICK from \in PCs : Reject(r, from)
    BY <1>12 DEF RejectFull, RejectRevoke, RejectInvite, RejectEmail,
         RollBackAccept, Abort
  <2>. QED  BY <2>1, RejectKeepsInv
<1>. QED
  BY <1>1, <1>2, <1>3, <1>4, <1>5, <1>6, <1>7, <1>8, <1>9, <1>10, <1>11, <1>12
     DEF Begin, Continue

LEMMA NextInv == Inv /\ [Next]_vars => Inv'
<1>. SUFFICES ASSUME Inv, [Next]_vars PROVE Inv'
  OBVIOUS
<1>1. CASE Tick
  BY <1>1, InvitesAssumption DEF Tick, Inv, TypeOK, Consistent, Created,
       Reserves, table, local
<1>2. CASE UNCHANGED vars
  BY <1>2 DEF vars, table, local, Inv, TypeOK, Consistent, Created, Reserves
<1>. QED  BY <1>1, <1>2, StepKeepsInv, NextSplit

(* The variables have their types in every reachable state.                *)
THEOREM InvitesTypeCorrect == Spec => [](TypeOK /\ Consistent)
<1>1. Inv <=> TypeOK /\ Consistent
  BY DEF Inv
<1>. QED  BY <1>1, InitInv, NextInv, PTL DEF Spec

(***************************************************************************)
(* Every step of the service is a step of the single-use tokens.           *)
(***************************************************************************)
LEMMA StepImplements ==
    ASSUME Inv, NEW r \in Requests, Begin(r) \/ Continue(r) \/ Abort(r)
    PROVE  [OneShot!Next]_(OneShot!vars)
<1>. USE InvitesAssumption DEF Inv, TypeOK, Created, Goto, table, local,
        OneShot!vars, OneShot!Next
<1>1. CASE \/ BeginCreate(r) \/ BeginRevoke(r) \/ BeginAccept(r)
           \/ CountPending(r) \/ FindPending(r) \/ CheckInvite(r)
           \/ CreateUser(r) \/ CreateMember(r)
  BY <1>1 DEF BeginCreate, BeginRevoke, BeginAccept, CountPending, FindPending,
       CheckInvite, CreateUser, CreateMember
<1>2. CASE \/ RejectFull(r) \/ RejectRevoke(r) \/ RejectInvite(r)
           \/ RejectEmail(r) \/ RollBackAccept(r) \/ Abort(r)
  BY <1>2 DEF RejectFull, RejectRevoke, RejectInvite, RejectEmail,
       RollBackAccept, Abort, Reject
<1>3. CASE InsertInvite(r)
  <2>1. PICK i \in Invites \ Created :
           expiresAt' = [expiresAt EXCEPT ![i] = stamp[r] + Ttl]
    BY <1>3 DEF InsertInvite
  <2>2. OneShot!Issue(i)
    BY <1>3, <2>1 DEF InsertInvite, Consistent, OneShot!Issue
  <2>. QED  BY <2>1, <2>2
<1>4. CASE MarkRevoked(r)
  <2>1. PICK i \in Invites : i = inv[r] /\ i \in Created
    BY <1>4 DEF MarkRevoked, Consistent
  <2>2. CASE usedAt[i] = 0 /\ i \notin revoked
    <3>1. OneShot!Withdraw(i)
      BY <1>4, <2>1, <2>2 DEF MarkRevoked, OneShot!Withdraw
    <3>. QED  BY <3>1
  <2>3. CASE ~(usedAt[i] = 0 /\ i \notin revoked)
    BY <1>4, <2>1, <2>3 DEF MarkRevoked
  <2>. QED  BY <2>2, <2>3
<1>5. CASE CommitAccept(r)
  <2>1. PICK i \in Invites, e \in Emails :
           /\ i = inv[r] /\ e = email[r]
           /\ i \in Created /\ e \notin accounts /\ stamp[r] # 0
    BY <1>5 DEF CommitAccept, Consistent, Reserves
  <2>2. usedAt[i] = 0 /\ i \notin revoked
    BY <1>5, <2>1 DEF CommitAccept, StillPending, PendingAt
  <2>3. OneShot!Admit(i, e)
    BY <1>5, <2>1, <2>2 DEF CommitAccept, OneShot!Admit
  <2>. QED  BY <2>3
<1>. QED  BY <1>1, <1>2, <1>3, <1>4, <1>5 DEF Begin, Continue

(* For any number of racing requests, with every one of them liable to be  *)
(* cut off at every await, the service implements single-use tokens.       *)
THEOREM InvitesAreSingleUseTokens == Spec => ImplementsTokens
<1>1. Init => OneShot!Init
  BY DEF Init, OneShot!Init, Created
<1>2. Inv /\ [Next]_vars => [OneShot!Next]_(OneShot!vars)
  <2>. SUFFICES ASSUME Inv, [Next]_vars PROVE [OneShot!Next]_(OneShot!vars)
    OBVIOUS
  <2>1. CASE Tick \/ UNCHANGED vars
    BY <2>1 DEF Tick, vars, table, Created, OneShot!vars
  <2>. QED  BY <2>1, StepImplements, NextSplit
<1>. QED
  BY <1>1, <1>2, InitInv, NextInv, PTL DEF Spec, ImplementsTokens, OneShot!Spec

(***************************************************************************)
(* What follows for accounts and for revoked invitations.                  *)
(***************************************************************************)
LEMMA OthersKeepEntries ==
    ASSUME Inv, [Next]_vars, \A r \in Requests : ~CommitAccept(r)
    PROVE  UNCHANGED <<accounts, usedAt, usedBy>>
<1>1. ASSUME NEW r \in Requests, Begin(r) \/ Continue(r) \/ Abort(r)
      PROVE  UNCHANGED <<accounts, usedAt, usedBy>>
  BY <1>1 DEF Begin, Continue, Abort, BeginCreate, BeginRevoke, BeginAccept,
       CountPending, RejectFull, InsertInvite, FindPending, RejectRevoke,
       MarkRevoked, CheckInvite, RejectInvite, CreateUser, RejectEmail,
       CreateMember, RollBackAccept, Reject, table
<1>. QED  BY <1>1, NextSplit DEF Tick, vars, table

LEMMA EntryIsFresh ==
    ASSUME Inv, NEW r \in Requests, CommitAccept(r)
    PROVE  /\ inv[r] \in Invites /\ inv[r] \notin revoked
           /\ email[r] \in Emails \ accounts
           /\ usedBy[inv[r]] = None /\ stamp[r] < expiresAt[inv[r]]
           /\ accounts' = accounts \cup {email[r]}
           /\ usedAt' = [usedAt EXCEPT ![inv[r]] = stamp[r]]
           /\ usedBy' = [usedBy EXCEPT ![inv[r]] = email[r]]
           /\ expiresAt' = expiresAt
BY DEF Inv, TypeOK, Consistent, Created, Reserves, CommitAccept, Goto,
   StillPending, PendingAt

(* Accounts that joined and used invitations correspond one to one.        *)
THEOREM OneAccountEach == Spec => []OneAccountPerInvite
<1>1. Init => OneAccountPerInvite
  BY DEF Init, OneAccountPerInvite, Joined
<1>2. Inv /\ OneAccountPerInvite /\ [Next]_vars => OneAccountPerInvite'
  <2>. SUFFICES ASSUME Inv, OneAccountPerInvite, [Next]_vars
                PROVE  OneAccountPerInvite'
    OBVIOUS
  <2>1. CASE \A r \in Requests : ~CommitAccept(r)
    BY <2>1, OthersKeepEntries DEF OneAccountPerInvite, Joined
  <2>2. ASSUME NEW r \in Requests, CommitAccept(r)
        PROVE  OneAccountPerInvite'
    <3>1. Founders \subseteq accounts /\ usedBy \in [Invites -> Emails \cup {None}]
      BY DEF Inv, TypeOK
    <3>2. PICK i \in Invites, e \in Emails \ accounts :
             /\ usedBy[i] = None
             /\ accounts' = accounts \cup {e}
             /\ usedBy' = [usedBy EXCEPT ![i] = e]
      BY <2>2, EntryIsFresh
    <3>3. Joined' = Joined \cup {e} /\ e \notin Joined
      BY <3>1, <3>2 DEF Joined
    <3>4. \A j \in Invites : usedBy'[j] = IF j = i THEN e ELSE usedBy[j]
      BY <3>1, <3>2
    <3>5. e \in Emails /\ e # None
      BY <3>2, InvitesAssumption
    <3>6. ASSUME NEW j \in Invites PROVE usedBy[j] # e
      <4>1. usedBy[j] # None => usedBy[j] \in Joined
        BY DEF OneAccountPerInvite
      <4>. QED  BY <4>1, <3>3, <3>5
    <3>7. ASSUME NEW d \in Joined' PROVE \E j \in Invites : usedBy'[j] = d
      <4>1. CASE d = e
        BY <4>1, <3>4
      <4>2. CASE d # e
        <5>1. PICK j \in Invites : usedBy[j] = d
          BY <4>2, <3>3 DEF OneAccountPerInvite
        <5>2. d # None
          BY <4>2, <3>1, <3>3, InvitesAssumption DEF Joined, Inv, TypeOK
        <5>3. j # i
          BY <5>1, <5>2, <3>2
        <5>. QED  BY <5>1, <5>3, <3>4
      <4>. QED  BY <4>1, <4>2
    <3>8. \A j \in Invites : usedBy'[j] # None => usedBy'[j] \in Joined'
      BY <3>3, <3>4 DEF OneAccountPerInvite
    <3>9. ASSUME NEW j \in Invites, NEW k \in Invites,
                 usedBy'[j] = usedBy'[k], usedBy'[j] # None
          PROVE  j = k
      BY <3>4, <3>6, <3>9 DEF OneAccountPerInvite
    <3>. QED  BY <3>7, <3>8, <3>9 DEF OneAccountPerInvite
  <2>. QED  BY <2>1, <2>2
<1>. QED  BY <1>1, <1>2, InitInv, NextInv, PTL DEF Spec

(* Nobody gets in with a revoked invitation, and nobody takes the place of *)
(* the one who got in.                                                     *)
THEOREM RevokedStaysClosed == Spec => NoEntryAfterRevoke
<1>1. ASSUME Inv, [Next]_vars
      PROVE  [\A i \in Invites : usedBy'[i] # usedBy[i]
                 => usedBy[i] = None /\ i \notin revoked]_vars
  <2>1. CASE \A r \in Requests : ~CommitAccept(r)
    BY <1>1, <2>1, OthersKeepEntries
  <2>2. ASSUME NEW r \in Requests, CommitAccept(r), NEW i \in Invites,
               usedBy'[i] # usedBy[i]
        PROVE  usedBy[i] = None /\ i \notin revoked
    BY <1>1, <2>2, EntryIsFresh DEF Inv, TypeOK
  <2>. QED  BY <2>1, <2>2
<1>. QED  BY <1>1, InitInv, NextInv, PTL DEF Spec, NoEntryAfterRevoke

(* No invitation is used after its expiry, by the clock of the server that *)
(* accepts it.                                                             *)
THEOREM NoUseAfterExpiry == Spec => []UsedInTime
<1>1. Init => UsedInTime
  BY DEF Init, UsedInTime
<1>2. Inv /\ UsedInTime /\ [Next]_vars => UsedInTime'
  <2>. SUFFICES ASSUME Inv, UsedInTime, [Next]_vars PROVE UsedInTime'
    OBVIOUS
  <2>1. CASE \A r \in Requests : ~CommitAccept(r)
    <3>1. \A i \in Invites : usedAt[i] # 0 => expiresAt'[i] = expiresAt[i]
      <4>1. ASSUME NEW r \in Requests, Begin(r) \/ Continue(r) \/ Abort(r)
            PROVE  \A i \in Invites : usedAt[i] # 0 => expiresAt'[i] = expiresAt[i]
        <5>1. CASE InsertInvite(r)
          BY <5>1 DEF InsertInvite, Inv, TypeOK, Consistent
        <5>2. CASE ~InsertInvite(r)
          BY <2>1, <4>1, <5>2 DEF Begin, Continue, Abort, BeginCreate,
             BeginRevoke, BeginAccept, CountPending, RejectFull, FindPending,
             RejectRevoke, MarkRevoked, CheckInvite, RejectInvite, CreateUser,
             RejectEmail, CreateMember, RollBackAccept, Reject, table
        <5>. QED  BY <5>1, <5>2
      <4>. QED  BY <4>1, NextSplit DEF Tick, vars, table
    <3>. QED  BY <2>1, <3>1, OthersKeepEntries DEF UsedInTime
  <2>2. ASSUME NEW r \in Requests, CommitAccept(r)
        PROVE  UsedInTime'
    BY <2>2, EntryIsFresh DEF UsedInTime, Inv, TypeOK
  <2>. QED  BY <2>1, <2>2
<1>. QED  BY <1>1, <1>2, InitInv, NextInv, PTL DEF Spec

(***************************************************************************)
(* The limit under races.  RoomForCounted bounds the invitations pending   *)
(* and to come.  What a creation counts includes everything that is still  *)
(* pending when it goes on, since the clock only runs forward; the clock,  *)
(* a revocation and an acceptance only take pending invitations away.      *)
(***************************************************************************)
LEMMA PendingFinite ==
    ASSUME NEW t
    PROVE  IsFiniteSet(PendingAt(t)) /\ Cardinality(PendingAt(t)) \in Nat
<1>1. PendingAt(t) \in SUBSET Invites
  BY DEF PendingAt
<1>. QED  BY <1>1, InvitesAssumption, FS_Subset, FS_CardinalityType

LEMMA PastCountFinite ==
    /\ IsFiniteSet(PastCount) /\ Cardinality(PastCount) \in Nat
    /\ Cardinality(Requests) \in Nat \ {0}
<1>1. PastCount \in SUBSET Requests
  BY DEF PastCount
<1>. QED  BY <1>1, InvitesAssumption, FS_Subset, FS_CardinalityType, FS_EmptySet

LEMMA PrimesFinite ==
    /\ IsFiniteSet(Pending') /\ Cardinality(Pending') \in Nat
    /\ IsFiniteSet(PastCount') /\ Cardinality(PastCount') \in Nat
    /\ Cardinality(PastCount') <= Cardinality(Requests)
<1>1. Pending' \in SUBSET Invites /\ PastCount' \in SUBSET Requests
  BY DEF Pending, PendingAt, PastCount
<1>. QED  BY <1>1, InvitesAssumption, FS_Subset, FS_CardinalityType

LEMMA NoneAdded ==
    ASSUME RoomForCounted, Pending' \subseteq Pending, PastCount' \subseteq PastCount
    PROVE  RoomForCounted'
<1>1. IsFiniteSet(Pending) /\ Cardinality(Pending) \in Nat
  BY PendingFinite DEF Pending
<1>2. Cardinality(Pending') <= Cardinality(Pending)
  BY <1>1, FS_Subset
<1>3. Cardinality(PastCount') <= Cardinality(PastCount)
  BY PastCountFinite, FS_Subset
<1>. QED
  BY <1>1, <1>2, <1>3, PastCountFinite, PrimesFinite, InvitesAssumption
     DEF RoomForCounted

LEMMA CountKeepsRoom ==
    ASSUME Inv, NEW r \in Requests, CountPending(r)
    PROVE  RoomForCounted'
<1>1. Pending' \subseteq PendingAt(stamp[r])
  BY DEF CountPending, Pending, PendingAt, table, Inv, TypeOK
<1>2. Cardinality(Pending') <= Cardinality(PendingAt(stamp[r]))
  BY <1>1, PendingFinite, FS_Subset
<1>3. Cardinality(PendingAt(stamp[r])) \in Nat
  BY PendingFinite
<1>4. Cardinality(PendingAt(stamp[r])) < MaxPending
  BY DEF CountPending, BelowLimit
<1>. QED
  BY <1>2, <1>3, <1>4, PrimesFinite, PastCountFinite, InvitesAssumption
     DEF RoomForCounted

LEMMA InsertKeepsRoom ==
    ASSUME Inv, RoomForCounted, NEW r \in Requests, InsertInvite(r)
    PROVE  RoomForCounted'
<1>1. r \in PastCount /\ PastCount' = PastCount \ {r}
  BY DEF InsertInvite, Goto, PastCount, Inv, TypeOK
<1>2. Cardinality(PastCount') = Cardinality(PastCount) - 1
  BY <1>1, PastCountFinite, FS_RemoveElement
<1>3. PICK i \in Invites : expiresAt' = [expiresAt EXCEPT ![i] = stamp[r] + Ttl]
  BY DEF InsertInvite
<1>4. Pending' \subseteq Pending \cup {i}
  BY <1>3 DEF InsertInvite, Pending, PendingAt, Inv, TypeOK
<1>5. IsFiniteSet(Pending) /\ Cardinality(Pending) \in Nat
  BY PendingFinite DEF Pending
<1>6. /\ IsFiniteSet(Pending \cup {i})
      /\ Cardinality(Pending \cup {i}) <= Cardinality(Pending) + 1
  BY <1>5, FS_AddElement
<1>7. Cardinality(Pending') <= Cardinality(Pending \cup {i})
  BY <1>4, <1>6, FS_Subset
<1>8. Cardinality(Pending \cup {i}) \in Nat
  BY <1>6, FS_CardinalityType
<1>. QED
  BY <1>2, <1>5, <1>6, <1>7, <1>8, PrimesFinite, PastCountFinite,
     InvitesAssumption DEF RoomForCounted

LEMMA OthersAddNone ==
    ASSUME Inv, [Next]_vars,
           \A r \in Requests : ~CountPending(r) /\ ~InsertInvite(r)
    PROVE  Pending' \subseteq Pending /\ PastCount' \subseteq PastCount
<1>. USE InvitesAssumption DEF Inv, TypeOK, PastCount, Goto, table, local,
        Pending, PendingAt
<1>1. ASSUME NEW r \in Requests, Begin(r)
      PROVE  Pending' \subseteq Pending /\ PastCount' \subseteq PastCount
  BY <1>1 DEF Begin, BeginCreate, BeginRevoke, BeginAccept
<1>2. ASSUME NEW r \in Requests, NEW from \in PCs, Reject(r, from)
      PROVE  Pending' \subseteq Pending /\ PastCount' \subseteq PastCount
  BY <1>2 DEF Reject
<1>3. ASSUME NEW r \in Requests, Continue(r)
      PROVE  Pending' \subseteq Pending /\ PastCount' \subseteq PastCount
  <2>1. CASE FindPending(r) \/ CheckInvite(r) \/ CreateUser(r) \/ CreateMember(r)
    BY <2>1 DEF FindPending, CheckInvite, CreateUser, CreateMember
  <2>2. CASE MarkRevoked(r)
    BY <2>2 DEF MarkRevoked
  <2>3. CASE CommitAccept(r)
    <3>1. /\ usedAt' = [usedAt EXCEPT ![inv[r]] = stamp[r]]
          /\ stamp[r] # 0
      BY <2>3 DEF CommitAccept, Consistent
    <3>2. \A i \in Invites : usedAt'[i] = 0 => usedAt[i] = 0
      BY <3>1
    <3>. QED  BY <2>3, <3>2 DEF CommitAccept
  <2>4. CASE \/ RejectFull(r) \/ RejectRevoke(r) \/ RejectInvite(r)
             \/ RejectEmail(r) \/ RollBackAccept(r)
    BY <2>4, <1>2 DEF RejectFull, RejectRevoke, RejectInvite, RejectEmail,
       RollBackAccept, PCs
  <2>. QED  BY <1>3, <2>1, <2>2, <2>3, <2>4 DEF Continue
<1>4. ASSUME NEW r \in Requests, Abort(r)
      PROVE  Pending' \subseteq Pending /\ PastCount' \subseteq PastCount
  BY <1>4, <1>2 DEF Abort
<1>5. CASE Tick
  BY <1>5 DEF Tick
<1>6. CASE UNCHANGED vars
  BY <1>6 DEF vars
<1>. QED  BY <1>1, <1>3, <1>4, <1>5, <1>6, NextSplit

(* However many creations race, the limit is overrun by at most one        *)
(* invitation for each request but one.                                    *)
THEOREM RacesOverrunPendingByRequests == Spec => []PendingWithinRace
<1>1. Init => RoomForCounted
  <2>. SUFFICES ASSUME Init PROVE RoomForCounted
    OBVIOUS
  <2>1. Pending = {} /\ PastCount = {}
    BY DEF Init, PastCount, Pending, PendingAt
  <2>. QED
    BY <2>1, PastCountFinite, FS_EmptySet, InvitesAssumption DEF RoomForCounted
<1>2. Inv /\ RoomForCounted /\ [Next]_vars => RoomForCounted'
  BY NoneAdded, CountKeepsRoom, InsertKeepsRoom, OthersAddNone
<1>3. RoomForCounted => PendingWithinRace
  <2>1. Cardinality(Pending) \in Nat
    BY PendingFinite DEF Pending
  <2>. QED
    BY <2>1, PastCountFinite, InvitesAssumption DEF RoomForCounted, PendingWithinRace
<1>. QED  BY <1>1, <1>2, <1>3, InitInv, NextInv, PTL DEF Spec

(* One request at a time, the limit holds exactly.                         *)
THEOREM SerialPendingLimit ==
    ASSUME Cardinality(Requests) = 1
    PROVE  Spec => []PendingLimit
<1>1. PendingWithinRace => PendingLimit
  <2>1. Cardinality(Pending) \in Nat
    BY PendingFinite DEF Pending
  <2>. QED  BY <2>1, InvitesAssumption DEF PendingWithinRace, PendingLimit
<1>. QED  BY <1>1, RacesOverrunPendingByRequests, PTL
=============================================================================
