------------------------------- MODULE Invites -------------------------------
(***************************************************************************)
(* The invitations of a workspace: InvitesService of the backend           *)
(* (src/backend/src/invites/invites.service.ts).                           *)
(*                                                                         *)
(* create and revoke are single statements at READ COMMITTED, with a read  *)
(* before them; accept is one interactive transaction.  A Date the server  *)
(* takes and the statement that carries it to the database are two steps.  *)
(* A step of accept that inserts a user holds its e-mail address in the    *)
(* unique index until the transaction ends: an insertion of the same       *)
(* address waits for that.  The last statement and COMMIT are one action.  *)
(*                                                                         *)
(* One workspace is enough: every statement is confined to one.  A token   *)
(* is the invitation it belongs to (32 random bytes, unique by hash); an   *)
(* unknown token, an account that is logged in, an empty name and a caller *)
(* who is no ADMIN are answered without a statement that writes (roles are *)
(* never changed), as are list and preview.                                *)
(***************************************************************************)
EXTENDS Naturals, FiniteSets

CONSTANTS
    Requests,    \* the requests the server may be serving at the same time
    Invites,     \* the identities of the invitations
    Emails,      \* e-mail addresses, in lower case
    Founders,    \* the accounts there are before any invitation (the seed)
    MaxPending,  \* MAX_PENDING_INVITES
    Ttl,         \* INVITE_TTL_MS, in ticks of the clock
    MaxTime,     \* bound on the clock
    None         \* no invitation, no account

ASSUME InvitesAssumption ==
    /\ IsFiniteSet(Requests) /\ Requests # {}
    /\ IsFiniteSet(Invites)
    /\ Founders \subseteq Emails
    /\ None \notin Invites /\ None \notin Emails
    /\ MaxPending \in Nat \ {0}
    /\ Ttl \in Nat \ {0} /\ MaxTime \in Nat \ {0}

VARIABLES
    accounts,   \* committed users, each with its membership
    expiresAt,  \* per invitation: when it expires, 0 before it is created
    usedAt,     \* per invitation: when it was used, 0 for null
    usedBy,     \* per invitation: usedByUserId
    revoked,    \* the invitations whose revokedAt is set
    now,        \* the clock
    pc,         \* per request: the await it is suspended at
    inv,        \* per request: the invitation it works on
    email,      \* per accept: the address of the account
    stamp       \* per request: the Date its statement carries

table == <<accounts, expiresAt, usedAt, usedBy, revoked>>
local == <<inv, email, stamp>>
vars  == <<table, now, pc, local>>

PCs == {"idle",
        "counting",   \* create: the count is on its way
        "inserting",  \* create: below the limit
        "finding",    \* revoke: the search for the invitation is on its way
        "revoking",   \* revoke: found, the update is on its way
        "hashing",    \* accept: argon2, transaction not begun
        "valid",      \* accept: in the transaction, invitation checked
        "userMade",   \* accept: user inserted
        "marking"}    \* accept: membership inserted, updateMany on its way

Init ==
    /\ accounts = Founders
    /\ expiresAt = [i \in Invites |-> 0]
    /\ usedAt = [i \in Invites |-> 0]
    /\ usedBy = [i \in Invites |-> None]
    /\ revoked = {}
    /\ now = 1
    /\ pc = [r \in Requests |-> "idle"]
    /\ inv = [r \in Requests |-> None]
    /\ email = [r \in Requests |-> None]
    /\ stamp = [r \in Requests |-> 0]

-----------------------------------------------------------------------------
Goto(r, from, to) ==
    /\ pc[r] = from
    /\ pc' = [pc EXCEPT ![r] = to]

Forget(r) ==
    /\ inv' = [inv EXCEPT ![r] = None]
    /\ email' = [email EXCEPT ![r] = None]
    /\ stamp' = [stamp EXCEPT ![r] = 0]

(* The request is over without a trace in the database.                    *)
Reject(r, from) ==
    /\ Goto(r, from, "idle")
    /\ Forget(r)
    /\ UNCHANGED <<table, now>>

(* pendingInviteWhere: neither used nor revoked, and expiring after t.     *)
PendingAt(t) ==
    {i \in Invites : expiresAt[i] > t /\ usedAt[i] = 0 /\ i \notin revoked}

Pending == PendingAt(now)

Created == {i \in Invites : expiresAt[i] # 0}

-----------------------------------------------------------------------------
(* create.                                                                 *)

(* Bound: an identity is left for every creation that has begun.           *)
IdentityLeft ==
    Cardinality({q \in Requests : pc[q] \in {"counting", "inserting"}})
        < Cardinality(Invites \ Created)

BeginCreate(r) ==
    /\ Goto(r, "idle", "counting")
    /\ IdentityLeft
    /\ stamp' = [stamp EXCEPT ![r] = now]
    /\ UNCHANGED <<table, now, inv, email>>

(* Mutant: the comparison is off by one.                                   *)
BelowOrAtLimit(r) == Cardinality(PendingAt(stamp[r])) <= MaxPending

BelowLimit(r) == Cardinality(PendingAt(stamp[r])) < MaxPending

CountPending(r) ==
    /\ Goto(r, "counting", "inserting")
    /\ BelowLimit(r)
    /\ UNCHANGED <<table, now, local>>

RejectFull(r) == Reject(r, "counting") /\ ~BelowLimit(r)

InsertInvite(r) ==
    \E i \in Invites \ Created :
        /\ Goto(r, "inserting", "idle")
        /\ expiresAt' = [expiresAt EXCEPT ![i] = stamp[r] + Ttl]
        /\ Forget(r)
        /\ UNCHANGED <<accounts, usedAt, usedBy, revoked, now>>

-----------------------------------------------------------------------------
(* revoke.                                                                 *)

BeginRevoke(r) ==
    \E i \in Created :
        /\ Goto(r, "idle", "finding")
        /\ inv' = [inv EXCEPT ![r] = i]
        /\ stamp' = [stamp EXCEPT ![r] = now]
        /\ UNCHANGED <<table, now, email>>

FindPending(r) ==
    /\ Goto(r, "finding", "revoking")
    /\ inv[r] \in PendingAt(stamp[r])
    /\ UNCHANGED <<table, now, local>>

RejectRevoke(r) == Reject(r, "finding") /\ inv[r] \notin PendingAt(stamp[r])

(* update by id: what findFirst has seen is not asked again.               *)
MarkRevoked(r) ==
    /\ Goto(r, "revoking", "idle")
    /\ revoked' = revoked \cup {inv[r]}
    /\ Forget(r)
    /\ UNCHANGED <<accounts, expiresAt, usedAt, usedBy, now>>

-----------------------------------------------------------------------------
(* accept.                                                                 *)

BeginAccept(r) ==
    \E i \in Created, e \in Emails :
        /\ Goto(r, "idle", "hashing")
        /\ inv' = [inv EXCEPT ![r] = i]
        /\ email' = [email EXCEPT ![r] = e]
        /\ UNCHANGED <<table, now, stamp>>

(* findUnique and getInvalidReason.                                        *)
CheckInvite(r) ==
    /\ Goto(r, "hashing", "valid")
    /\ inv[r] \in Pending
    /\ UNCHANGED <<table, now, local>>

RejectInvite(r) == Reject(r, "hashing") /\ inv[r] \notin Pending

(* The address is in the unique index, not yet committed.                  *)
Reserves(r, e) == pc[r] \in {"userMade", "marking"} /\ email[r] = e

(* Mutant: user.create outside the transaction.                            *)
CreateUserAtOnce(r) ==
    /\ Goto(r, "valid", "userMade")
    /\ email[r] \notin accounts
    /\ accounts' = accounts \cup {email[r]}
    /\ UNCHANGED <<expiresAt, usedAt, usedBy, revoked, now, local>>

CreateUser(r) ==
    /\ Goto(r, "valid", "userMade")
    /\ email[r] \notin accounts
    /\ \A q \in Requests \ {r} : ~Reserves(q, email[r])
    /\ UNCHANGED <<table, now, local>>

(* P2002: the address belongs to an account.                               *)
RejectEmail(r) == Reject(r, "valid") /\ email[r] \in accounts

(* The membership of the new user; then usedAt is taken.                   *)
CreateMember(r) ==
    /\ Goto(r, "userMade", "marking")
    /\ stamp' = [stamp EXCEPT ![r] = now]
    /\ UNCHANGED <<table, now, inv, email>>

(* Mutants: updateMany no longer asks for revokedAt, for usedAt, for       *)
(* expiresAt.                                                              *)
UnlessUsedOrExpired(r) ==
    usedAt[inv[r]] = 0 /\ expiresAt[inv[r]] > stamp[r]

UnlessRevokedOrExpired(r) ==
    inv[r] \notin revoked /\ expiresAt[inv[r]] > stamp[r]

UnlessUsedOrRevoked(r) == usedAt[inv[r]] = 0 /\ inv[r] \notin revoked

(* The where clause of updateMany.                                         *)
StillPending(r) == inv[r] \in PendingAt(stamp[r])

CommitAccept(r) ==
    /\ Goto(r, "marking", "idle")
    /\ StillPending(r)
    /\ accounts' = accounts \cup {email[r]}
    /\ usedAt' = [usedAt EXCEPT ![inv[r]] = stamp[r]]
    /\ usedBy' = [usedBy EXCEPT ![inv[r]] = email[r]]
    /\ Forget(r)
    /\ UNCHANGED <<expiresAt, revoked, now>>

(* Mutant: when it matches no row the mark is tried again.                 *)
RollBackAcceptRetries(r) ==
    /\ Goto(r, "marking", "userMade")
    /\ ~StillPending(r)
    /\ UNCHANGED <<table, now, local>>

(* updateMany matches no row: user and membership are rolled back.         *)
RollBackAccept(r) == Reject(r, "marking") /\ ~StillPending(r)

-----------------------------------------------------------------------------
(* A request ends at any await without a further effect: the server dies,  *)
(* the database is lost, the transaction exceeds its time.                 *)
Abort(r) == pc[r] # "idle" /\ Reject(r, pc[r])

Tick ==
    /\ now < MaxTime
    /\ now' = now + 1
    /\ UNCHANGED <<table, pc, local>>

Begin(r) == BeginCreate(r) \/ BeginRevoke(r) \/ BeginAccept(r)

Continue(r) ==
    \/ CountPending(r) \/ RejectFull(r) \/ InsertInvite(r)
    \/ FindPending(r) \/ RejectRevoke(r) \/ MarkRevoked(r)
    \/ CheckInvite(r) \/ RejectInvite(r) \/ CreateUser(r) \/ RejectEmail(r)
    \/ CreateMember(r) \/ CommitAccept(r) \/ RollBackAccept(r)

Next ==
    \/ \E r \in Requests : Begin(r) \/ Continue(r) \/ Abort(r)
    \/ Tick

Spec == Init /\ [][Next]_vars

(* A request that has begun is driven on by the event loop; one that waits *)
(* for an address gets its turn when the transaction before it ends, hence *)
(* strong fairness.  Nothing has to be aborted and no client has to call.  *)
FairSpec == Spec /\ \A r \in Requests : SF_vars(Continue(r))

-----------------------------------------------------------------------------
(* Properties.                                                             *)

TypeOK ==
    /\ Founders \subseteq accounts /\ accounts \subseteq Emails
    /\ expiresAt \in [Invites -> Nat] /\ usedAt \in [Invites -> Nat]
    /\ usedBy \in [Invites -> Emails \cup {None}]
    /\ revoked \subseteq Invites
    /\ now \in 1..MaxTime
    /\ pc \in [Requests -> PCs]
    /\ inv \in [Requests -> Invites \cup {None}]
    /\ email \in [Requests -> Emails \cup {None}]
    /\ stamp \in [Requests -> 0..now]

(* An invitation is a single-use token and an account's only way in:       *)
(* accounts that joined and used invitations correspond one to one.  The   *)
(* user, its membership and the mark are one transaction, and the loser of *)
(* a race for a token leaves no user behind.                               *)
Joined == accounts \ Founders

OneAccountPerInvite ==
    /\ \A e \in Joined : \E i \in Invites : usedBy[i] = e
    /\ \A i \in Invites : usedBy[i] # None => usedBy[i] \in Joined
    /\ \A i, j \in Invites : usedBy[i] = usedBy[j] /\ usedBy[i] # None => i = j

(* The clock of accept that marks an invitation as used stood before its   *)
(* expiry, however long hashing and waiting took.                          *)
UsedInTime == \A i \in Invites : usedAt[i] # 0 => usedAt[i] < expiresAt[i]

(* Once revoke has been answered nobody gets in with that invitation, and  *)
(* whoever has got in stays the one who has.                               *)
NoEntryAfterRevoke ==
    [][\A i \in Invites :
          usedBy'[i] # usedBy[i] => usedBy[i] = None /\ i \notin revoked]_vars

(* The limit of create, and what it is worth when creations race.          *)
PendingLimit == Cardinality(Pending) <= MaxPending

PendingWithinRace ==
    Cardinality(Pending) + 1 <= MaxPending + Cardinality(Requests)

(* Only an unused invitation can be revoked.                               *)
RevokesOnlyUnused ==
    [][\A i \in revoked' \ revoked : usedAt[i] = 0]_vars

(* Every request is answered: nobody waits for an address for ever.        *)
NobodyWaitsForever == \A r \in Requests : (pc[r] # "idle") ~> (pc[r] = "idle")

(* However requests race, the invitations behave like single-use tokens.   *)
OneShot == INSTANCE Tokens WITH
    open <- {i \in Created : usedAt[i] = 0 /\ i \notin revoked},
    holder <- usedBy
ImplementsTokens == OneShot!Spec

-----------------------------------------------------------------------------
(* The inductive invariants of the proofs.                                 *)

(* A creation past its count is an invitation to come.                     *)
PastCount == {r \in Requests : pc[r] = "inserting"}

RoomForCounted ==
    Cardinality(Pending) + Cardinality(PastCount) + 1
        <= MaxPending + Cardinality(Requests)

(* An invitation that has not been created has no history; a user that is  *)
(* inserted but not committed has an address of its own that no account    *)
(* has.                                                                    *)
Consistent ==
    /\ \A i \in Invites : usedBy[i] # None <=> usedAt[i] # 0
    /\ \A i \in Invites \ Created : usedAt[i] = 0 /\ i \notin revoked
    /\ \A r \in Requests : pc[r] \in {"valid", "userMade", "marking", "hashing",
                                      "finding", "revoking"} => inv[r] \in Created
    /\ \A r \in Requests : pc[r] \in {"hashing", "valid", "userMade", "marking"}
          => email[r] \in Emails
    /\ \A r \in Requests : pc[r] \in {"counting", "inserting", "marking"} => stamp[r] # 0
    /\ \A r \in Requests : Reserves(r, email[r]) =>
          /\ email[r] \notin accounts
          /\ \A q \in Requests \ {r} : ~Reserves(q, email[r])
=============================================================================
