--------------------------- MODULE SessionLeases ---------------------------
(***************************************************************************)
(* The seats of a tenant (platform/identity-auth): a login takes a lease   *)
(* as long as fewer than the tenant's limit are active, a refresh moves    *)
(* the lease to the new refresh token, a logout revokes it, a password     *)
(* reset deletes it, and one that is not refreshed for 30 minutes no       *)
(* longer counts.                                                          *)
(*                                                                         *)
(* A login counts and inserts under an advisory lock of the tenant; the    *)
(* other operations take no lock but the rows they write, and read the     *)
(* token they are about before that.                                       *)
(*                                                                         *)
(* One tenant, with a limit that does not change.  Credentials, rate       *)
(* limits, the tenant's status and the access tokens are left out: where   *)
(* they refuse a request it ends as one that fails does.                   *)
(***************************************************************************)
EXTENDS Integers, FiniteSets

CONSTANTS
    Users,
    Workers,    \* requests in progress at a time
    SeatLimit,  \* the tenant's concurrent-user limit
    MaxTokens   \* bound: refresh tokens issued

VARIABLES
    tokens,     \* rows of refresh_tokens
    leases,     \* rows of session_leases
    issued,     \* how many tokens there have been: the last one's id
    pc, req     \* each worker's place, and the token or user it is about

vars == <<tokens, leases, issued, pc, req>>

Ids == 1 .. MaxTokens

Token == [id : Ids, user : Users, live : BOOLEAN]

(* live: revoked_at IS NULL.  recent: last_seen_at >= NOW() - 30 min.      *)
(* revived, which no column records: it was refreshed when not recent.     *)
Lease == [session : Ids, user : Users,
          live : BOOLEAN, recent : BOOLEAN, revived : BOOLEAN]

Places == {"idle", "locked", "counted", "rotate", "unlease", "unseat", "forget"}

None == [id |-> 0, user |-> "none"]

TypeOK ==
    /\ issued \in 0 .. MaxTokens
    /\ tokens \in SUBSET Token
    /\ leases \in SUBSET Lease
    /\ \A l \in leases : \E t \in tokens : t.id = l.session
    /\ \A t \in tokens : t.id <= issued
    /\ pc \in [Workers -> Places]
    /\ req \in [Workers -> [id : 0 .. MaxTokens, user : Users \cup {"none"}]]

Init ==
    /\ tokens = {}
    /\ leases = {}
    /\ issued = 0
    /\ pc = [w \in Workers |-> "idle"]
    /\ req = [w \in Workers |-> None]

Begin(w, place, r) ==
    /\ pc[w] = "idle"
    /\ pc' = [pc EXCEPT ![w] = place]
    /\ req' = [req EXCEPT ![w] = r]

Goto(w, place) == pc' = [pc EXCEPT ![w] = place] /\ UNCHANGED req

Finish(w) ==
    /\ pc' = [pc EXCEPT ![w] = "idle"]
    /\ req' = [req EXCEPT ![w] = None]

Issue ==
    /\ issued < MaxTokens
    /\ issued' = issued + 1

NewToken(u) == [id |-> issued + 1, user |-> u, live |-> TRUE]

-----------------------------------------------------------------------------
(* login *)

(* Mutant: the advisory lock is not taken. *)
TenantLockedMutant == FALSE

TenantLocked == \E w \in Workers : pc[w] \in {"locked", "counted"}

(* count_active_leases_in_tx *)
Active == {l \in leases : l.live /\ l.recent}

AcquireTenantLock(w, u) ==
    /\ ~TenantLocked
    /\ Begin(w, "locked", [id |-> 0, user |-> u])
    /\ UNCHANGED <<tokens, leases, issued>>

CountLeases(w) ==
    /\ pc[w] = "locked"
    /\ IF Cardinality(Active) < SeatLimit THEN Goto(w, "counted") ELSE Finish(w)
    /\ UNCHANGED <<tokens, leases, issued>>

(* The token and the lease; the commit releases the lock. *)
CreateLease(w) ==
    LET u == req[w].user IN
    /\ pc[w] = "counted"
    /\ Issue
    /\ tokens' = tokens \cup {NewToken(u)}
    /\ leases' = leases \cup
           {[session |-> issued + 1, user |-> u,
             live |-> TRUE, recent |-> TRUE, revived |-> FALSE]}
    /\ Finish(w)

-----------------------------------------------------------------------------
(* refresh *)

ReadToken(w, t) ==
    /\ t \in tokens /\ t.live
    /\ Begin(w, "rotate", [id |-> t.id, user |-> t.user])
    /\ UNCHANGED <<tokens, leases, issued>>

(* The old token is revoked whatever it has become, the new one inserted   *)
(* and the lease, if a live one is still with the old token, moved to it.  *)
Rotated(l, old) ==
    IF l.session = old /\ l.live
    THEN [l EXCEPT !.session = issued + 1, !.recent = TRUE,
                   !.revived = @ \/ ~l.recent]
    ELSE l

RotateLease(w) ==
    /\ pc[w] = "rotate"
    /\ Issue
    /\ tokens' = {IF t.id = req[w].id THEN [t EXCEPT !.live = FALSE] ELSE t
                     : t \in tokens} \cup {NewToken(req[w].user)}
    /\ leases' = {Rotated(l, req[w].id) : l \in leases}
    /\ Finish(w)

-----------------------------------------------------------------------------
(* logout, and a password reset: each statement commits by itself. *)

RevokeToken(w, t) ==
    /\ t \in tokens /\ t.live
    /\ Begin(w, "unlease", [id |-> t.id, user |-> t.user])
    /\ tokens' = (tokens \ {t}) \cup {[t EXCEPT !.live = FALSE]}
    /\ UNCHANGED <<leases, issued>>

RevokeLease(w) ==
    /\ pc[w] = "unlease"
    /\ leases' = {IF l.session = req[w].id THEN [l EXCEPT !.live = FALSE] ELSE l
                     : l \in leases}
    /\ Finish(w)
    /\ UNCHANGED <<tokens, issued>>

ResetPassword(w, u) ==
    /\ Begin(w, "unseat", [id |-> 0, user |-> u])
    /\ UNCHANGED <<tokens, leases, issued>>

DeleteLeases(w) ==
    /\ pc[w] = "unseat"
    /\ leases' = {l \in leases : l.user # req[w].user}
    /\ Goto(w, "forget")
    /\ UNCHANGED <<tokens, issued>>

(* ON DELETE CASCADE takes the leases of the tokens with them. *)
DeleteTokens(w) ==
    /\ pc[w] = "forget"
    /\ tokens' = {t \in tokens : t.user # req[w].user}
    /\ leases' = {l \in leases : l.user # req[w].user}
    /\ Finish(w)
    /\ UNCHANGED issued

(* The request is refused, a statement fails, or the process ends. *)
Abort(w) ==
    /\ pc[w] # "idle"
    /\ Finish(w)
    /\ UNCHANGED <<tokens, leases, issued>>

(* Thirty minutes pass without a refresh. *)
Lapse(l) ==
    /\ l \in leases /\ l.recent
    /\ leases' = (leases \ {l}) \cup {[l EXCEPT !.recent = FALSE]}
    /\ UNCHANGED <<tokens, issued, pc, req>>

-----------------------------------------------------------------------------
Request(w) ==
    \/ \E u \in Users : AcquireTenantLock(w, u) \/ ResetPassword(w, u)
    \/ \E t \in tokens : ReadToken(w, t) \/ RevokeToken(w, t)

Next ==
    \/ \E w \in Workers :
         \/ Request(w) \/ Abort(w)
         \/ CountLeases(w) \/ CreateLease(w) \/ RotateLease(w)
         \/ RevokeLease(w) \/ DeleteLeases(w) \/ DeleteTokens(w)
    \/ \E l \in leases : Lapse(l)

Spec == Init /\ [][Next]_vars

-----------------------------------------------------------------------------
(* Properties.                                                             *)

(* Concurrent logins never take more seats than the tenant has, whatever   *)
(* refreshes, logouts, resets and lapses happen between the count and the  *)
(* lease.  (A refresh of a lapsed lease makes it active again without a    *)
(* count: the revived leases may come on top.)                             *)
SeatsNotOversold ==
    Cardinality({l \in Active : ~l.revived}) <= SeatLimit
=============================================================================
