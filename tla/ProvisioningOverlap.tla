------------------------ MODULE ProvisioningOverlap ------------------------
(***************************************************************************)
(* Provisioning with two history variables: the tenants that are, or since *)
(* were last put down have been, in two hands at once, and those whose     *)
(* activation was cut off from its announcement.  Nothing in the code      *)
(* prevents either: find_stuck_tenants only waits ten seconds, the retry   *)
(* endpoint's UPDATE does not repeat its guard, and activate_tenant writes *)
(* in two statements.  The variables never hold a step of Provisioning     *)
(* back.                                                                   *)
(***************************************************************************)
EXTENDS Provisioning

Lifecycle == INSTANCE TenantLifecycle

VARIABLES
    crossed,   \* tenants in two hands, or in the hand that failed to announce
    cut        \* active tenants whose run ended before it announced them

overlapVars == <<vars, crossed, cut>>

(* A worker that may still write the tenant's status. *)
AtWork(w, t) == cur[w] = t /\ pc[w] \notin {"idle", "failEvent"}

(* A retry call between its guard and its reset. *)
Resetting(c, t) == callFor[c] = t /\ callPc[c] = "reset"

InHand(t) ==
    \/ \E w \in Workers : AtWork(w, t)
    \/ \E c \in Callers : Resetting(c, t)

(* Two runs, or two retry calls, have the tenant at once. *)
Contended(t) ==
    \/ \E v, w \in Workers : v # w /\ AtWork(v, t) /\ AtWork(w, t)
    \/ \E c, d \in Callers : c # d /\ Resetting(c, t) /\ Resetting(d, t)

(* A run fails the tenant it has just activated. *)
FailsToAnnounce(t) ==
    \E w \in Workers : cur[w] = t /\ pc[w] = "announce" /\ pc'[w] = "markFailed"

(* A run ends between the activation and the row of tenant.provisioned.    *)
CutOff(t) ==
    \E w \in Workers : /\ cur[w] = t /\ pc[w] = "announce"
                       /\ pc'[w] \notin {"announce", "complete"}

Watch ==
    /\ crossed' = {t \in Tenants :
           \/ Contended(t)'
           \/ FailsToAnnounce(t)
           \/ t \in crossed /\ InHand(t)'}
    /\ cut' = {t \in Tenants : CutOff(t) \/ (t \in cut /\ status'[t] = "active")}

OverlapInit == Init /\ crossed = {} /\ cut = {}

OverlapNext == Next /\ Watch

OverlapSpec == OverlapInit /\ [][OverlapNext]_overlapVars

(* Two runs on a tenant, two retry calls on it and the failing INSERT of   *)
(* its tenant.provisioned row are all that can move it against the         *)
(* registry's lifecycle; whatever else overlaps, fails, is lost or         *)
(* crashes, and on whatever other tenants, it keeps to it, and so it does  *)
(* again once nobody has it in hand.                                       *)
LifecycleUnlessCrossed ==
    [][\A t \in Tenants : t \notin crossed /\ status'[t] # status[t] =>
          <<status[t], status'[t]>> \in
              Lifecycle!ValidTransition \cup Lifecycle!ApiTransition]_overlapVars

(* t is announced, its row waits in the outbox or a run is about to write  *)
(* it.                                                                     *)
Told(t) ==
    \/ Event(t, Provisioned, 0) \in announced
    \/ \E i \in 1 .. Len(outbox) : outbox[i] = Event(t, Provisioned, 0)
    \/ \E w \in Workers : cur[w] = t /\ pc[w] = "announce"

(* An active tenant is announced, however often it is activated, put back  *)
(* and retried: only a run that ends between activate_tenant's two         *)
(* statements since it was last activated, by a crash or by the second     *)
(* one's failure, leaves it without its tenant.provisioned event.          *)
AnnouncedUnlessCut ==
    \A t \in Tenants : status[t] = "active" /\ t \notin cut => Told(t)
=============================================================================
