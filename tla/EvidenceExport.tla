---------------------------- MODULE EvidenceExport ----------------------------
(***************************************************************************)
(* MissionFlow with the guard events of a mission and what is read from    *)
(* them: the summary that getMission shows and the evidence export, whose  *)
(* parts are each the latest of their kind.  Each action is an action of   *)
(* MissionFlow with the event it records, or the dry run, which only       *)
(* records one.  In this flow nothing is paid, so no event has a receipt.  *)
(* Evidence modes, attack summaries and the redaction of what is exported  *)
(* are left out, as are the statements between an event and its timeline   *)
(* row, which GuardPipeline has.                                           *)
(***************************************************************************)
EXTENDS MissionFlow, FiniteSets

CONSTANT MaxEvents  \* bound on the events that dry runs and refusals are added to

VARIABLES
  events,  \* the guard_events rows of each mission, mission_resource apart
  issued,  \* payment_contexts.issued_at
  last     \* the event of each mission that was recorded last

exportVars == <<events, issued, last>>
flowVars == <<vars, exportVars>>

Event(l, d, r, t) == [layer |-> l, decision |-> d, resource |-> r, at |-> t]

NoEvent == Event("none", "not_recorded", NoResource, Never)

GuardEvent(d, r) == Event("guard", d, r, now)

DryRunEvent(r) == Event("dry_run", "fallback_required", r, now)

ResourceEvent(r, t) == Event("mission_resource", "fallback_required", r, t)

CanRecord(m) == Cardinality(events[m]) < MaxEvents

Record(m, e) ==
  /\ events' = [events EXCEPT ![m] = @ \cup {e}]
  /\ last' = [last EXCEPT ![m] = e]

Silent == UNCHANGED exportVars
-----------------------------------------------------------------------------
(***************************************************************************)
(* listGuardEvents: by time, then by id.  The ids of dry runs begin with   *)
(* "dry_", those of the guard with "evt_" and go on at random, those of a  *)
(* create with "mission_resource_" and a hash.                             *)
(***************************************************************************)
IdOrder == [dry_run |-> 1, guard |-> 2, mission_resource |-> 3]

Precedes(e, f) ==
  \/ e.at < f.at
  \/ e.at = f.at /\ IdOrder[e.layer] < IdOrder[f.layer]
  \/ /\ e.at = f.at
     /\ e.layer = "mission_resource" /\ f.layer = "mission_resource"
     /\ e.resource > f.resource

AllEvents(m) == events[m] \cup {ResourceEvent(r, requested[m][r]) : r \in Requested(m)}

LatestOf(set) == {e \in set : \A f \in set : ~ Precedes(e, f)}

OldestOf(set) == {e \in set : \A f \in set : ~ Precedes(f, e)}

FirstGuardSummary(m) ==  \* mutation: the list is read from its other end
  IF AllEvents(m) = {} THEN {NoEvent} ELSE OldestOf(AllEvents(m))

(***************************************************************************)
(* latestGuardSummary and guardFactsFromEvents: the events that may be the *)
(* last of the list, which are several when the guard recorded several in  *)
(* one millisecond.                                                        *)
(***************************************************************************)
GuardSummary(m) == IF AllEvents(m) = {} THEN {NoEvent} ELSE LatestOf(AllEvents(m))

(***************************************************************************)
(* What the export shows of the resource: in the challenge of the latest   *)
(* event that has one, in the only payment context, in the latest receipt  *)
(* and in the latest dual receipts.  Events of the guard of one            *)
(* millisecond may be in any order, so the challenge may be any of theirs. *)
(***************************************************************************)
FirstChallenge(m) ==  \* mutation: the events are not reversed
  {e.resource : e \in OldestOf(events[m])}

ExportedChallenge(m) == {e.resource : e \in LatestOf(events[m])}

ExportedContext(m) == {context[m]} \ {NoResource}

ExportedReceipt(m) == {receipt[m].resource} \ {NoResource}

ExportedDual(m) ==
  {d.resource : d \in {x \in dual[m] : \A y \in dual[m] : y.created <= x.created}}

Export(m) ==
  [challenge |-> ExportedChallenge(m), context |-> ExportedContext(m),
   receipt |-> ExportedReceipt(m), dual |-> ExportedDual(m)]
-----------------------------------------------------------------------------
ExportInit ==
  /\ Init
  /\ events = [m \in Missions |-> {}]
  /\ issued = [m \in Missions |-> Never]
  /\ last = [m \in Missions |-> NoEvent]

(***************************************************************************)
(* dryRunMission runs to its end at once.  Its event's id is a hash of the *)
(* mission and the millisecond: a second dry run in one is an error.       *)
(***************************************************************************)
DryRun(m) ==
  /\ LoopFree
  /\ Exists(m)
  /\ \A e \in events[m] : e.layer = "dry_run" => e.at # now
  /\ CanRecord(m)
  /\ Record(m, DryRunEvent(MissionResource(m)))
  /\ UNCHANGED <<vars, issued>>

(***************************************************************************)
(* The events of createMission and guardMission.                           *)
(***************************************************************************)
CreateRecordsResource(s) ==
  /\ RecordMissionResource(s)
  /\ last' = [last EXCEPT ![job[s].mission] = ResourceEvent(job[s].resource, job[s].at)]
  /\ UNCHANGED <<events, issued>>

LayerRejection(s, m) ==
  /\ LayerRejects(s, m)
  /\ CanRecord(m)
  /\ Record(m, GuardEvent("block", MissionResource(m)))
  /\ UNCHANGED issued

LockRefusal(s, m) ==
  /\ LockRefuses(s, m)
  /\ CanRecord(m)
  /\ Record(m, GuardEvent("block", MissionResource(m)))
  /\ UNCHANGED issued

ContextIssued(s, m) ==
  /\ LockReserves(s, m)
  /\ issued' = [issued EXCEPT ![m] = now]
  /\ UNCHANGED <<events, last>>

FallbackRequired(s) ==
  /\ CawRequiresFallback(s)
  /\ Record(job[s].mission, GuardEvent("fallback_required", context[job[s].mission]))
  /\ UNCHANGED issued

ExportNext ==
  \/ \E s \in Slots, m \in Missions :
       \/ \E r \in Resources, b \in Budgets : CreateMission(s, m, r, b) /\ Silent
       \/ LayerRejection(s, m)
       \/ LockRefusal(s, m)
       \/ ContextIssued(s, m)
       \/ InsertFallbackReceipt(s, m) /\ Silent
  \/ \E s \in Slots :
       \/ CreateRecordsResource(s)
       \/ ResourceEventExists(s) /\ Silent
       \/ FallbackRequired(s)
       \/ VoidReservation(s) /\ Silent
       \/ UpdateMissionStatus(s) /\ Silent
       \/ UpsertDualReceipt(s) /\ Silent
       \/ MarkBlocked(s) /\ Silent
  \/ \E m \in Missions : DryRun(m)
  \/ Tick /\ Silent
  \/ Crash /\ Silent

ExportSpec == ExportInit /\ [][ExportNext]_flowVars
-----------------------------------------------------------------------------
(***************************************************************************)
(* The guard summary of a mission is the last event that any request       *)
(* recorded, or one of the same millisecond: no dry run or refusal hides   *)
(* behind an older event of another layer.                                 *)
(***************************************************************************)
LastDecisionIsShown ==
  \A m \in Missions : \A e \in GuardSummary(m) : e.at = last[m].at

(***************************************************************************)
(* The parts of an export are read one by one, and may tell of different   *)
(* resources.  They do only when a create asked for another resource since *)
(* the payment context was made, or when the guard that made it has not    *)
(* recorded its decision: it still awaits the wallet, or was cut.          *)
(***************************************************************************)
ExportIsMixed(m) ==
  \E r \in Export(m).context :
    \/ r \notin Export(m).challenge
    \/ \E q \in Export(m).receipt \cup Export(m).dual : q # r

AskedAgain(m) == \E r \in Requested(m) \ {context[m]} : requested[m][r] >= issued[m]

Undecided(m) == \A e \in events[m] : e.layer = "guard" => e.decision # "fallback_required"

MixedExportIsExplained ==
  \A m \in Missions : ExportIsMixed(m) => AskedAgain(m) \/ Undecided(m)
=============================================================================
