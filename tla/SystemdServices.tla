-------------------------- MODULE SystemdServices --------------------------
(***************************************************************************)
(* The map of systemd services, which a worker refreshes every 10 minutes  *)
(* and requests for the systemd plugin refresh when they come.             *)
(*                                                                         *)
(* A refresh lists the loaded units, updates the services of the list one  *)
(* by one, each under the mutex of the map, and at last removes those that *)
(* were not listed.  The mutex is not held in between, so refreshes may    *)
(* overlap, and the state a refresh stores is the one of its listing.      *)
(*                                                                         *)
(* Start refreshes once before it starts the worker; Stop cancels the      *)
(* worker's context and waits for it.  The CPU time, memory and peaks of a *)
(* service are updated together with its state, which stands for them      *)
(* here; so do the states on the way from one to another (activating,      *)
(* reloading, deactivating), which are stored as the others are.           *)
(***************************************************************************)
EXTENDS Naturals

CONSTANTS
  Units,             \* units that match the patterns
  Requests,          \* requests that may refresh at the same time
  MaxUnitChanges,    \* bound on the changes of units
  MaxSystemdErrors,  \* bound on D-Bus calls that fail
  NoService          \* no entry in the map

ASSUME UnitBoundsAssumption == MaxUnitChanges \in Nat /\ MaxSystemdErrors \in Nat

VARIABLES
  units,        \* units[u]: what systemd says of u
  services,     \* serviceStatsMap
  listing,      \* listing[r]: the listing of r and the units of it still to update
  lifecycle,    \* the worker: "new", "priming", "running", "stopping" or "stopped"
  unitChanges, systemdErrors

systemdVars == <<units, services, listing, lifecycle, unitChanges, systemdErrors>>

Refreshers == Requests \cup {"worker"}

\* ActiveEnterTimestamp tells a unit that was never active from one that no longer is.
HasBeenActive == {"active", "inactive", "failed"}
UnitStates == HasBeenActive \cup {"unloaded", "never active"}

\* ParseServiceStatus of ActiveState, which for a unit that never got to be active is inactive,
\* or failed when its start failed.
Parsed(s) == IF s = "never active" THEN {"inactive", "failed"} ELSE {s}

\* No refresh, and one that could connect to D-Bus.
NotListing == [stage |-> "idle"]
Connected == [stage |-> "list"]
Updates == [stage : {"update"}, of : [Units -> UnitStates], left : SUBSET Units]

SystemdTypeOK ==
  /\ units \in [Units -> UnitStates]
  /\ services \in [Units -> HasBeenActive \cup {NoService}]
  /\ listing \in [Refreshers -> {NotListing, Connected} \cup Updates]
  /\ \A r \in Refreshers : listing[r] \in Updates =>
       \A u \in listing[r].left : listing[r].of[u] # "unloaded"
  /\ lifecycle \in {"new", "priming", "running", "stopping", "stopped"}
  /\ unitChanges \in 0 .. MaxUnitChanges
  /\ systemdErrors \in 0 .. MaxSystemdErrors

SystemdInit ==
  /\ units \in [Units -> {"unloaded", "active"}]
  /\ services = [u \in Units |-> NoService]
  /\ listing = [r \in Refreshers |-> NotListing]
  /\ lifecycle = "new"
  /\ unitChanges = 0
  /\ systemdErrors = 0

-----------------------------------------------------------------------------
\* A unit is loaded, started, stopped or unloaded, or fails.
UnitChanges ==
  /\ unitChanges < MaxUnitChanges
  /\ unitChanges' = unitChanges + 1
  /\ \E u \in Units, s \in UnitStates :
       /\ s # units[u]
       /\ s = "never active" => units[u] = "unloaded"
       /\ s \in {"inactive", "failed"} => units[u] \in HasBeenActive
       /\ units' = [units EXCEPT ![u] = s]
  /\ UNCHANGED <<services, listing, lifecycle, systemdErrors>>

\* The context of the worker is cancelled by Stop, that of a request at any time.
Cancelled(r) == r \in Requests \/ lifecycle = "stopping"

\* The worker refreshes while it is primed and when it runs.
MayRefresh(r) == r \in Requests \/ lifecycle \in {"priming", "running"}

\* systemdConnection: without one, the refresh ends and says nothing.
Connect(r) ==
  /\ listing[r] = NotListing
  /\ MayRefresh(r)
  /\ listing' = [listing EXCEPT ![r] = Connected]
  /\ UNCHANGED <<units, services, lifecycle, unitChanges, systemdErrors>>

\* A faulty variant: the list is not restricted to units that are loaded.
ListAllUnits(r) ==
  /\ listing[r] = Connected
  /\ listing' = [listing EXCEPT ![r] = [stage |-> "update", of |-> units, left |-> Units]]
  /\ UNCHANGED <<units, services, lifecycle, unitChanges, systemdErrors>>

\* ListUnitsByPatternsContext, of the units that are loaded.
ListUnits(r) ==
  /\ listing[r] = Connected
  /\ listing' = [listing EXCEPT ![r] =
                   [stage |-> "update", of |-> units,
                    left |-> {u \in Units : units[u] # "unloaded"}]]
  /\ UNCHANGED <<units, services, lifecycle, unitChanges, systemdErrors>>

Updating(r) == listing[r].stage = "update"

\* updateServiceStats: whether a unit has been active is read now, its state is the listed one.
UpdateService(r) ==
  /\ Updating(r)
  /\ \E u \in listing[r].left :
       /\ listing' = [listing EXCEPT ![r].left = @ \ {u}]
       /\ IF units[u] \in HasBeenActive
            THEN \E s \in Parsed(listing[r].of[u]) : services' = [services EXCEPT ![u] = s]
            ELSE UNCHANGED services
  /\ UNCHANGED <<units, lifecycle, unitChanges, systemdErrors>>

\* A property of u cannot be read: the service stays as it was.
SkipService(r) ==
  /\ Updating(r)
  /\ systemdErrors < MaxSystemdErrors
  /\ systemdErrors' = systemdErrors + 1
  /\ \E u \in listing[r].left : listing' = [listing EXCEPT ![r].left = @ \ {u}]
  /\ UNCHANGED <<units, services, lifecycle, unitChanges>>

\* A faulty variant: services that a refresh did not see stay.
KeepStaleServices(r) ==
  /\ Updating(r)
  /\ listing[r].left = {}
  /\ listing' = [listing EXCEPT ![r] = NotListing]
  /\ UNCHANGED <<units, services, lifecycle, unitChanges, systemdErrors>>

\* removeStaleServices, and the end of the refresh.
RemoveStaleServices(r) ==
  /\ Updating(r)
  /\ listing[r].left = {}
  /\ services' = [u \in Units |-> IF listing[r].of[u] = "unloaded" THEN NoService ELSE services[u]]
  /\ listing' = [listing EXCEPT ![r] = NotListing]
  /\ UNCHANGED <<units, lifecycle, unitChanges, systemdErrors>>

\* The context is done, or D-Bus cannot be reached or fails to list.
GiveUp(r) ==
  /\ listing[r] # NotListing
  /\ \/ /\ Cancelled(r)
        /\ UNCHANGED systemdErrors
     \/ /\ ~ Updating(r)
        /\ systemdErrors < MaxSystemdErrors
        /\ systemdErrors' = systemdErrors + 1
  /\ listing' = [listing EXCEPT ![r] = NotListing]
  /\ UNCHANGED <<units, services, lifecycle, unitChanges>>

-----------------------------------------------------------------------------
(* The worker.                                                              *)

Turn(from, to) ==
  /\ lifecycle = from
  /\ lifecycle' = to
  /\ UNCHANGED <<units, services, listing, unitChanges, systemdErrors>>

StartManager == Turn("new", "priming")

\* Priming is over, whether it could refresh or not.
StartWorker == listing["worker"] = NotListing /\ Turn("priming", "running")

StopManager == Turn("running", "stopping")

\* wg.Wait.
WorkerJoined == listing["worker"] = NotListing /\ Turn("stopping", "stopped")

Refresh(r) == Connect(r) \/ ListUnits(r) \/ UpdateService(r) \/ RemoveStaleServices(r)

SystemdNext ==
  \/ UnitChanges \/ StartManager \/ StartWorker \/ StopManager \/ WorkerJoined
  \/ \E r \in Refreshers : Refresh(r) \/ SkipService(r) \/ GiveUp(r)

(***************************************************************************)
(* The worker comes back every 10 minutes, and a refresh that has begun    *)
(* goes on: D-Bus answers or the call fails.  Nobody has to request one.   *)
(***************************************************************************)
SystemdFairness ==
  /\ WF_systemdVars(StartWorker)
  /\ WF_systemdVars(Refresh("worker"))
  /\ \A r \in Requests : WF_systemdVars(listing[r] # NotListing /\ Refresh(r))

SystemdSpec == SystemdInit /\ [][SystemdNext]_systemdVars /\ SystemdFairness

-----------------------------------------------------------------------------
(* Properties.                                                              *)

(***************************************************************************)
(* When a unit changes no more, the map shows it as it is, for good:       *)
(* although a refresh with an old list may remove a service that another   *)
(* has just added, or store an old state, the worker repairs it.  (A unit  *)
(* that is loaded again and was never active keeps the entry it had.)      *)
(***************************************************************************)
ServicesConverge ==
  \A u \in Units :
    /\ <>[](lifecycle = "running" /\ units[u] # "never active")
    /\ <>[][units'[u] = units[u]]_units
    => <>[](services[u] = IF units[u] = "unloaded" THEN NoService ELSE units[u])

=============================================================================
