----------------------- MODULE SettingsReconciliation -----------------------
(***************************************************************************)
(* The life of one specification and of the settings made from it: users   *)
(* create and edit the object through the webhook, the controller creates  *)
(* the instance from the object in its cache, and later compares the two   *)
(* and updates the instance, while disks grow and people change settings   *)
(* by other means.  The control around these steps (finalizers, operations,*)
(* secrets, failures) is in PostgresqlInstanceController, where settings   *)
(* are opaque; here they are field by field.                               *)
(***************************************************************************)
EXTENDS InstanceSettings

CONSTANTS
  Values,     \* Values[part]: what users write in that part of a request
  MaxEdits,   \* edits by users
  MaxDrift    \* times that settings change by other means, or a disk grows

\* A manifest that asks for as little as the webhook admits.
Manifest(name) ==
  [allowDeletion |-> None, availability |-> None,
   backups |-> [enabled |-> None, startTime |-> None],
   flags |-> None, labels |-> None,
   location |-> [region |-> None, zone |-> None],
   maintenance |-> [day |-> None, hour |-> None],
   name |-> name,
   networking |-> [private |-> None, network |-> None, public |-> TRUE, authorized |-> None],
   resources |-> [max |-> None, min |-> None, disk |-> None, tier |-> None],
   version |-> None]

Parts == {"allowDeletion", "availability", "backups", "flags", "labels", "location",
          "maintenance", "name", "networking", "resources", "version"}

ASSUME ReconciliationAssumption ==
  /\ MaxEdits \in Nat /\ MaxDrift \in Nat
  /\ None \notin Specs /\ None \notin Settings

VARIABLES
  spec,      \* the specification in the Kubernetes API, or None
  cache,     \* the one in the informer's cache, or None
  instance,  \* the settings of the instance, or None
  worker,    \* None, or [p, read]: between reading the instance and updating it
  asked,     \* history: the size of the disk that was asked for last
  used       \* how much of each bound has been used

vars == <<spec, cache, instance, worker, asked, used>>

Init ==
  /\ spec = None /\ cache = None /\ instance = None /\ worker = None
  /\ asked = 0
  /\ used = [edits |-> 0, drift |-> 0]
-----------------------------------------------------------------------------
\* The API server decodes a request before the webhook sees it.
UserCreate(r) ==
  /\ spec = None /\ r \in Requests
  /\ Admits(r, None, FALSE)
  /\ spec' = Complete(r)
  /\ UNCHANGED <<cache, instance, worker, asked, used>>

UserEdit(r) ==
  /\ spec # None /\ used.edits < MaxEdits /\ r \in Requests
  /\ Admits(r, spec, instance # None)
  /\ spec' = Complete(r)
  /\ used' = [used EXCEPT !.edits = @ + 1]
  /\ UNCHANGED <<cache, instance, worker, asked>>

Deliver ==
  /\ cache # spec
  /\ cache' = spec
  /\ UNCHANGED <<spec, instance, worker, asked, used>>

\* createInstance
InsertInstance ==
  /\ cache # None /\ instance = None
  /\ instance' \in AfterInsert(Build(cache))
  /\ asked' = cache.resources.min
  /\ UNCHANGED <<spec, cache, worker, used>>

\* The instance is read some calls before it is compared and updated.
ReadInstance ==
  /\ cache # None /\ instance # None /\ worker = None
  /\ worker' = [p |-> cache, read |-> instance]
  /\ UNCHANGED <<spec, cache, instance, asked, used>>

\* maybeUpdateInstance finds no difference.
SkipUpdate ==
  /\ worker # None /\ ~MustUpdate(worker.p, worker.read)
  /\ worker' = None
  /\ UNCHANGED <<spec, cache, instance, asked, used>>

\* The update is refused when the settings changed since they were read (a
\* disk that grows does not count), or asks for what Cloud SQL does not do.
Outdated == [instance EXCEPT !.diskSize = worker.read.diskSize] # worker.read

UpdateInstance ==
  /\ worker # None /\ MustUpdate(worker.p, worker.read)
  /\ LET i == Adjust(worker.p, worker.read)
     IN IF Outdated \/ Refused(i, instance)
          THEN UNCHANGED <<instance, asked>>
          ELSE instance' \in AfterUpdate(i, instance) /\ asked' = i.diskSize
  /\ worker' = None
  /\ UNCHANGED <<spec, cache, used>>
-----------------------------------------------------------------------------
\* The disk fills up and grows, by one step that is large enough to matter.
Growth == 5

GrowDisk ==
  /\ instance # None /\ used.drift < MaxDrift
  /\ instance.autoResize
  /\ \/ instance.resizeLimit = 0
     \/ instance.diskSize + Growth <= instance.resizeLimit
  /\ instance' = [instance EXCEPT !.diskSize = @ + Growth]
  /\ used' = [used EXCEPT !.drift = @ + 1]
  /\ UNCHANGED <<spec, cache, worker, asked>>

\* Somebody changes settings by other means.
Drift ==
  /\ instance # None /\ used.drift < MaxDrift
  /\ \/ instance' = [instance EXCEPT !.ipv4 = ~@]
     \/ instance' = [instance EXCEPT !.backupEnabled = ~@]
     \/ instance' = [instance EXCEPT !.day = 6, !.hour = 23]
     \/ instance' = [instance EXCEPT !.labels = {}]
     \/ instance' = [instance EXCEPT !.autoResize = FALSE, !.resizeLimit = 0]
     \/ /\ instance.privateNetwork # ""
        /\ \E n \in Networks : instance' = [instance EXCEPT !.privateNetwork = n]
  /\ used' = [used EXCEPT !.drift = @ + 1]
  /\ UNCHANGED <<spec, cache, worker, asked>>

Next ==
  \/ \E part \in Parts : \E v \in Values[part] :
       \/ \E name \in InstanceNames : UserCreate([Manifest(name) EXCEPT ![part] = v])
       \/ spec # None /\ UserEdit([spec EXCEPT ![part] = v])
  \/ Deliver
  \/ InsertInstance \/ ReadInstance \/ SkipUpdate \/ UpdateInstance
  \/ GrowDisk \/ Drift

Spec == Init /\ [][Next]_vars
-----------------------------------------------------------------------------
(* Properties.                                                             *)

\* What is stored is complete: every field that buildDatabaseInstance
\* dereferences is there, and so it is in the cache and in the worker's hands.
TypeOK ==
  /\ spec \in Optional(Specs)
  /\ cache \in Optional(Specs)
  /\ instance \in Optional(Settings)
  /\ worker \in Optional([p : Specs, read : Settings])
  /\ asked \in Int
  /\ used \in [edits : 0..MaxEdits, drift : 0..MaxDrift]

\* The operator's own writes (finalizers, status) pass through the webhook as
\* updates that leave the specification alone.  They are admitted, and the
\* webhook adds nothing to them, whatever led to the stored specification:
\* otherwise no finalizer could be removed and the object could not go away.
OwnWritesPass ==
  spec # None => Admits(spec, spec, instance # None) /\ Complete(spec) = spec

\* No sequence of admitted edits makes the operator send an update that Cloud
\* SQL refuses, unless the disk has grown beyond what was asked for.  (An
\* update that is refused ends the process, see ConflictIsSurvived.)
UpdatesAreAccepted ==
  worker # None /\ MustUpdate(worker.p, worker.read) /\ ~Outdated =>
    \/ ~Refused(Adjust(worker.p, worker.read), instance)
    \/ instance.diskSize > asked

\* One accepted update is enough: when the instance is read again, whatever
\* Cloud SQL filled in, nothing is left to update.  Otherwise every sync would
\* update the instance, and none would get beyond it.
OneUpdateIsEnough ==
  worker # None =>
    \A i \in AfterUpdate(Adjust(worker.p, worker.read), worker.read) :
      ~MustUpdate(worker.p, i)

\* What docs/design/00-overview.adoc says of the fields, in terms of what the
\* instance offers.
Meets(s, i) ==
  /\ i.region = s.location.region
  /\ s.location.zone # "Any" => i.zone = s.location.zone
  /\ i.ipv4 <=> s.networking.public
  /\ i.privateNetwork # "" <=> s.networking.private
  /\ s.networking.private => i.privateNetwork = s.networking.network
  /\ i.authorized = s.networking.authorized
  /\ i.diskType = IF s.resources.disk = "HDD" THEN "PD_HDD" ELSE "PD_SSD"
  /\ i.diskSize >= s.resources.min
  /\ i.autoResize <=> s.resources.max # s.resources.min
  /\ i.autoResize => i.resizeLimit = s.resources.max
  /\ s.resources.max > 0 => i.diskSize <= s.resources.max
  /\ i.day = 0 <=> s.maintenance.day = "Any"
  /\ i.day # 0 => i.day = DayValue(s.maintenance.day) /\ i.hour = HourValue(s.maintenance.hour)
  /\ i.backupEnabled = s.backups.enabled /\ i.backupStartTime = s.backups.startTime
  /\ i.availability = AvailabilityValue(s.availability)
  /\ i.tier = s.resources.tier /\ i.labels = s.labels
  /\ Default(i.flags, {}) = s.flags

\* When the operator finds nothing to update, and sets the UpToDate condition,
\* the instance is what the specification asks for, also in the fields that
\* are never compared (the region, the type of the disk).
UpToDateIsTrue ==
  worker # None /\ ~MustUpdate(worker.p, worker.read) => Meets(worker.p, worker.read)

\* What docs/design/00-overview.adoc says of the minimum size: it "MAY NOT
\* represent the current storage capacity (but always represents a lower bound
\* on said value)".  So a disk that has grown within its limits is no reason
\* to update an instance.
GrownDiskIsLeftAlone ==
  worker # None /\ Meets(worker.p, worker.read) => ~MustUpdate(worker.p, worker.read)
=============================================================================
