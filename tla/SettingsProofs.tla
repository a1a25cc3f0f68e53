--------------------------- MODULE SettingsProofs ---------------------------
(***************************************************************************)
(* The properties of SettingsReconciliation hold for any names, regions,   *)
(* zones, flags, networks, sizes, ..., and any number of edits and of      *)
(* changes by other means.                                                 *)
(***************************************************************************)
EXTENDS SettingsReconciliation, TLAPS

\* What validation guarantees of a stored specification, beyond its type.
Valid(s) == ValidMaintenance(s) /\ ValidNetworking(s) /\ ValidResources(s)

\* What is left of a specification s in an instance that was made from s, or
\* from one that s follows, and that was given a disk of size d then.
Descends(s, i, d) ==
  /\ i.region = s.location.region
  /\ i.diskType = DiskTypeValue(s.resources.disk)
  /\ i.privateNetwork # "" => s.networking.private
  /\ d <= s.resources.min

\* The inductive invariant: the worker's specification precedes the cached
\* one, which precedes the stored one, and the instance comes from the first.
SettingsInv ==
  /\ TypeOK
  /\ spec # None => Valid(spec)
  /\ cache # None => /\ spec # None /\ Valid(cache) /\ Unchanged(spec, cache)
                     /\ instance # None => Descends(cache, instance, asked)
  /\ instance # None => cache # None
  /\ worker # None => /\ cache # None /\ instance # None
                      /\ Valid(worker.p) /\ Unchanged(cache, worker.p)
                      /\ Descends(worker.p, instance, asked)
                      /\ worker.read.region = worker.p.location.region
                      /\ worker.read.diskType = DiskTypeValue(worker.p.resources.disk)
-----------------------------------------------------------------------------
(* Admission.                                                              *)

\* What the sections are completed to.
LEMMA BackupsFit ==
  ASSUME NEW b \in [enabled : Optional(BOOLEAN), startTime : Optional(Hours \cup {"noon"})],
         CompleteBackups(b).startTime \in Hours
  PROVE  CompleteBackups(b) \in BackupsSpecs
<1>1. b.enabled \in {None} \cup BOOLEAN
  BY DEF Optional
<1>2. Default(b.enabled, TRUE) \in BOOLEAN
  BY <1>1, Zenon DEF Default
<1>3. Default(b.startTime, "00:00") \in Hours
  BY DEF CompleteBackups
<1> QED
  BY <1>2, <1>3, Zenon DEF CompleteBackups, BackupsSpecs

LEMMA NetworkingFits ==
  ASSUME NEW n \in [private : Optional(BOOLEAN), network : Optional(Networks \cup {""}),
                    public : Optional(BOOLEAN), authorized : Optional(SUBSET Cidrs)]
  PROVE  CompleteNetworking(n) \in NetworkingSpecs
<1>1. n.private \in {None} \cup BOOLEAN /\ n.public \in {None} \cup BOOLEAN
  BY DEF Optional
<1>2. Default(n.private, FALSE) \in BOOLEAN /\ Default(n.public, FALSE) \in BOOLEAN
  BY <1>1, Zenon DEF Default
<1>3. Default(n.network, "") \in Networks \cup {""}
  BY DEF Default, Optional
<1>4. Default(n.authorized, {}) \in SUBSET Cidrs
  BY DEF Default, Optional
<1> QED
  BY <1>2, <1>3, <1>4, Zenon DEF CompleteNetworking, NetworkingSpecs

LEMMA ResourcesFit ==
  ASSUME NEW r \in [max : Optional(Sizes), min : Optional(Sizes),
                    disk : Optional({"SSD", "HDD", "tape"}), tier : Optional(Tiers)],
         CompleteResources(r).disk \in {"SSD", "HDD"}
  PROVE  CompleteResources(r) \in ResourcesSpecs
<1>1. Default(r.max, 0) \in Sizes /\ Default(r.min, 10) \in Sizes
  BY AdmissionAssumption DEF Default, Optional
<1>2. Default(r.tier, "db-custom-1-3840") \in Tiers
  BY AdmissionAssumption DEF Default, Optional
<1>3. Default(r.disk, "SSD") \in {"SSD", "HDD"}
  BY DEF CompleteResources
<1> QED
  BY <1>1, <1>2, <1>3, Zenon DEF CompleteResources, ResourcesSpecs

\* A request that is admitted is stored complete and valid.
LEMMA AdmittedIsComplete ==
  ASSUME NEW r \in Requests, NEW old, NEW taken, Admits(r, old, taken)
  PROVE  Complete(r) \in Specs /\ Valid(Complete(r))
<1> DEFINE s == Complete(r)
<1>1. CompleteAnnotation(r.allowDeletion) \in {"true", "false"}
  BY DEF CompleteAnnotation, Requests, Optional
<1>2. Default(r.availability, "Zonal") \in {"Zonal", "Regional"}
  BY DEF Admits, ValidAvailability, Complete
<1>3. CompleteBackups(r.backups) \in BackupsSpecs
  <2>1. CompleteBackups(r.backups).startTime \in Hours
    BY DEF Admits, ValidBackups, Complete
  <2> QED
    BY <2>1, BackupsFit DEF Requests
<1>4. Default(r.flags, {}) \in SUBSET Flags
  BY DEF Admits, ValidFlags, Complete
<1>5. CompleteLabels(r.labels) \in LabelsSpecs
  <2>1. r.labels = None \/ r.labels \subseteq Labels \cup {Owner, OtherOwner}
    BY DEF Requests, Optional
  <2> QED
    BY <2>1 DEF CompleteLabels, Default, LabelsSpecs
<1>6. CompleteLocation(r.location) \in LocationSpecs
  <2>1. r.location \in [region : Optional(Regions), zone : Optional(Zones \cup {"Any"})]
    BY DEF Requests
  <2> QED
    BY <2>1, AdmissionAssumption DEF CompleteLocation, Default, Optional, LocationSpecs
<1>7. CompleteMaintenance(r.maintenance) \in MaintenanceSpecs
  BY DEF Admits, ValidMaintenance, Complete, CompleteMaintenance, MaintenanceSpecs
<1>8. r.name \in InstanceNames
  BY DEF Admits, ValidName, Complete
<1>9. CompleteNetworking(r.networking) \in NetworkingSpecs
  BY NetworkingFits DEF Requests
<1>10. CompleteResources(r.resources) \in ResourcesSpecs
  <2>1. CompleteResources(r.resources).disk \in {"SSD", "HDD"}
    BY DEF Admits, ValidResources, Complete
  <2> QED
    BY <2>1, ResourcesFit DEF Requests
<1>11. Default(r.version, "9.6") \in {"9.6"}
  BY DEF Admits, ValidVersion, Complete
<1>12. s \in Specs
  BY <1>1, <1>2, <1>3, <1>4, <1>5, <1>6, <1>7, <1>8, <1>9, <1>10, <1>11 DEF Complete, Specs
<1> QED
  BY <1>12 DEF Admits, Valid

\* Completing a specification a second time changes nothing.
LEMMA CompletionIsIdempotent ==
  ASSUME NEW s \in Specs
  PROVE  Complete(s) = s
<1> USE AdmissionAssumption
<1>1. CompleteAnnotation(s.allowDeletion) = s.allowDeletion
  BY DEF CompleteAnnotation, Specs
<1>2. Default(s.availability, "Zonal") = s.availability /\ Default(s.version, "9.6") = s.version
  BY DEF Default, Specs
<1>3. CompleteBackups(s.backups) = s.backups
  <2>1. s.backups \in BackupsSpecs
    BY DEF Specs
  <2> QED
    BY <2>1 DEF CompleteBackups, Default, BackupsSpecs
<1>4. Default(s.flags, {}) = s.flags
  <2>1. s.flags \in SUBSET (Flags \cup {"malformed"})
    BY DEF Specs
  <2> QED
    BY <2>1 DEF Default
<1>5. CompleteLabels(s.labels) = s.labels
  <2>1. s.labels \in SUBSET (Labels \cup {Owner}) /\ Owner \in s.labels
    BY DEF Specs, LabelsSpecs
  <2>2. s.labels # None
    BY <2>1 DEF Owner
  <2> QED
    BY <2>1, <2>2 DEF CompleteLabels, Default, Owner, OtherOwner
<1>6. CompleteLocation(s.location) = s.location
  <2>1. s.location \in LocationSpecs
    BY DEF Specs
  <2> QED
    BY <2>1 DEF CompleteLocation, Default, LocationSpecs
<1>7. CompleteMaintenance(s.maintenance) = s.maintenance
  <2>1. s.maintenance \in MaintenanceSpecs
    BY DEF Specs
  <2>2. None \notin Weekdays
    BY DEF Weekdays
  <2> QED
    BY <2>1, <2>2 DEF CompleteMaintenance, Default, MaintenanceSpecs
<1>8. CompleteNetworking(s.networking) = s.networking
  <2>1. s.networking \in NetworkingSpecs
    BY DEF Specs
  <2> QED
    BY <2>1 DEF CompleteNetworking, Default, NetworkingSpecs
<1>9. CompleteResources(s.resources) = s.resources
  <2>1. s.resources \in ResourcesSpecs
    BY DEF Specs
  <2> QED
    BY <2>1 DEF CompleteResources, Default, ResourcesSpecs
<1> QED
  BY <1>1, <1>2, <1>3, <1>4, <1>5, <1>6, <1>7, <1>8, <1>9 DEF Complete, Specs

\* A stored specification is admitted as an update of itself.
LEMMA OwnWriteIsAdmitted ==
  ASSUME NEW s \in Specs, s # None, Valid(s), NEW taken
  PROVE  Admits(s, s, taken)
<1>1. Complete(s) = s
  BY CompletionIsIdempotent
<1>2. ValidAvailability(s) /\ ValidBackups(s) /\ ValidFlags(s) /\ ValidName(s) /\ ValidVersion(s)
  BY DEF ValidAvailability, ValidBackups, ValidFlags, ValidName, ValidVersion, Specs, BackupsSpecs
<1>3. s.version # None
  BY AdmissionAssumption DEF Specs
<1>4. Unchanged(s, s)
  <2>1. s.resources.min \in Int
    BY AdmissionAssumption DEF Specs, ResourcesSpecs
  <2>2. s.resources.min >= s.resources.min
    BY <2>1
  <2> QED
    BY <2>2, Zenon DEF Unchanged
<1>5. NameAvailable(s, taken)
  BY DEF NameAvailable
<1> QED
  BY <1>1, <1>2, <1>3, <1>4, <1>5 DEF Admits, Valid
-----------------------------------------------------------------------------
(* Settings.                                                               *)

\* A request may leave the zone to Cloud SQL.
Requested ==
  [region : Regions, availability : {"REGIONAL", "ZONAL"},
   backupEnabled : BOOLEAN, backupStartTime : Hours,
   flags : Optional(SUBSET Flags), diskSize : Int, diskType : {"PD_HDD", "PD_SSD"},
   authorized : SUBSET Cidrs, ipv4 : BOOLEAN, privateNetwork : Networks \cup {""},
   zone : Zones \cup {""}, day : 0..7, hour : 0..23,
   autoResize : BOOLEAN, resizeLimit : Int, tier : Tiers,
   labels : SUBSET (Labels \cup {Owner})]

LEMMA DaysAndHours ==
  ASSUME NEW d, NEW h
  PROVE  DayValue(d) \in 1..7 /\ HourValue(h) \in 0..23
  BY DEF DayValue, HourValue

LEMMA BuildFits ==
  ASSUME NEW s \in Specs
  PROVE  Build(s) \in Requested
<1>1. s.location.region \in Regions /\ ZoneValue(s.location.zone) \in Zones \cup {""}
  BY DEF Specs, LocationSpecs, ZoneValue
<1>2. AvailabilityValue(s.availability) \in {"REGIONAL", "ZONAL"}
  BY DEF AvailabilityValue
<1>3. s.backups.enabled \in BOOLEAN /\ s.backups.startTime \in Hours
  BY DEF Specs, BackupsSpecs
<1>4. /\ FlagsValue(s.flags) \in Optional(SUBSET Flags)
      /\ s.labels \in SUBSET (Labels \cup {Owner})
  BY DEF Specs, LabelsSpecs, FlagsValue, Optional
<1>5. /\ s.resources.min \in Int /\ s.resources.tier \in Tiers
      /\ DiskTypeValue(s.resources.disk) \in {"PD_HDD", "PD_SSD"}
      /\ (IF AutoResizes(s) THEN s.resources.max ELSE 0) \in Int
  BY AdmissionAssumption DEF Specs, ResourcesSpecs, DiskTypeValue
<1>6. AutoResizes(s) \in BOOLEAN
  BY DEF AutoResizes
<1>7. s.networking \in NetworkingSpecs
  BY DEF Specs
<1>8. /\ s.networking.authorized \in SUBSET Cidrs /\ s.networking.public \in BOOLEAN
      /\ (IF s.networking.private THEN s.networking.network ELSE "") \in Networks \cup {""}
  BY <1>7 DEF NetworkingSpecs
<1>9. /\ (IF s.maintenance.day = "Any" THEN 0 ELSE DayValue(s.maintenance.day)) \in 0..7
      /\ (IF s.maintenance.day = "Any" THEN 0 ELSE HourValue(s.maintenance.hour)) \in 0..23
  BY DaysAndHours
<1> QED
  BY <1>1, <1>2, <1>3, <1>4, <1>5, <1>6, <1>8, <1>9, Zenon DEF Build, Requested

\* Only the zone can differ from what was requested, and that if it was left
\* to Cloud SQL.
LEMMA OutcomeIsRequested ==
  ASSUME NEW i \in Requested, NEW held, NEW o \in Outcome(i, held)
  PROVE  /\ o = [i EXCEPT !.zone = o.zone]
         /\ o.zone \in IF i.zone = "" THEN Zones ELSE {i.zone}
<1>1. \A f \in {"backupEnabled", "ipv4", "privateNetwork", "hour", "resizeLimit"} :
        Choices(f, i, held) = {i[f]}
  BY DEF Choices, Omitted, Forced
<1>2. Choices("zone", i, held) = IF i.zone = "" THEN Zones ELSE {i.zone}
  <2>1. "zone" \in MayBeZero \ Forced
    BY DEF MayBeZero, Forced
  <2>2. Zero("zone") = ""
    BY DEF Zero
  <2>3. "zone" \in Omitted(i) <=> i.zone = ""
    BY <2>1, <2>2 DEF Omitted
  <2>4. FilledIn("zone", held["zone"]) = Zones
    BY DEF FilledIn
  <2> QED
    BY <2>3, <2>4 DEF Choices
<1> DEFINE C(f) == Choices(f, i, held)
<1> HIDE DEF C
<1>3. PICK c \in [backupEnabled : C("backupEnabled"), ipv4 : C("ipv4"),
                 privateNetwork : C("privateNetwork"), zone : C("zone"),
                 hour : C("hour"), resizeLimit : C("resizeLimit")] :
        o = [i EXCEPT !.backupEnabled = c.backupEnabled, !.ipv4 = c.ipv4,
                      !.privateNetwork = c.privateNetwork, !.zone = c.zone,
                      !.hour = c.hour, !.resizeLimit = c.resizeLimit]
  BY DEF Outcome, C
<1>4. /\ c.backupEnabled = i.backupEnabled /\ c.ipv4 = i.ipv4
      /\ c.privateNetwork = i.privateNetwork
      /\ c.hour = i.hour /\ c.resizeLimit = i.resizeLimit
  BY <1>1 DEF C
<1>5. o = [i EXCEPT !.zone = c.zone]
  BY <1>3, <1>4 DEF Requested
<1>6. o.zone = c.zone /\ c.zone \in C("zone")
  BY <1>5 DEF Requested
<1> QED
  BY <1>2, <1>5, <1>6, AdmissionAssumption DEF C

\* The settings of a new instance.
LEMMA InsertedSettings ==
  ASSUME NEW s \in Specs, NEW o \in AfterInsert(Build(s))
  PROVE  /\ o \in Settings
         /\ o.region = s.location.region
         /\ o.diskType = DiskTypeValue(s.resources.disk)
         /\ o.diskSize = s.resources.min
         /\ o.privateNetwork # "" => s.networking.private
<1>1. Build(s) \in Requested
  BY BuildFits
<1>2. o = [Build(s) EXCEPT !.zone = o.zone] /\ o.zone \in Zones
  <2>1. o \in Outcome(Build(s), [f \in MayBeZero |-> {}])
    BY DEF AfterInsert
  <2>2. Build(s).zone \in Zones \cup {""}
    BY <1>1 DEF Requested
  <2> QED
    BY <1>1, <2>1, <2>2, OutcomeIsRequested
<1>3. o \in Settings
  BY <1>1, <1>2 DEF Requested, Settings
<1>4. /\ o.region = Build(s).region /\ o.diskType = Build(s).diskType
      /\ o.diskSize = Build(s).diskSize /\ o.privateNetwork = Build(s).privateNetwork
  BY <1>1, <1>2 DEF Requested
<1>5. Build(s).privateNetwork # "" => s.networking.private
  BY DEF Build
<1>6. /\ Build(s).region = s.location.region
      /\ Build(s).diskType = DiskTypeValue(s.resources.disk)
      /\ Build(s).diskSize = s.resources.min
  BY DEF Build
<1> QED
  BY <1>3, <1>4, <1>5, <1>6

\* The settings that an update asks for.
LEMMA AdjustFits ==
  ASSUME NEW s \in Specs, NEW i \in Settings
  PROVE  /\ Adjust(s, i) \in Settings
         /\ Adjust(s, Adjust(s, i)) = Adjust(s, i)
<1>1. Build(s) \in Requested
  BY BuildFits
<1>2. (IF s.location.zone = "Any" THEN i.zone ELSE Build(s).zone) \in Zones
  BY DEF Specs, LocationSpecs, Build, ZoneValue, Settings
<1>3. Adjust(s, i) \in Settings
  BY <1>1, <1>2, Zenon DEF Adjust, Requested, Settings
<1>4. /\ Adjust(s, i).region = i.region /\ Adjust(s, i).diskType = i.diskType
      /\ s.location.zone = "Any" => Adjust(s, i).zone = i.zone
  BY <1>1 DEF Adjust, Requested
<1>5. Adjust(s, Adjust(s, i)) = Adjust(s, i)
  BY <1>1, <1>4 DEF Adjust, Requested
<1> QED
  BY <1>3, <1>5

\* An update that is accepted leads to exactly the settings it asks for.
LEMMA UpdateIsExact ==
  ASSUME NEW i \in Settings, NEW now, NEW o \in AfterUpdate(i, now)
  PROVE  o = i
<1>1. i \in Requested /\ i.zone \in Zones
  BY DEF Settings, Requested
<1>2. o = [i EXCEPT !.zone = i.zone]
  BY <1>1, OutcomeIsRequested, AdmissionAssumption DEF AfterUpdate
<1> QED
  BY <1>1, <1>2 DEF Requested
-----------------------------------------------------------------------------
(* What an edit leaves unchanged stays so over any number of edits.        *)

LEMMA UnchangedIsTransitive ==
  ASSUME NEW a \in Specs, NEW b \in Specs, NEW c \in Specs,
         Unchanged(a, b), Unchanged(b, c)
  PROVE  Unchanged(a, c)
<1>1. a.resources.min \in Int /\ b.resources.min \in Int /\ c.resources.min \in Int
  BY AdmissionAssumption DEF Specs, ResourcesSpecs
<1>2. a.resources.min >= b.resources.min /\ b.resources.min >= c.resources.min
  BY DEF Unchanged
<1>3. a.resources.min >= c.resources.min
  BY <1>1, <1>2
<1> QED
  BY <1>3, Zenon DEF Unchanged

LEMMA DescendsFollows ==
  ASSUME NEW a \in Specs, NEW b \in Specs, NEW i, NEW d \in Int,
         Unchanged(a, b), Descends(b, i, d)
  PROVE  Descends(a, i, d)
<1>1. a.resources.min \in Int /\ b.resources.min \in Int
  BY AdmissionAssumption DEF Specs, ResourcesSpecs
<1>2. a.resources.min >= b.resources.min /\ d <= b.resources.min
  BY Zenon DEF Unchanged, Descends
<1>3. d <= a.resources.min
  BY <1>1, <1>2
<1> QED
  BY <1>3, Zenon DEF Unchanged, Descends
-----------------------------------------------------------------------------
(* The invariant is inductive.                                             *)

LEMMA InitSettingsInv == Init => SettingsInv
<1> SUFFICES ASSUME Init PROVE SettingsInv
  OBVIOUS
<1>1. TypeOK
  BY ReconciliationAssumption DEF Init, TypeOK, Optional
<1> QED
  BY <1>1 DEF Init, SettingsInv

LEMMA UserCreateSettingsInv ==
  ASSUME SettingsInv, NEW r, UserCreate(r)
  PROVE  SettingsInv'
<1> USE DEF UserCreate
<1>1. Complete(r) \in Specs /\ Valid(Complete(r))
  BY AdmittedIsComplete
<1>2. cache = None /\ instance = None /\ worker = None
  BY DEF SettingsInv
<1>3. TypeOK'
  BY <1>1 DEF SettingsInv, TypeOK, Optional
<1> QED
  BY <1>1, <1>2, <1>3 DEF SettingsInv

LEMMA UserEditSettingsInv ==
  ASSUME SettingsInv, NEW r, UserEdit(r)
  PROVE  SettingsInv'
<1> USE DEF UserEdit
<1>1. Complete(r) \in Specs /\ Valid(Complete(r))
  BY AdmittedIsComplete
<1>2. Unchanged(Complete(r), spec)
  BY DEF Admits
<1>3. TypeOK'
  BY <1>1, ReconciliationAssumption DEF SettingsInv, TypeOK, Optional
<1>4. spec' # None /\ Valid(spec')
  BY <1>1, ReconciliationAssumption
<1>5. ASSUME cache' # None
      PROVE  /\ Valid(cache') /\ Unchanged(spec', cache')
             /\ instance' # None => Descends(cache', instance', asked')
  <2>1. cache \in Specs /\ spec \in Specs
    BY <1>5 DEF SettingsInv, TypeOK, Optional
  <2>2. Valid(cache) /\ Unchanged(spec, cache)
        /\ (instance # None => Descends(cache, instance, asked))
    BY <1>5 DEF SettingsInv
  <2>3. Unchanged(spec', cache)
    BY <1>1, <1>2, <2>1, <2>2, UnchangedIsTransitive
  <2> QED
    BY <2>2, <2>3
<1>6. worker # None => /\ cache # None /\ instance # None
                       /\ Valid(worker.p) /\ Unchanged(cache, worker.p)
                       /\ Descends(worker.p, instance, asked)
                       /\ worker.read.region = worker.p.location.region
                       /\ worker.read.diskType = DiskTypeValue(worker.p.resources.disk)
  BY DEF SettingsInv
<1>7. instance # None => cache # None
  BY DEF SettingsInv
<1> QED
  BY <1>3, <1>4, <1>5, <1>6, <1>7 DEF SettingsInv

LEMMA DeliverSettingsInv ==
  ASSUME SettingsInv, Deliver
  PROVE  SettingsInv'
<1> USE DEF Deliver
<1>1. TypeOK'
  BY DEF SettingsInv, TypeOK
<1>2. spec # None /\ spec \in Specs /\ Valid(spec)
  BY DEF SettingsInv, TypeOK, Optional
<1>3. Unchanged(spec, spec)
  <2>1. spec.resources.min \in Int
    BY <1>2, AdmissionAssumption DEF Specs, ResourcesSpecs
  <2>2. spec.resources.min >= spec.resources.min
    BY <2>1
  <2> QED
    BY <2>2, Zenon DEF Unchanged
<1>4. ASSUME instance # None
      PROVE  Descends(spec, instance, asked)
  <2>1. cache \in Specs /\ asked \in Int
    BY <1>4 DEF SettingsInv, TypeOK, Optional
  <2>2. Unchanged(spec, cache) /\ Descends(cache, instance, asked)
    BY <1>4 DEF SettingsInv
  <2> QED
    BY <1>2, <2>1, <2>2, DescendsFollows
<1>5. ASSUME worker # None
      PROVE  /\ instance # None
             /\ Valid(worker.p) /\ Unchanged(spec, worker.p)
             /\ Descends(worker.p, instance, asked)
             /\ worker.read.region = worker.p.location.region
             /\ worker.read.diskType = DiskTypeValue(worker.p.resources.disk)
  <2>1. cache \in Specs /\ worker.p \in Specs
    BY <1>5 DEF SettingsInv, TypeOK, Optional
  <2>2. Unchanged(spec, cache) /\ Unchanged(cache, worker.p)
    BY <1>5 DEF SettingsInv
  <2>3. Unchanged(spec, worker.p)
    BY <1>2, <2>1, <2>2, UnchangedIsTransitive
  <2> QED
    BY <1>5, <2>3 DEF SettingsInv
<1> QED
  BY <1>1, <1>2, <1>3, <1>4, <1>5 DEF SettingsInv

LEMMA InsertInstanceSettingsInv ==
  ASSUME SettingsInv, InsertInstance
  PROVE  SettingsInv'
<1> USE DEF InsertInstance
<1>1. cache \in Specs
  BY DEF SettingsInv, TypeOK, Optional
<1>2. /\ instance' \in Settings
      /\ instance'.region = cache.location.region
      /\ instance'.diskType = DiskTypeValue(cache.resources.disk)
      /\ instance'.privateNetwork # "" => cache.networking.private
  BY <1>1, InsertedSettings
<1>3. asked' \in Int /\ asked' <= cache.resources.min
  <2>1. cache.resources.min \in Int
    BY <1>1, AdmissionAssumption DEF Specs, ResourcesSpecs
  <2> QED
    BY <2>1
<1>4. TypeOK'
  BY <1>2, <1>3 DEF SettingsInv, TypeOK, Optional
<1>5. Descends(cache, instance', asked')
  BY <1>2, <1>3, Zenon DEF Descends
<1>6. worker = None
  BY DEF SettingsInv
<1> QED
  BY <1>4, <1>5, <1>6 DEF SettingsInv

LEMMA ReadInstanceSettingsInv ==
  ASSUME SettingsInv, ReadInstance
  PROVE  SettingsInv'
<1> USE DEF ReadInstance
<1>1. cache \in Specs /\ instance \in Settings
  BY DEF SettingsInv, TypeOK, Optional
<1>2. TypeOK'
  BY <1>1 DEF SettingsInv, TypeOK, Optional
<1>3. Valid(cache) /\ Descends(cache, instance, asked)
  BY DEF SettingsInv
<1>4. Unchanged(cache, cache)
  <2>1. cache.resources.min \in Int
    BY <1>1, AdmissionAssumption DEF Specs, ResourcesSpecs
  <2>2. cache.resources.min >= cache.resources.min
    BY <2>1
  <2> QED
    BY <2>2, Zenon DEF Unchanged
<1>5. /\ instance.region = cache.location.region
      /\ instance.diskType = DiskTypeValue(cache.resources.disk)
  BY <1>3, Zenon DEF Descends
<1>6. worker'.p = cache /\ worker'.read = instance
  OBVIOUS
<1> QED
  BY <1>2, <1>3, <1>4, <1>5, <1>6 DEF SettingsInv

LEMMA SkipUpdateSettingsInv ==
  ASSUME SettingsInv, SkipUpdate
  PROVE  SettingsInv'
BY DEF SettingsInv, SkipUpdate, TypeOK, Optional

LEMMA UpdateInstanceSettingsInv ==
  ASSUME SettingsInv, UpdateInstance
  PROVE  SettingsInv'
<1> DEFINE p == worker.p
           i == Adjust(worker.p, worker.read)
<1>1. /\ p \in Specs /\ worker.read \in Settings
      /\ cache \in Specs /\ instance \in Settings /\ asked \in Int
  BY DEF SettingsInv, TypeOK, Optional, UpdateInstance
<1>2. /\ cache # None /\ instance # None /\ spec # None /\ Valid(cache)
      /\ Unchanged(spec, cache) /\ Unchanged(cache, p)
      /\ worker.read.region = p.location.region
      /\ worker.read.diskType = DiskTypeValue(p.resources.disk)
  BY DEF SettingsInv, UpdateInstance
<1>3. worker' = None /\ UNCHANGED <<spec, cache, used>>
  BY DEF UpdateInstance
<1>4. CASE UNCHANGED <<instance, asked>>
  BY <1>3, <1>4 DEF SettingsInv, TypeOK, Optional
<1>5. CASE instance' \in AfterUpdate(i, instance) /\ asked' = i.diskSize
  <2>1. i \in Settings
    BY <1>1, AdjustFits
  <2>2. instance' = i
    BY <1>5, <2>1, UpdateIsExact
  <2>3. /\ i.region = p.location.region /\ i.diskType = DiskTypeValue(p.resources.disk)
        /\ i.diskSize = p.resources.min
        /\ i.privateNetwork # "" => p.networking.private
    BY <1>2 DEF Adjust, Build
  <2>4. asked' \in Int /\ asked' <= p.resources.min
    <3>1. p.resources.min \in Int
      BY <1>1, AdmissionAssumption DEF Specs, ResourcesSpecs
    <3>2. asked' = p.resources.min
      BY <1>5, <2>3
    <3> QED
      BY <3>1, <3>2
  <2>5. Descends(p, instance', asked')
    BY <2>2, <2>3, <2>4, Zenon DEF Descends
  <2>6. Descends(cache, instance', asked')
    BY <1>1, <1>2, <2>4, <2>5, DescendsFollows
  <2>7. TypeOK'
    BY <1>3, <2>1, <2>2, <2>4 DEF SettingsInv, TypeOK, Optional
  <2> QED
    BY <1>2, <1>3, <2>6, <2>7 DEF SettingsInv
<1> QED
  BY <1>4, <1>5 DEF UpdateInstance

\* What happens to the instance by other means keeps what the operator does
\* not look at, and gives it no private address.
LEMMA InstanceChangeSettingsInv ==
  ASSUME SettingsInv, instance # None,
         UNCHANGED <<spec, cache, worker, asked>>,
         used' \in [edits : 0..MaxEdits, drift : 0..MaxDrift],
         instance' \in Settings,
         instance'.region = instance.region, instance'.diskType = instance.diskType,
         instance'.privateNetwork # "" => instance.privateNetwork # ""
  PROVE  SettingsInv'
<1>1. TypeOK'
  BY DEF SettingsInv, TypeOK, Optional
<1>2. ASSUME NEW s, Descends(s, instance, asked)
      PROVE  Descends(s, instance', asked')
  BY <1>2 DEF Descends
<1>3. worker # None => Descends(worker.p, instance', asked')
  BY <1>2 DEF SettingsInv
<1>4. cache # None /\ Descends(cache, instance', asked')
  BY <1>2 DEF SettingsInv
<1>5. /\ spec # None /\ Valid(spec) /\ Valid(cache) /\ Unchanged(spec, cache)
      /\ worker # None => /\ Valid(worker.p) /\ Unchanged(cache, worker.p)
                          /\ worker.read.region = worker.p.location.region
                          /\ worker.read.diskType = DiskTypeValue(worker.p.resources.disk)
  BY <1>4 DEF SettingsInv
<1>6. instance' # None
  BY ReconciliationAssumption
<1>7. spec' = spec /\ cache' = cache /\ worker' = worker
  OBVIOUS
<1> QED
  BY <1>1, <1>3, <1>4, <1>5, <1>6, <1>7, Zenon DEF SettingsInv

LEMMA DriftIsCounted ==
  ASSUME used \in [edits : 0..MaxEdits, drift : 0..MaxDrift], used.drift < MaxDrift,
         used' = [used EXCEPT !.drift = @ + 1]
  PROVE  used' \in [edits : 0..MaxEdits, drift : 0..MaxDrift]
<1>1. used.drift + 1 \in 0..MaxDrift
  BY ReconciliationAssumption
<1> QED
  BY <1>1

LEMMA GrowDiskSettingsInv ==
  ASSUME SettingsInv, GrowDisk
  PROVE  SettingsInv'
<1> USE DEF GrowDisk
<1>1. instance \in Settings /\ used \in [edits : 0..MaxEdits, drift : 0..MaxDrift]
  BY DEF SettingsInv, TypeOK, Optional
<1>2. used' \in [edits : 0..MaxEdits, drift : 0..MaxDrift]
  BY <1>1, DriftIsCounted
<1>3. instance.diskSize + Growth \in Int
  <2>1. instance.diskSize \in Int
    BY <1>1 DEF Settings
  <2> QED
    BY <2>1 DEF Growth
<1>4. PICK d \in Int : instance' = [instance EXCEPT !.diskSize = d]
  BY <1>3
<1>5. /\ instance' \in Settings
      /\ instance'.region = instance.region /\ instance'.diskType = instance.diskType
      /\ instance'.privateNetwork = instance.privateNetwork
  BY <1>1, <1>4 DEF Settings
<1> QED
  BY <1>2, <1>5, InstanceChangeSettingsInv

LEMMA DriftSettingsInv ==
  ASSUME SettingsInv, Drift
  PROVE  SettingsInv'
<1>1. instance \in Settings /\ used \in [edits : 0..MaxEdits, drift : 0..MaxDrift]
  BY DEF SettingsInv, TypeOK, Optional, Drift
<1>2. used' \in [edits : 0..MaxEdits, drift : 0..MaxDrift]
  <2>1. used.drift < MaxDrift /\ used' = [used EXCEPT !.drift = @ + 1]
    BY DEF Drift
  <2> QED
    BY <1>1, <2>1, DriftIsCounted
<1> DEFINE Kept == /\ instance' \in Settings
                   /\ instance'.region = instance.region
                   /\ instance'.diskType = instance.diskType
                   /\ instance'.privateNetwork # "" => instance.privateNetwork # ""
<1>3. ASSUME NEW b \in BOOLEAN, instance' = [instance EXCEPT !.ipv4 = b]
      PROVE  Kept
  BY <1>1, <1>3 DEF Settings
<1>4. ASSUME NEW b \in BOOLEAN, instance' = [instance EXCEPT !.backupEnabled = b]
      PROVE  Kept
  BY <1>1, <1>4 DEF Settings
<1>5. ASSUME NEW d \in 0..7, NEW h \in 0..23,
             instance' = [instance EXCEPT !.day = d, !.hour = h]
      PROVE  Kept
  BY <1>1, <1>5 DEF Settings
<1>6. ASSUME instance' = [instance EXCEPT !.labels = {}]
      PROVE  Kept
  BY <1>1, <1>6 DEF Settings
<1>7. ASSUME NEW b \in BOOLEAN, NEW l \in Int,
             instance' = [instance EXCEPT !.autoResize = b, !.resizeLimit = l]
      PROVE  Kept
  BY <1>1, <1>7 DEF Settings
<1>8. ASSUME instance.privateNetwork # "",
             NEW n \in Networks, instance' = [instance EXCEPT !.privateNetwork = n]
      PROVE  Kept
  BY <1>1, <1>8 DEF Settings
<1>9. /\ (~instance.ipv4) \in BOOLEAN
      /\ (~instance.backupEnabled) \in BOOLEAN
      /\ 6 \in 0..7 /\ 23 \in 0..23 /\ FALSE \in BOOLEAN /\ 0 \in Int
  OBVIOUS
<1> HIDE DEF Kept
<1>10. Kept
  <2>1. CASE instance' = [instance EXCEPT !.ipv4 = ~@]
    BY <1>3, <1>9, <2>1, Zenon
  <2>2. CASE instance' = [instance EXCEPT !.backupEnabled = ~@]
    BY <1>4, <1>9, <2>2, Zenon
  <2>3. CASE instance' = [instance EXCEPT !.day = 6, !.hour = 23]
    BY <1>5, <1>9, <2>3, Zenon
  <2>4. CASE instance' = [instance EXCEPT !.labels = {}]
    BY <1>6, <2>4
  <2>5. CASE instance' = [instance EXCEPT !.autoResize = FALSE, !.resizeLimit = 0]
    BY <1>7, <1>9, <2>5, Zenon
  <2>6. CASE /\ instance.privateNetwork # ""
             /\ \E n \in Networks : instance' = [instance EXCEPT !.privateNetwork = n]
    BY <1>8, <2>6
  <2> QED
    BY <2>1, <2>2, <2>3, <2>4, <2>5, <2>6, Zenon DEF Drift
<1> USE DEF Kept
<1> QED
  BY <1>2, <1>10, InstanceChangeSettingsInv DEF Drift
-----------------------------------------------------------------------------
\* The invariant holds.
THEOREM SettingsInvHolds == Spec => []SettingsInv
<1>1. Init => SettingsInv
  BY InitSettingsInv
<1>2. SettingsInv /\ [Next]_vars => SettingsInv'
  <2> SUFFICES ASSUME SettingsInv, [Next]_vars PROVE SettingsInv'
    OBVIOUS
  <2>1. ASSUME NEW r, UserCreate(r) PROVE SettingsInv'
    BY <2>1, UserCreateSettingsInv
  <2>2. ASSUME NEW r, UserEdit(r) PROVE SettingsInv'
    BY <2>2, UserEditSettingsInv
  <2>3. CASE Deliver
    BY <2>3, DeliverSettingsInv
  <2>4. CASE InsertInstance
    BY <2>4, InsertInstanceSettingsInv
  <2>5. CASE ReadInstance
    BY <2>5, ReadInstanceSettingsInv
  <2>6. CASE SkipUpdate
    BY <2>6, SkipUpdateSettingsInv
  <2>7. CASE UpdateInstance
    BY <2>7, UpdateInstanceSettingsInv
  <2>8. CASE GrowDisk
    BY <2>8, GrowDiskSettingsInv
  <2>9. CASE Drift
    BY <2>9, DriftSettingsInv
  <2>10. CASE UNCHANGED vars
    BY <2>10 DEF SettingsInv, TypeOK, Descends, Optional, vars
  <2> QED
    BY <2>1, <2>2, <2>3, <2>4, <2>5, <2>6, <2>7, <2>8, <2>9, <2>10 DEF Next
<1> QED
  BY <1>1, <1>2, PTL DEF Spec

\* Whatever the users write, the controller finds every field it dereferences.
THEOREM TypeIsCorrect == Spec => []TypeOK
<1>1. SettingsInv => TypeOK
  BY DEF SettingsInv
<1> QED
  BY <1>1, SettingsInvHolds, PTL

\* The operator's own writes are admitted and left as they are.
THEOREM OwnWritesAlwaysPass == Spec => []OwnWritesPass
<1>1. SettingsInv => OwnWritesPass
  <2> SUFFICES ASSUME SettingsInv, spec # None
               PROVE  Admits(spec, spec, instance # None) /\ Complete(spec) = spec
    BY DEF OwnWritesPass
  <2>1. spec \in Specs /\ Valid(spec)
    BY DEF SettingsInv, TypeOK, Optional
  <2> QED
    BY <2>1, OwnWriteIsAdmitted, CompletionIsIdempotent
<1> QED
  BY <1>1, SettingsInvHolds, PTL

\* No update is refused because of what the users asked for.
THEOREM UpdatesAreAlwaysAccepted == Spec => []UpdatesAreAccepted
<1>1. SettingsInv => UpdatesAreAccepted
  <2> DEFINE p == worker.p
             i == Adjust(worker.p, worker.read)
  <2> SUFFICES ASSUME SettingsInv, worker # None, ~Outdated, Refused(i, instance)
               PROVE  instance.diskSize > asked
    BY DEF UpdatesAreAccepted
  <2>1. /\ p \in Specs /\ worker.read \in Settings /\ Valid(p)
        /\ instance \in Settings /\ asked \in Int /\ Descends(p, instance, asked)
    BY DEF SettingsInv, TypeOK, Optional
  <2>2. i.diskSize = p.resources.min /\ i.privateNetwork = Build(p).privateNetwork
    BY DEF Adjust, Build
  <2>3. ASSUME instance.privateNetwork # ""
        PROVE  i.privateNetwork # ""
    BY <2>1, <2>2, <2>3 DEF Descends, Valid, ValidNetworking, Build
  <2>4. i.diskSize < instance.diskSize
    BY <2>3 DEF Refused
  <2>5. p.resources.min \in Int /\ instance.diskSize \in Int
    BY <2>1, AdmissionAssumption DEF Specs, ResourcesSpecs, Settings
  <2>6. asked <= p.resources.min
    BY <2>1 DEF Descends
  <2> QED
    BY <2>1, <2>2, <2>4, <2>5, <2>6
<1> QED
  BY <1>1, SettingsInvHolds, PTL

\* One update that is accepted leaves nothing to update.
THEOREM OneUpdateIsAlwaysEnough == Spec => []OneUpdateIsEnough
<1>1. SettingsInv => OneUpdateIsEnough
  <2> DEFINE i == Adjust(worker.p, worker.read)
  <2> SUFFICES ASSUME SettingsInv, worker # None, NEW o \in AfterUpdate(i, worker.read)
               PROVE  ~MustUpdate(worker.p, o)
    BY DEF OneUpdateIsEnough
  <2>1. worker.p \in Specs /\ worker.read \in Settings
    BY DEF SettingsInv, TypeOK, Optional
  <2>2. i \in Settings /\ Adjust(worker.p, i) = i
    BY <2>1, AdjustFits
  <2>3. o = i
    BY <2>2, UpdateIsExact
  <2> QED
    BY <2>2, <2>3 DEF MustUpdate
<1> QED
  BY <1>1, SettingsInvHolds, PTL

\* An instance that is found up to date is what the specification asks for.
THEOREM UpToDateIsAlwaysTrue == Spec => []UpToDateIsTrue
<1>1. SettingsInv => UpToDateIsTrue
  <2> DEFINE p == worker.p
             i == worker.read
  <2> SUFFICES ASSUME SettingsInv, worker # None, Adjust(p, i) = i
               PROVE  Meets(p, i)
    BY DEF UpToDateIsTrue, MustUpdate
  <2>1. p \in Specs /\ i \in Settings /\ Valid(p)
    BY DEF SettingsInv, TypeOK, Optional
  <2>2. i.region = p.location.region /\ i.diskType = DiskTypeValue(p.resources.disk)
    BY DEF SettingsInv
  <2>3. /\ i.ipv4 = Build(p).ipv4 /\ i.privateNetwork = Build(p).privateNetwork
        /\ i.authorized = Build(p).authorized /\ i.diskSize = Build(p).diskSize
        /\ i.autoResize = Build(p).autoResize /\ i.resizeLimit = Build(p).resizeLimit
        /\ i.day = Build(p).day /\ i.hour = Build(p).hour
        /\ i.backupEnabled = Build(p).backupEnabled
        /\ i.backupStartTime = Build(p).backupStartTime
        /\ i.availability = Build(p).availability /\ i.tier = Build(p).tier
        /\ i.flags = Build(p).flags /\ i.labels = Build(p).labels
        /\ p.location.zone # "Any" => i.zone = Build(p).zone
    <3>1. Build(p) \in Requested
      BY <2>1, BuildFits
    <3> QED
      BY <2>1, <3>1 DEF Adjust, Requested
  <2>4. /\ i.diskType = (IF p.resources.disk = "HDD" THEN "PD_HDD" ELSE "PD_SSD")
        /\ p.location.zone # "Any" => i.zone = p.location.zone
        /\ i.authorized = p.networking.authorized
        /\ i.backupEnabled = p.backups.enabled /\ i.backupStartTime = p.backups.startTime
        /\ i.availability = AvailabilityValue(p.availability)
        /\ i.tier = p.resources.tier /\ i.labels = p.labels
    BY <2>2, <2>3 DEF Build, DiskTypeValue, ZoneValue
  <2>5. Default(i.flags, {}) = p.flags
    <3>1. i.flags = FlagsValue(p.flags)
      BY <2>3 DEF Build
    <3>2. p.flags # None
      BY <2>1, AdmissionAssumption DEF Specs
    <3> QED
      BY <3>1, <3>2 DEF FlagsValue, Default
  <2>6. /\ i.ipv4 <=> p.networking.public
        /\ i.privateNetwork # "" <=> p.networking.private
        /\ p.networking.private => i.privateNetwork = p.networking.network
    BY <2>1, <2>3 DEF Build, Valid, ValidNetworking
  <2>7. /\ i.diskSize >= p.resources.min
        /\ p.resources.max > 0 => i.diskSize <= p.resources.max
    <3>1. p.resources.min \in Int /\ p.resources.max \in Int
      BY <2>1, AdmissionAssumption DEF Specs, ResourcesSpecs
    <3>2. i.diskSize = p.resources.min
      BY <2>3 DEF Build
    <3> QED
      BY <2>1, <3>1, <3>2 DEF Valid, ValidResources
  <2>8. /\ i.autoResize <=> p.resources.max # p.resources.min
        /\ i.autoResize => i.resizeLimit = p.resources.max
    BY <2>3 DEF Build, AutoResizes
  <2>9. /\ i.day = 0 <=> p.maintenance.day = "Any"
        /\ i.day # 0 => /\ i.day = DayValue(p.maintenance.day)
                        /\ i.hour = HourValue(p.maintenance.hour)
    <3>1. /\ i.day = IF p.maintenance.day = "Any" THEN 0 ELSE DayValue(p.maintenance.day)
          /\ i.hour = IF p.maintenance.day = "Any" THEN 0 ELSE HourValue(p.maintenance.hour)
      BY <2>3 DEF Build
    <3>2. DayValue(p.maintenance.day) \in 1..7
      BY DaysAndHours
    <3> QED
      BY <3>1, <3>2
  <2> QED
    BY <2>2, <2>4, <2>5, <2>6, <2>7, <2>8, <2>9, Zenon DEF Meets
<1> QED
  BY <1>1, SettingsInvHolds, PTL
=============================================================================
