--------------------- MODULE PostgresqlInstanceAdmission ---------------------
(***************************************************************************)
(* The admission of PostgresqlInstance resources, as implemented by        *)
(* pkg/admission/postgresqlinstance.go: how the webhook completes the      *)
(* specification in a CREATE or UPDATE request, and when it refuses it.    *)
(*                                                                         *)
(* A field that is absent is None; a section that is absent is one whose   *)
(* fields all are.  Names, flags, networks and so on are only compared,    *)
(* so each is a member of a small set; those the webhook calls malformed   *)
(* are told apart by the sets of well-formed ones.                         *)
(***************************************************************************)
EXTENDS Integers

CONSTANTS
  None,          \* "no value"
  InstanceNames, \* values of ".spec.name" of the required format and length
  Regions,
  Zones,         \* zones, "Any" not among them
  Hours,         \* hours of the day, as strings ("04:00")
  Flags,         \* flags of the form "<name>=<value>"
  Labels,        \* labels of the user's, on another key than "owner"
  Networks,      \* resource links of VPC networks
  Cidrs,         \* rules that authorise networks
  Tiers,         \* instance types
  Sizes          \* sizes of disks that users ask for

Weekdays == {"Monday", "Tuesday", "Wednesday", "Thursday", "Friday",
             "Saturday", "Sunday"}

ASSUME AdmissionAssumption ==
  /\ "europe-west1" \in Regions
  /\ "Any" \notin Zones /\ "" \notin Zones
  /\ {"00:00", "04:00"} \subseteq Hours /\ "Any" \notin Hours
  /\ "db-custom-1-3840" \in Tiers
  /\ "" \notin Networks
  /\ Sizes \subseteq Int /\ {0, 10} \subseteq Sizes
  /\ "owner" \notin Labels /\ "other owner" \notin Labels
  /\ None \notin {"", "Any", "true", "false", "Zonal", "Regional", "SSD", "HDD", "9.6"}
  /\ None \notin Weekdays
  /\ None \notin BOOLEAN /\ None \notin Sizes /\ None \notin InstanceNames
  /\ None \notin Regions \cup Zones \cup Hours \cup Networks \cup Tiers
  /\ \A f \in SUBSET (Flags \cup {"malformed"}) : f # None
  /\ \A l \in SUBSET (Labels \cup {"owner", "other owner"}) : l # None
  /\ \A c \in SUBSET Cidrs : c # None

\* The "owner" label with the value the webhook sets, and with another one.
Owner == "owner"
OtherOwner == "other owner"

DiskSizeMinimumGbLowerBound == 10

\* What users may ask for: every field may be absent, or not valid.
Optional(S) == {None} \cup S

Requests ==
  [allowDeletion : Optional({"", "true", "false"}),
   availability  : Optional({"Zonal", "Regional", "Elsewhere"}),
   backups       : [enabled : Optional(BOOLEAN), startTime : Optional(Hours \cup {"noon"})],
   flags         : Optional(SUBSET (Flags \cup {"malformed"})),
   labels        : Optional(SUBSET (Labels \cup {Owner, OtherOwner})),
   location      : [region : Optional(Regions), zone : Optional(Zones \cup {"Any"})],
   maintenance   : [day  : Optional(Weekdays \cup {"Any", "Someday"}),
                    hour : Optional(Hours \cup {"Any", "noon"})],
   name          : InstanceNames \cup {""},
   networking    : [private : Optional(BOOLEAN), network : Optional(Networks \cup {""}),
                    public : Optional(BOOLEAN), authorized : Optional(SUBSET Cidrs)],
   resources     : [max : Optional(Sizes), min : Optional(Sizes),
                    disk : Optional({"SSD", "HDD", "tape"}), tier : Optional(Tiers)],
   version       : Optional({"9.6", "11"})]

\* What is admitted: every field that the controller dereferences is there.
BackupsSpecs == [enabled : BOOLEAN, startTime : Hours]
LabelsSpecs == {l \in SUBSET (Labels \cup {Owner}) : Owner \in l}
LocationSpecs == [region : Regions, zone : Zones \cup {"Any"}]
MaintenanceSpecs == [day : Weekdays \cup {"Any"}, hour : Hours \cup {"Any"}]
NetworkingSpecs == [private : BOOLEAN, network : Networks \cup {""},
                    public : BOOLEAN, authorized : SUBSET Cidrs]
ResourcesSpecs == [max : Sizes, min : Sizes, disk : {"SSD", "HDD"}, tier : Tiers]

Specs ==
  [allowDeletion : {"true", "false"}, availability : {"Zonal", "Regional"},
   backups : BackupsSpecs, flags : SUBSET Flags, labels : LabelsSpecs,
   location : LocationSpecs, maintenance : MaintenanceSpecs, name : InstanceNames,
   networking : NetworkingSpecs, resources : ResourcesSpecs, version : {"9.6"}]
-----------------------------------------------------------------------------
(* Completion: what the webhook writes where a field is absent.            *)

Default(v, d) == IF v = None THEN d ELSE v

CompleteAnnotation(a) == IF a \in {None, ""} THEN "false" ELSE a

CompleteBackups(b) ==
  [enabled |-> Default(b.enabled, TRUE), startTime |-> Default(b.startTime, "00:00")]

\* A label on the key "owner" gets the operator's value.
CompleteLabels(l) == (Default(l, {}) \ {OtherOwner}) \cup {Owner}

\* Mutant of CompleteLocation: the zone is not completed.
CompleteLocationRegionOnly(l) == [l EXCEPT !.region = Default(@, "europe-west1")]

CompleteLocation(l) ==
  [region |-> Default(l.region, "europe-west1"), zone |-> Default(l.zone, "Any")]

MaintenanceHourDefault(day) == IF day = "Any" THEN "Any" ELSE "04:00"

CompleteMaintenance(m) ==
  LET day == Default(m.day, "Any")
  IN [day |-> day, hour |-> Default(m.hour, MaintenanceHourDefault(day))]

CompleteNetworking(n) ==
  [private |-> Default(n.private, FALSE), network |-> Default(n.network, ""),
   public |-> Default(n.public, FALSE), authorized |-> Default(n.authorized, {})]

CompleteResources(r) ==
  [max |-> Default(r.max, 0), min |-> Default(r.min, 10),
   disk |-> Default(r.disk, "SSD"), tier |-> Default(r.tier, "db-custom-1-3840")]

Complete(r) ==
  [allowDeletion |-> CompleteAnnotation(r.allowDeletion),
   availability  |-> Default(r.availability, "Zonal"),
   backups       |-> CompleteBackups(r.backups),
   flags         |-> Default(r.flags, {}),
   labels        |-> CompleteLabels(r.labels),
   location      |-> CompleteLocation(r.location),
   maintenance   |-> CompleteMaintenance(r.maintenance),
   name          |-> r.name,
   networking    |-> CompleteNetworking(r.networking),
   resources     |-> CompleteResources(r.resources),
   version       |-> Default(r.version, "9.6")]
-----------------------------------------------------------------------------
(* Validation of a completed specification.                                *)

ValidAvailability(s) == s.availability \in {"Regional", "Zonal"}

ValidBackups(s) == s.backups.startTime \in Hours

ValidFlags(s) == s.flags \subseteq Flags

ValidMaintenance(s) ==
  /\ s.maintenance.day \in Weekdays \cup {"Any"}
  /\ s.maintenance.hour \in Hours \cup {"Any"}
  /\ s.maintenance.day = "Any" <=> s.maintenance.hour = "Any"

ValidNetworking(s) ==
  /\ s.networking.private \/ s.networking.public
  /\ s.networking.private => s.networking.network # ""

ValidResources(s) ==
  /\ s.resources.min >= DiskSizeMinimumGbLowerBound
  /\ s.resources.max = 0 \/ s.resources.max >= s.resources.min
  /\ s.resources.disk \in {"HDD", "SSD"}

ValidVersion(s) == s.version = "9.6"

\* Mutant of NameAvailable: an update looks for an instance of the name too.
NameAvailableAlways(old, taken) == ~taken

\* The name must not be that of an existing instance when the object is
\* created ("taken": an instance of the name exists, or that is not known).
NameAvailable(old, taken) == old = None => ~taken

ValidName(s) == s.name \in InstanceNames

(* What an update must leave as it is; "old" is what is stored.            *)

\* Mutants of Unchanged: the region, or the size of the disk, may change.
UnchangedButRegion(s, old) ==
  /\ s.name = old.name
  /\ old.networking.private => s.networking.private
  /\ old.networking.network # "" => s.networking.network # ""
  /\ s.resources.min >= old.resources.min
  /\ s.resources.disk = old.resources.disk
  /\ s.version = old.version

UnchangedButSize(s, old) ==
  /\ s.location.region = old.location.region
  /\ s.name = old.name
  /\ old.networking.private => s.networking.private
  /\ old.networking.network # "" => s.networking.network # ""
  /\ s.resources.disk = old.resources.disk
  /\ s.version = old.version

Unchanged(s, old) ==
  /\ s.location.region = old.location.region
  /\ s.name = old.name
  /\ old.networking.private => s.networking.private
  /\ old.networking.network # "" => s.networking.network # ""
  /\ s.resources.min >= old.resources.min
  /\ s.resources.disk = old.resources.disk
  /\ s.version = old.version

\* The request r is admitted over "old" (None for a CREATE).  The version is
\* compared with the old one before it is completed, so an UPDATE that drops
\* it ends in a nil dereference, and the API server refuses the request.
Admits(r, old, taken) ==
  LET s == Complete(r)
  IN /\ ValidAvailability(s) /\ ValidBackups(s) /\ ValidFlags(s)
     /\ ValidMaintenance(s)
     /\ ValidName(s) /\ NameAvailable(old, taken)
     /\ ValidNetworking(s) /\ ValidResources(s) /\ ValidVersion(s)
     /\ old # None => r.version # None /\ Unchanged(s, old)
=============================================================================
